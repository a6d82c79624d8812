---------------------------- MODULE CodecProofs -----------------------------
(***************************************************************************)
(* The pure functions and the LDF parser, for every input: what the runs   *)
(* of CodecChecks and LdfParser show up to their bounds.                   *)
(*                                                                         *)
(* A loop over a sequence (Encode's, CalcChecksum's, ParseUint's) is a     *)
(* recursive definition; here it is given as an equation over the places   *)
(* read so far, which has a solution, and what holds of every turn holds   *)
(* of the result by NumberInduction.                                       *)
(***************************************************************************)
EXTENDS CodecChecks, LdfParser, SequenceTheorems, WellFoundedInduction, TLAPS

-----------------------------------------------------------------------------
(* The inputs of CodecChecks.                                              *)

(* The inputs that Grow makes.                                             *)
FrameIn == [codec : {"frame"}, id : 0..LINMaxID, ct : LINChecksumType, data : Seq(Byte)]
DiagIn  == [codec : {"diag"}, data : Seq(Byte)]
LdfIn   == [codec : {"ldf"}, Length : {1, 2}, Signals : Seq(Refs),
            signals : UNION {[D -> Values] : D \in SUBSET {"a", "b"}}]
E2EIn   == [codec : {"e2e"}, cfg : Identities, seq : Counters, data : Seq(Byte)]
MsgIn   == [codec : {"msg"}, ID : Seq(Digits), checksum : Seq(Digits), Payload : Payloads,
            checksum_type : {"classic", "enhanced", "none"}]
ArgsIn  == [codec : {"args"}, args : Seq(Args)]

InputInv == in \in FrameIn \cup DiagIn \cup LdfIn \cup E2EIn \cup MsgIn \cup ArgsIn

(* The empty input of each codec is one of them.                           *)
LEMMA InputStart == InputInit => InputInv
<1>1. \A S : <<>> \in Seq(S)
  OBVIOUS
<1>2. /\ [codec : {"frame"}, id : 0..LINMaxID, ct : LINChecksumType, data : {<<>>}] \subseteq FrameIn
      /\ [codec : {"diag"}, data : {<<>>}] \subseteq DiagIn
  BY <1>1, Zenon DEF FrameIn, DiagIn
<1>3. /\ [codec : {"ldf"}, Length : {1, 2}, Signals : {<<>>},
          signals : UNION {[D -> Values] : D \in SUBSET {"a", "b"}}] \subseteq LdfIn
      /\ [codec : {"e2e"}, cfg : Identities, seq : Counters, data : {<<>>}] \subseteq E2EIn
  BY <1>1, Zenon DEF LdfIn, E2EIn
<1>4. /\ [codec : {"msg"}, ID : {<<>>}, checksum : {<<>>}, Payload : Payloads,
          checksum_type : {"classic", "enhanced", "none"}] \subseteq MsgIn
      /\ [codec : {"args"}, args : {<<>>}] \subseteq ArgsIn
  BY <1>1, Zenon DEF MsgIn, ArgsIn
<1> QED  BY <1>2, <1>3, <1>4, Zenon DEF InputInit, InputInv

(* An input is of the kind its codec names.                                *)
LEMMA InputKind ==
  ASSUME InputInv
  PROVE  /\ in.codec = "frame" => in \in FrameIn
         /\ in.codec = "diag" => in \in DiagIn
         /\ in.codec = "ldf" => in \in LdfIn
         /\ in.codec = "e2e" => in \in E2EIn
         /\ in.codec = "msg" => in \in MsgIn
         /\ in.codec = "args" => in \in ArgsIn
<1>1. /\ \A x \in FrameIn : x.codec = "frame"
      /\ \A x \in DiagIn : x.codec = "diag"
      /\ \A x \in LdfIn : x.codec = "ldf"
      /\ \A x \in E2EIn : x.codec = "e2e"
      /\ \A x \in MsgIn : x.codec = "msg"
      /\ \A x \in ArgsIn : x.codec = "args"
  BY DEF FrameIn, DiagIn, LdfIn, E2EIn, MsgIn, ArgsIn
<1> QED  BY <1>1 DEF InputInv

(* What is appended to an input is of its kind.                            *)
LEMMA InputStep == InputInv /\ [Grow \/ Full]_in => InputInv'
<1> SUFFICES ASSUME InputInv, [Grow \/ Full]_in PROVE InputInv'
  OBVIOUS
<1>1. ASSUME NEW s, NEW b \in Byte, s = in.data, in' = [in EXCEPT !.data = Append(@, b)],
             in.codec \in {"frame", "diag", "e2e"}
      PROVE  InputInv'
  <2>1. PICK q : q = Append(s, b)
    OBVIOUS
  <2>2. s \in Seq(Byte) => q \in Seq(Byte)
    BY <2>1
  <2>3. CASE in \in FrameIn
    <3>1. in' \in FrameIn
      BY <1>1, <2>1, <2>2, <2>3 DEF FrameIn
    <3> QED  BY <3>1 DEF InputInv, FrameIn, LINMaxID, LINChecksumType, Byte
  <2>4. CASE in \in DiagIn
    <3>1. in' \in DiagIn
      BY <1>1, <2>1, <2>2, <2>4 DEF DiagIn
    <3> QED  BY <3>1 DEF InputInv, DiagIn, Byte
  <2>5. CASE in \in E2EIn
    <3>1. in' \in E2EIn
      BY <1>1, <2>1, <2>2, <2>5 DEF E2EIn
    <3> QED  BY <3>1 DEF InputInv, E2EIn, Identities, Byte
  <2> QED  BY <1>1, <2>3, <2>4, <2>5, InputKind
<1>2. CASE \/ AddByte("frame", CarryBytes, MaxPayload)
           \/ AddByte("diag", PCIBytes, MaxDiag)
           \/ AddByte("e2e", CarryBytes, MaxProtected)
  <2>1. PICK b \in Byte : in' = [in EXCEPT !.data = Append(@, b)] /\ in.codec \in {"frame", "diag", "e2e"}
    BY <1>2, CodecAssumption DEF AddByte
  <2> QED  BY <1>1, <2>1
<1>3. CASE AddRef
  <2>1. PICK ref \in Refs : in.codec = "ldf" /\ in' = [in EXCEPT !.Signals = Append(@, ref)]
    BY <1>3 DEF AddRef
  <2>2. in \in LdfIn
    BY <2>1, InputKind
  <2>3. PICK q : q = Append(in.Signals, ref)
    OBVIOUS
  <2>4. q \in Seq(Refs)
    BY <2>2, <2>3 DEF LdfIn
  <2>5. in' \in LdfIn
    BY <2>1, <2>2, <2>3, <2>4 DEF LdfIn
  <2> QED  BY <2>5 DEF InputInv
<1>4. CASE AddDigit
  <2>1. PICK d \in Digits :
          /\ in.codec = "msg"
          /\ \/ in' = [in EXCEPT !.ID = Append(@, d)]
             \/ in' = [in EXCEPT !.checksum = Append(@, d)]
    BY <1>4 DEF AddDigit
  <2>2. in \in MsgIn
    BY <2>1, InputKind
  <2>3. PICK q, r : q = Append(in.ID, d) /\ r = Append(in.checksum, d)
    OBVIOUS
  <2>4. q \in Seq(Digits) /\ r \in Seq(Digits)
    BY <2>2, <2>3 DEF MsgIn
  <2>5. in' \in MsgIn
    BY <2>1, <2>2, <2>3, <2>4 DEF MsgIn
  <2> QED  BY <2>5 DEF InputInv
<1>5. CASE AddArg
  <2>1. PICK a \in Args : in.codec = "args" /\ in' = [in EXCEPT !.args = Append(@, a)]
    BY <1>5 DEF AddArg
  <2>2. in \in ArgsIn
    BY <2>1, InputKind
  <2>3. PICK q : q = Append(in.args, a)
    OBVIOUS
  <2>4. q \in Seq(Args)
    BY <2>2, <2>3 DEF ArgsIn
  <2>5. in' \in ArgsIn
    BY <2>1, <2>2, <2>3, <2>4 DEF ArgsIn
  <2> QED  BY <2>5 DEF InputInv
<1>6. CASE UNCHANGED in
  BY <1>6 DEF InputInv
<1> QED  BY <1>2, <1>3, <1>4, <1>5, <1>6 DEF Grow, Full

(* Every input that InputSpec reaches is of these kinds.                   *)
LEMMA InputInvariance == InputSpec => []InputInv
  BY InputStart, InputStep, PTL DEF InputSpec

-----------------------------------------------------------------------------
(* ldf: packBits, extractBits, Encode and Decode.                          *)

(* A payload, and a field of it.                                           *)
Field(data, o, w) ==
  data \in [len : Nat, bits : SUBSET Nat] /\ o \in Nat /\ w \in Int

(* The bits of a field, those past the end of the payload too.             *)
Span(o, w) == {o + i : i \in 0..(w - 1)}

(* packBits keeps the length, so that the two loops stop at the same bit.  *)
LEMMA PackShape ==
  ASSUME NEW data, NEW o, NEW w, NEW val, Field(data, o, w)
  PROVE  LET d == packBits(data, o, w, val)
         IN  /\ d.len = data.len
             /\ d.bits = (data.bits \ {o + i : i \in Window(data, o, w)})
                  \cup {o + i : i \in {j \in Window(data, o, w) : j < Word /\ j \in val}}
  BY DEF Field, packBits

(* A payload stays one when a field of it is written.                      *)
LEMMA PackField ==
  ASSUME NEW data, NEW o, NEW w, NEW val, Field(data, o, w)
  PROVE  packBits(data, o, w, val) \in [len : Nat, bits : SUBSET Nat]
<1>1. PICK b : b = (data.bits \ {o + i : i \in Window(data, o, w)})
                     \cup {o + i : i \in {j \in Window(data, o, w) : j < Word /\ j \in val}}
  OBVIOUS
<1>2. packBits(data, o, w, val) = [data EXCEPT !.bits = b]
  BY <1>1 DEF packBits
<1>3. b \in SUBSET Nat
  BY <1>1 DEF Field, Window
<1> QED  BY <1>2, <1>3 DEF Field

(* "packBits ... the exact inverse of extractBits" (parser.go 258-259): a  *)
(* field reads back the low bits of the value written, as far as the       *)
(* payload and the machine word reach.                                     *)
THEOREM ExtractPack ==
  ASSUME NEW data, NEW o, NEW w, NEW val, Field(data, o, w)
  PROVE  extractBits(packBits(data, o, w, val), o, w)
           = {i \in Window(data, o, w) : i < Word /\ i \in val}
<1> DEFINE d   == packBits(data, o, w, val)
           win == Window(data, o, w)
<1>1. d.len = data.len /\ Window(d, o, w) = win
  BY PackShape DEF Window
<1>2. win \subseteq Nat /\ o \in Nat /\ Word \in Nat
  BY WordAssumption DEF Window, Field
<1>3. ASSUME NEW i \in win
      PROVE  o + i \in d.bits <=> i < Word /\ i \in val
  <2>1. d.bits = (data.bits \ {o + j : j \in win}) \cup {o + j : j \in {k \in win : k < Word /\ k \in val}}
    BY PackShape
  <2>2. o + i \in {o + j : j \in win}
    OBVIOUS
  <2>3. o + i \in {o + j : j \in {k \in win : k < Word /\ k \in val}} <=> i < Word /\ i \in val
    BY <1>2
  <2> QED  BY <2>1, <2>2, <2>3
<1>4. extractBits(d, o, w) = {i \in win : i < Word /\ o + i \in d.bits}
  BY <1>1 DEF extractBits
<1> QED  BY <1>3, <1>4

(* Fields that have no bit in common do not disturb each other.            *)
THEOREM PackElsewhere ==
  ASSUME NEW data, NEW o, NEW w, NEW val, Field(data, o, w),
         NEW p \in Nat, NEW v \in Int,
         Span(o, w) \cap Span(p, v) = {}
  PROVE  extractBits(packBits(data, o, w, val), p, v) = extractBits(data, p, v)
<1> DEFINE d   == packBits(data, o, w, val)
           win == Window(data, o, w)
<1>1. Window(d, p, v) = Window(data, p, v)
  BY PackShape DEF Window
<1>2. win \subseteq 0..(w - 1) /\ Window(data, p, v) \subseteq 0..(v - 1)
  BY DEF Window
<1>3. ASSUME NEW i \in Window(data, p, v)
      PROVE  p + i \in d.bits <=> p + i \in data.bits
  <2>1. d.bits = (data.bits \ {o + j : j \in win}) \cup {o + j : j \in {k \in win : k < Word /\ k \in val}}
    BY PackShape
  <2>2. \A j \in win : o + j # p + i
    <3>1. p + i \in Span(p, v) /\ \A j \in win : o + j \in Span(o, w)
      BY <1>2 DEF Span
    <3> QED  BY <3>1
  <2> QED  BY <2>1, <2>2
<1> QED  BY <1>1, <1>3 DEF extractBits

(* packBits stops at the end of the payload (parser.go 261-271): a write   *)
(* never leaves it.                                                        *)
THEOREM PackInside ==
  ASSUME NEW data, NEW o, NEW w, NEW val, Field(data, o, w), Payload(data)
  PROVE  Payload(packBits(data, o, w, val))
<1> DEFINE win == Window(data, o, w)
<1>1. \A i \in win : o + i \in 0..(8 * data.len - 1)
  BY DEF Window, Field
<1>2. data.bits \subseteq 0..(8 * data.len - 1) /\ data.len \in Nat
  BY DEF Payload
<1> QED  BY <1>1, <1>2, PackShape DEF Payload

-----------------------------------------------------------------------------
(* A set of numbers that has 0 and with every number the next has them all.*)
LEMMA NumberInduction ==
  ASSUME NEW S, 0 \in S, \A n \in Nat : n \in S => n + 1 \in S
  PROVE  Nat \subseteq S
<1> DEFINE T == Nat \ S
           R == {ss \in Nat \X Nat : ss[1] < ss[2]}
<1>1. SUFFICES ASSUME T # {} PROVE FALSE
  OBVIOUS
<1>2. IsWellFoundedOn(R, Nat)
  BY NatLessThanWellFounded DEF OpToRel
<1>3. \E x \in T : \A y \in T : ~(<<y, x>> \in R)
  <2>1. T \subseteq Nat
    OBVIOUS
  <2> HIDE DEF R, T
  <2> QED  BY <1>1, <1>2, <2>1, WFMin
<1>4. PICK x \in T : \A y \in T : ~(<<y, x>> \in R)
  BY <1>3
<1>5. \A y \in T : ~(y < x)
  BY <1>4
<1> QED  BY <1>4, <1>5

(* Encode's loop, as an equation over the references packed so far.        *)
IsEncoding(f, frame, signals, m) ==
  f = [n \in 0..m |->
         IF n = 0 THEN [len |-> frame.Length, bits |-> {}]
         ELSE PackRef(f[n - 1], frame.Signals[n], signals)]

(* That equation has a solution.                                           *)
LEMMA EncodingExists ==
  ASSUME NEW frame, NEW signals
  PROVE  \A m \in Nat : \E f : IsEncoding(f, frame, signals, m)
<1> DEFINE S == {m \in Nat : \E f : IsEncoding(f, frame, signals, m)}
           empty == [len |-> frame.Length, bits |-> {}]
           Body(f, n) == IF n = 0 THEN empty ELSE PackRef(f[n - 1], frame.Signals[n], signals)
<1>1. 0 \in S
  <2> DEFINE f == [n \in 0..0 |-> empty]
  <2>1. \A n \in 0..0 : n = 0
    OBVIOUS
  <2>2. IsEncoding(f, frame, signals, 0)
    BY <2>1 DEF IsEncoding
  <2> QED  BY <2>2
<1>2. ASSUME NEW m \in Nat, m \in S PROVE m + 1 \in S
  <2>1. PICK f : IsEncoding(f, frame, signals, m)
    BY <1>2
  <2>2. \A n \in 0..m : f[n] = Body(f, n)
    BY <2>1 DEF IsEncoding
  <2> DEFINE g == [n \in 0..(m + 1) |->
                     IF n = m + 1 THEN PackRef(f[m], frame.Signals[n], signals) ELSE f[n]]
  <2>3. ASSUME NEW n \in 0..(m + 1) PROVE g[n] = Body(g, n)
    <3>1. CASE n = m + 1
      <4>1. g[n] = PackRef(f[m], frame.Signals[n], signals) /\ g[m] = f[m] /\ n # 0 /\ n - 1 = m
        BY <3>1
      <4> HIDE DEF g
      <4> QED  BY <4>1
    <3>2. CASE n # m + 1
      <4>1. n \in 0..m /\ g[n] = f[n] /\ (n # 0 => g[n - 1] = f[n - 1])
        BY <3>2
      <4> HIDE DEF g
      <4> QED  BY <2>2, <4>1
    <3> QED  BY <3>1, <3>2
  <2>4. PICK h : h = g
    OBVIOUS
  <2>5. h = [n \in 0..(m + 1) |-> h[n]]
    BY <2>4
  <2> HIDE DEF g
  <2>6. IsEncoding(h, frame, signals, m + 1)
    BY <2>3, <2>4, <2>5 DEF IsEncoding
  <2> QED  BY <2>6
<1> HIDE DEF S
<1>3. Nat \subseteq S
  BY <1>1, <1>2, NumberInduction
<1> QED  BY <1>3 DEF S

(* The payloads between an empty one and what Encode returns.              *)
Rounds(f, frame, signals) ==
  /\ f[0] = [len |-> frame.Length, bits |-> {}]
  /\ \A n \in 1..Len(frame.Signals) : f[n] = PackRef(f[n - 1], frame.Signals[n], signals)

(* Encode goes through them.                                               *)
LEMMA EncodeRounds ==
  ASSUME NEW frame, NEW signals, Len(frame.Signals) \in Nat
  PROVE  \E f : Encode(frame, signals) = f[Len(frame.Signals)] /\ Rounds(f, frame, signals)
<1>1. PICK m \in Nat : m = Len(frame.Signals)
  OBVIOUS
<1>2. PICK f : f = CHOOSE g : IsEncoding(g, frame, signals, m)
  OBVIOUS
<1>3. Encode(frame, signals) = f[m]
  BY <1>1, <1>2, Zenon DEF Encode, IsEncoding
<1>4. IsEncoding(f, frame, signals, m)
  <2>1. \E g : IsEncoding(g, frame, signals, m)
    BY EncodingExists
  <2> QED  BY <1>2, <2>1, Zenon
<1>5. \A n \in 0..m : f[n] = IF n = 0 THEN [len |-> frame.Length, bits |-> {}]
                                      ELSE PackRef(f[n - 1], frame.Signals[n], signals)
  BY <1>4, Zenon DEF IsEncoding
<1>6. f[0] = [len |-> frame.Length, bits |-> {}]
  BY <1>5, SMTT(30)
<1>7. \A n \in 1..m : f[n] = PackRef(f[n - 1], frame.Signals[n], signals)
  BY <1>5
<1> QED  BY <1>1, <1>3, <1>6, <1>7 DEF Rounds

(* A frame whose references have a place; a width may be negative.         *)
Packable(frame) ==
  /\ frame.Length \in Nat /\ Len(frame.Signals) \in Nat
  /\ DOMAIN frame.Signals = 1..Len(frame.Signals)
  /\ \A n \in 1..Len(frame.Signals) :
       /\ frame.Signals[n].BitOffset \in Nat /\ frame.Signals[n].BitWidth \in Int
       /\ frame.Signals[n].declared \in BOOLEAN

(* The value Encode packs for a reference.                                 *)
Packed(ref, signals) == IF ref.Name \in DOMAIN signals THEN signals[ref.Name] ELSE ref.InitValue

(* The bits of it that lie in a payload of this length and in the word.    *)
Landed(ref, signals, len) ==
  {i \in 0..(ref.BitWidth - 1) :
     (ref.BitOffset + i) \div 8 < len /\ i < Word /\ i \in Packed(ref, signals)}

(* A round keeps the payload in its length and in the bits of the signals. *)
LEMMA PackRefInside ==
  ASSUME NEW data, NEW ref, NEW signals, Payload(data), data \in [len : Nat, bits : SUBSET Nat],
         ref.BitOffset \in Nat, ref.BitWidth \in Int, ref.declared \in BOOLEAN,
         NEW d, d = PackRef(data, ref, signals)
  PROVE  /\ d \in [len : Nat, bits : SUBSET Nat] /\ d.len = data.len /\ Payload(d)
         /\ \A x \in d.bits : x \in data.bits \/ (ref.declared /\ x \in Bits(ref))
<1>1. PICK o, w, v : o = ref.BitOffset /\ w = ref.BitWidth /\ v = Packed(ref, signals)
  OBVIOUS
<1>2. Field(data, o, w)
  BY <1>1 DEF Field
<1>3. CASE ref.declared
  <2>2. d = packBits(data, o, w, v)
    BY <1>1, <1>3, Zenon DEF PackRef, Packed
  <2>3. d \in [len : Nat, bits : SUBSET Nat] /\ d.len = data.len /\ Payload(d)
    BY <1>2, <2>2, PackShape, PackField, PackInside
  <2>4. \A x \in d.bits : x \in data.bits \/ x \in {o + i : i \in Window(data, o, w)}
    BY <1>2, <2>2, PackShape
  <2>5. {o + i : i \in Window(data, o, w)} \subseteq Bits(ref)
    BY <1>1 DEF Bits, Window
  <2> QED  BY <1>3, <2>3, <2>4, <2>5
<1>4. CASE ~ref.declared
  <2>1. d = data
    BY <1>4, Zenon DEF PackRef
  <2> QED  BY <2>1
<1> QED  BY <1>3, <1>4

(* "packs signals": what Encode returns, for every frame.                  *)
LEMMA RoundsInside ==
  ASSUME NEW frame, NEW signals, NEW f, Packable(frame), Rounds(f, frame, signals)
  PROVE  \A n \in 0..Len(frame.Signals) :
           /\ f[n] \in [len : Nat, bits : SUBSET Nat] /\ f[n].len = frame.Length /\ Payload(f[n])
           /\ \A x \in f[n].bits : \E k \in Declared(frame) : x \in Bits(frame.Signals[k])
<1> DEFINE Good(d) == /\ d \in [len : Nat, bits : SUBSET Nat] /\ d.len = frame.Length /\ Payload(d)
                      /\ \A x \in d.bits : \E k \in Declared(frame) : x \in Bits(frame.Signals[k])
           N == Len(frame.Signals)
           S == {n \in Nat : n <= N => Good(f[n])}
<1>0. N \in Nat
  BY DEF Packable
<1>1. 0 \in S
  <2>1. PICK d : d = f[0] /\ d = [len |-> frame.Length, bits |-> {}]
    BY DEF Rounds
  <2>2. d.len = frame.Length /\ d.bits = {} /\ d \in [len : Nat, bits : SUBSET Nat]
    BY <2>1 DEF Packable
  <2>3. Good(d)
    BY <2>2 DEF Payload
  <2> QED  BY <2>1, <2>3
<1>2. ASSUME NEW n \in Nat, n \in S PROVE n + 1 \in S
  <2> SUFFICES ASSUME n + 1 <= N PROVE Good(f[n + 1])
    OBVIOUS
  <2>1. PICK m \in 1..N : m = n + 1
    BY <1>0
  <2>2. Good(f[n]) /\ f[m] = PackRef(f[n], frame.Signals[m], signals)
    BY <1>0, <1>2, <2>1 DEF Rounds
  <2>3. PICK d, ref, e : d = f[n] /\ ref = frame.Signals[m] /\ e = PackRef(d, ref, signals)
    OBVIOUS
  <2>4. ref.BitOffset \in Nat /\ ref.BitWidth \in Int /\ ref.declared \in BOOLEAN
    BY <2>3 DEF Packable
  <2>5. /\ e \in [len : Nat, bits : SUBSET Nat] /\ e.len = d.len /\ Payload(e)
        /\ \A x \in e.bits : x \in d.bits \/ (ref.declared /\ x \in Bits(ref))
    BY <2>2, <2>3, <2>4, PackRefInside
  <2>6. ref.declared => m \in Declared(frame)
    BY <2>3 DEF Declared, Packable
  <2>7. \A x \in e.bits : \E k \in Declared(frame) : x \in Bits(frame.Signals[k])
    BY <2>2, <2>3, <2>5, <2>6
  <2>8. Good(e)
    BY <2>2, <2>3, <2>5, <2>7
  <2> QED  BY <2>1, <2>2, <2>3, <2>8
<1>3. Nat \subseteq S
  <2> HIDE DEF S
  <2> QED  BY <1>1, <1>2, NumberInduction
<1> QED  BY <1>0, <1>3

(* No later reference to the same signal or over the same bits.            *)
Kept(frame, n) ==
  /\ n \in Declared(frame)
  /\ \A k \in Declared(frame) : k > n =>
       /\ frame.Signals[k].Name # frame.Signals[n].Name
       /\ Bits(frame.Signals[k]) \cap Bits(frame.Signals[n]) = {}

(* What Encode has packed for such a reference it leaves alone.            *)
LEMMA RoundsKeep ==
  ASSUME NEW frame, NEW signals, NEW f, Packable(frame), Rounds(f, frame, signals),
         NEW n, Kept(frame, n), NEW ref, ref = frame.Signals[n]
  PROVE  extractBits(f[Len(frame.Signals)], ref.BitOffset, ref.BitWidth)
           = Landed(ref, signals, frame.Length)
<1>1. PICK N \in Nat : N = Len(frame.Signals)
  BY DEF Packable
<1>2. n \in 1..N /\ ref.declared
  BY <1>1 DEF Kept, Declared, Packable
<1>3. PICK o \in Nat, w \in Int : o = ref.BitOffset /\ w = ref.BitWidth
  BY <1>1, <1>2 DEF Packable
<1>4. PICK X : X = Landed(ref, signals, frame.Length)
  OBVIOUS
<1>5. \A k \in 0..N : f[k] \in [len : Nat, bits : SUBSET Nat] /\ f[k].len = frame.Length
  <2>1. \A k \in 0..Len(frame.Signals) :
          /\ f[k] \in [len : Nat, bits : SUBSET Nat] /\ f[k].len = frame.Length /\ Payload(f[k])
          /\ \A x \in f[k].bits : \E j \in Declared(frame) : x \in Bits(frame.Signals[j])
    BY RoundsInside, Zenon
  <2> QED  BY <1>1, <2>1
<1>6. \A k \in 1..N : f[k] = PackRef(f[k - 1], frame.Signals[k], signals)
  BY <1>1 DEF Rounds
<1>7. extractBits(f[n], o, w) = X
  <2>1. PICK d : d = f[n - 1]
    OBVIOUS
  <2>2. f[n] = packBits(d, o, w, Packed(ref, signals))
    BY <1>2, <1>3, <1>6, <2>1 DEF PackRef, Packed
  <2>3. Field(d, o, w) /\ d.len = frame.Length
    BY <1>2, <1>5, <2>1 DEF Field
  <2>4. {i \in Window(d, o, w) : i < Word /\ i \in Packed(ref, signals)} = X
    BY <1>3, <1>4, <2>3 DEF Window, Landed
  <2>5. extractBits(f[n], o, w) = {i \in Window(d, o, w) : i < Word /\ i \in Packed(ref, signals)}
    BY <2>2, <2>3, ExtractPack
  <2> QED  BY <2>4, <2>5
<1>8. ASSUME NEW k \in Nat, n <= k, k + 1 <= N, extractBits(f[k], o, w) = X
      PROVE  extractBits(f[k + 1], o, w) = X
  <2>1. PICK m \in 1..N : m = k + 1 /\ m - 1 = k /\ m > n
    BY <1>2, <1>8
  <2>2. PICK d, s : d = f[k] /\ s = frame.Signals[m]
    OBVIOUS
  <2>3. f[m] = PackRef(d, s, signals)
    BY <1>6, <2>1, <2>2
  <2>4. s.declared \in BOOLEAN /\ s.BitOffset \in Nat /\ s.BitWidth \in Int
    BY <1>1, <2>2 DEF Packable
  <2>5. CASE s.declared
    <3>1. m \in Declared(frame)
      BY <1>1, <2>2, <2>5 DEF Declared, Packable
    <3>2. Bits(s) \cap Bits(ref) = {}
      BY <2>1, <2>2, <3>1 DEF Kept
    <3>3. PICK p, v, val : p = s.BitOffset /\ v = s.BitWidth /\ val = Packed(s, signals)
      OBVIOUS
    <3>4. f[m] = packBits(d, p, v, val)
      BY <2>3, <2>5, <3>3, Zenon DEF PackRef, Packed
    <3>5. Field(d, p, v)
      BY <1>1, <1>2, <1>5, <1>8, <2>2, <2>4, <3>3 DEF Field
    <3>6. Span(p, v) \cap Span(o, w) = {}
      <4>1. Bits(s) = Span(p, v) /\ Bits(ref) = Span(o, w)
        BY <1>3, <3>3, Zenon DEF Span, Bits
      <4> QED  BY <3>2, <4>1, Zenon
    <3>7. extractBits(f[m], o, w) = extractBits(d, o, w)
      <4>1. extractBits(packBits(d, p, v, val), o, w) = extractBits(d, o, w)
        BY <1>3, <3>5, <3>6, PackElsewhere, SMTT(30)
      <4> QED  BY <3>4, <4>1
    <3> QED  BY <1>8, <2>1, <2>2, <3>7, Zenon
  <2>6. CASE ~s.declared
    BY <1>8, <2>1, <2>2, <2>3, <2>6 DEF PackRef
  <2> QED  BY <2>4, <2>5, <2>6
<1>9. extractBits(f[N], o, w) = X
  <2> DEFINE S == {k \in Nat : n <= k /\ k <= N => extractBits(f[k], o, w) = X}
  <2>1. 0 \in S
    BY <1>2
  <2>2. ASSUME NEW k \in Nat, k \in S PROVE k + 1 \in S
    <3>1. CASE k + 1 = n
      BY <1>7, <3>1
    <3>2. CASE n <= k /\ k + 1 <= N
      BY <1>8, <2>2, <3>2
    <3>3. CASE k + 1 < n \/ k + 1 > N
      BY <1>2, <3>3
    <3> QED  BY <1>2, <3>1, <3>2, <3>3
  <2> HIDE DEF S
  <2>3. Nat \subseteq S
    BY <2>1, <2>2, NumberInduction
  <2> QED  BY <1>2, <2>3 DEF S
<1> QED  BY <1>1, <1>3, <1>4, <1>9

(* Decode reads such a reference, and no other of that name.               *)
LEMMA DecodeKept ==
  ASSUME NEW frame, NEW data, NEW n, Kept(frame, n), Declared(frame) \subseteq Int,
         NEW ref, ref = frame.Signals[n]
  PROVE  Decode(frame, data)[ref.Name] = extractBits(data, ref.BitOffset, ref.BitWidth)
<1> DEFINE Latest(m) == /\ frame.Signals[m].Name = ref.Name
                        /\ \A k \in Declared(frame) : frame.Signals[k].Name = ref.Name => k <= m
           c == CHOOSE m \in Declared(frame) : Latest(m)
<1>1. n \in Declared(frame) /\ Latest(n)
  BY DEF Kept
<1>2. \A m \in Declared(frame) : Latest(m) => m = n
  BY <1>1 DEF Kept
<1>3. c \in Declared(frame) /\ Latest(c)
  <2>1. \E m \in Declared(frame) : Latest(m)
    BY <1>1
  <2> HIDE DEF Latest
  <2> QED  BY <2>1, Zenon
<1>4. c = n
  <2> HIDE DEF c, Latest
  <2> QED  BY <1>2, <1>3
<1>5. ref.Name \in {frame.Signals[k].Name : k \in Declared(frame)}
  BY <1>1
<1>6. Decode(frame, data)[ref.Name]
        = extractBits(data, frame.Signals[c].BitOffset, frame.Signals[c].BitWidth)
  BY <1>5, Zenon DEF Decode
<1> HIDE DEF c
<1> QED  BY <1>4, <1>6, Zenon

(* The comment on Encode, for every frame: Decode reads from what Encode   *)
(* returns the value that was packed, as far as the payload and the        *)
(* machine word reach, for every reference that no later one overwrites.   *)
THEOREM DecodeEncoded ==
  ASSUME NEW frame, NEW signals, Packable(frame), NEW n, Kept(frame, n), NEW ref, ref = frame.Signals[n]
  PROVE  Decode(frame, Encode(frame, signals))[ref.Name]
           = Landed(ref, signals, frame.Length)
<1>1. PICK f : Encode(frame, signals) = f[Len(frame.Signals)] /\ Rounds(f, frame, signals)
  BY EncodeRounds DEF Packable
<1>2. Declared(frame) \subseteq Int
  BY DEF Declared, Packable
<1>3. PICK data : data = Encode(frame, signals)
  OBVIOUS
<1>4. Decode(frame, data)[ref.Name] = extractBits(data, ref.BitOffset, ref.BitWidth)
  BY <1>2, DecodeKept
<1>5. extractBits(data, ref.BitOffset, ref.BitWidth)
        = Landed(ref, signals, frame.Length)
  <2>1. extractBits(f[Len(frame.Signals)], ref.BitOffset, ref.BitWidth)
          = Landed(ref, signals, frame.Length)
    BY <1>1, RoundsKeep, SMTT(30)
  <2> QED  BY <1>1, <1>3, <2>1, Zenon
<1> QED  BY <1>3, <1>4, <1>5, Zenon

(* Encode stays in the payload, for every frame: it returns as many bytes  *)
(* as the frame declares, with no bit outside them and none outside the    *)
(* signals it packed.                                                      *)
THEOREM EncodeInside ==
  ASSUME NEW frame, NEW signals, Packable(frame), NEW data, data = Encode(frame, signals)
  PROVE  /\ data.len = frame.Length /\ Payload(data)
         /\ data.bits \subseteq UNION {Bits(frame.Signals[n]) : n \in Declared(frame)}
<1>1. PICK f : Encode(frame, signals) = f[Len(frame.Signals)] /\ Rounds(f, frame, signals)
  BY EncodeRounds DEF Packable
<1>2. \A n \in 0..Len(frame.Signals) :
           /\ f[n] \in [len : Nat, bits : SUBSET Nat] /\ f[n].len = frame.Length /\ Payload(f[n])
           /\ \A x \in f[n].bits : \E k \in Declared(frame) : x \in Bits(frame.Signals[k])
  BY <1>1, RoundsInside, Zenon
<1>3. Len(frame.Signals) \in 0..Len(frame.Signals)
  BY DEF Packable
<1>4. /\ data.len = frame.Length /\ Payload(data)
      /\ \A x \in data.bits : \E k \in Declared(frame) : x \in Bits(frame.Signals[k])
  BY <1>1, <1>2, <1>3, Zenon
<1> QED  BY <1>4, Zenon

-----------------------------------------------------------------------------
(* The frames of the inputs have references and values of these kinds.     *)
LEMMA LdfInput ==
  ASSUME InputInv, in.codec = "ldf"
  PROVE  /\ Packable(in)
         /\ \A n \in Declared(in) :
              Value(in.Signals[n]) = Packed(in.Signals[n], in.signals)
                /\ Value(in.Signals[n]) \subseteq 0..(Word - 1)
         /\ \A n \in Readable : Kept(in, n)
<1>1. in \in LdfIn
  BY InputKind
<1>2. in.Length \in {1, 2} /\ in.Signals \in Seq(Refs)
  BY <1>1 DEF LdfIn
<1>3. PICK D \in SUBSET {"a", "b"} : in.signals \in [D -> Values]
  BY <1>1 DEF LdfIn
<1>4. \A ref \in Refs : /\ ref.BitOffset \in Offsets /\ ref.BitWidth \in Widths
                        /\ ref.declared \in BOOLEAN /\ ref.InitValue \in {{0}, {1, 2}}
  BY DEF Refs
<1>5. DOMAIN in.Signals = 1..Len(in.Signals) /\ Len(in.Signals) \in Nat
  BY <1>2
<1>6. \A n \in 1..Len(in.Signals) : in.Signals[n] \in Refs
  BY <1>2
<1>7. Packable(in)
  <2>1. \A n \in 1..Len(in.Signals) :
          /\ in.Signals[n].BitOffset \in Nat /\ in.Signals[n].BitWidth \in Int
          /\ in.Signals[n].declared \in BOOLEAN
    BY <1>4, <1>6, CodecAssumption, Zenon
  <2>2. in.Length \in Nat
    BY <1>2
  <2> QED  BY <1>5, <2>1, <2>2, Zenon DEF Packable
<1>8. \A ref : Value(ref) = Packed(ref, in.signals)
  BY DEF Value, Packed
<1>9. \A n \in Declared(in) : Value(in.Signals[n]) \subseteq 0..(Word - 1)
  <2> SUFFICES ASSUME NEW n \in Declared(in) PROVE Value(in.Signals[n]) \subseteq 0..(Word - 1)
    OBVIOUS
  <2>1. PICK ref \in Refs : ref = in.Signals[n]
    BY <1>5, <1>6 DEF Declared
  <2>2. CASE ref.Name \in DOMAIN in.signals
    <3>1. Value(ref) \in Values
      BY <1>3, <2>2 DEF Value
    <3> QED  BY <2>1, <3>1, CodecAssumption
  <2>3. CASE ref.Name \notin DOMAIN in.signals
    <3>1. Value(ref) = ref.InitValue
      BY <2>3 DEF Value
    <3>2. {0} \subseteq 0..(Word - 1) /\ {1, 2} \subseteq 0..(Word - 1)
      BY CodecAssumption, WordAssumption
    <3> QED  BY <1>4, <2>1, <3>1, <3>2
  <2> QED  BY <2>2, <2>3
<1>10. \A n \in Readable : Kept(in, n)
  BY DEF Readable, Kept
<1> QED  BY <1>7, <1>8, <1>9, <1>10

(* So the round trip of the inputs holds for any offsets, widths, values,  *)
(* number of references and word size.                                     *)
THEOREM EncodedDecodes == InputSpec => []DecodeEncode
<1>1. InputInv => DecodeEncode
  <2> SUFFICES ASSUME InputInv, in.codec = "ldf", NEW n \in Readable, NEW ref, ref = in.Signals[n],
                      Bits(ref) \subseteq 0..(8 * in.Length - 1)
               PROVE  Decode(in, Encode(in, in.signals))[ref.Name] = {i \in Value(ref) : i < ref.BitWidth}
    BY DEF DecodeEncode
  <2>1. Packable(in) /\ Kept(in, n) /\ n \in Declared(in) /\ Value(ref) = Packed(ref, in.signals)
          /\ Value(ref) \subseteq 0..(Word - 1)
    BY LdfInput DEF Readable
  <2>2. PICK o \in Nat, w \in Int, l \in Nat : o = ref.BitOffset /\ w = ref.BitWidth /\ l = in.Length
    BY <2>1 DEF Packable, Declared
  <2>3. Decode(in, Encode(in, in.signals))[ref.Name]
          = {i \in 0..(w - 1) : (o + i) \div 8 < l /\ i < Word /\ i \in Value(ref)}
    <3>1. Decode(in, Encode(in, in.signals))[ref.Name]
            = Landed(ref, in.signals, in.Length)
      BY <2>1, DecodeEncoded
    <3> QED  BY <2>1, <2>2, <3>1, Zenon DEF Landed
  <2>4. \A i \in 0..(w - 1) : (o + i) \div 8 < l
    <3>1. \A i \in 0..(w - 1) : o + i \in 0..(8 * l - 1)
      BY <2>2 DEF Bits
    <3> QED  BY <3>1
  <2>5. \A i \in Value(ref) : i \in 0..(Word - 1) /\ Word \in Nat
    BY <2>1, WordAssumption
  <2>6. {i \in 0..(w - 1) : (o + i) \div 8 < l /\ i < Word /\ i \in Value(ref)} = {i \in Value(ref) : i < w}
    BY <2>4, <2>5
  <2> QED  BY <2>2, <2>3, <2>6, Zenon
<1> QED  BY <1>1, InputInvariance, PTL

(* And so does the bound on what Encode writes: no bit outside the payload *)
(* and none outside the signals.                                           *)
THEOREM EncodedStays == InputSpec => []StaysInPayload
<1>1. InputInv => StaysInPayload
  <2> SUFFICES ASSUME InputInv, in.codec = "ldf" PROVE StaysInPayload
    BY DEF StaysInPayload
  <2>1. PICK data : data = Encode(in, in.signals)
    OBVIOUS
  <2>2. Payload(data) /\ data.bits \subseteq UNION {Bits(in.Signals[n]) : n \in Declared(in)}
    BY <2>1, LdfInput, EncodeInside, Zenon
  <2>3. ASSUME NEW n \in Readable
        PROVE  Decode(in, data)[in.Signals[n].Name] \subseteq Value(in.Signals[n])
    <3>1. PICK ref : ref = in.Signals[n]
      OBVIOUS
    <3>2. Packable(in) /\ Kept(in, n) /\ Value(ref) = Packed(ref, in.signals)
      BY <3>1, LdfInput DEF Readable
    <3>3. Decode(in, data)[ref.Name]
            = Landed(ref, in.signals, in.Length)
      BY <2>1, <3>1, <3>2, DecodeEncoded
    <3> QED  BY <3>1, <3>2, <3>3, Zenon DEF Landed
  <2> QED  BY <2>1, <2>2, <2>3, Zenon DEF StaysInPayload
<1> QED  BY <1>1, InputInvariance, PTL

-----------------------------------------------------------------------------
(* The loops of the checksum and of ParseUint.                             *)

(* A non-empty set of numbers up to a bound has a greatest one.            *)
LEMMA Greatest ==
  ASSUME NEW n \in Nat, NEW T \in SUBSET (1..n), T # {}
  PROVE  Max(T) \in T /\ \A y \in T : Max(T) >= y
<1> DEFINE Has(U) == U # {} => \E x \in U : \A y \in U : x >= y
           S == {m \in Nat : \A U \in SUBSET (1..m) : Has(U)}
<1>1. 0 \in S
  <2>1. 1..0 = {}
    OBVIOUS
  <2> QED  BY <2>1
<1>2. ASSUME NEW m \in Nat, m \in S PROVE m + 1 \in S
  <2> SUFFICES ASSUME NEW U \in SUBSET (1..(m + 1)), U # {}
               PROVE  \E x \in U : \A y \in U : x >= y
    OBVIOUS
  <2>1. CASE m + 1 \in U
    <3>1. \A y \in U : m + 1 >= y
      OBVIOUS
    <3> QED  BY <2>1, <3>1
  <2>2. CASE m + 1 \notin U
    <3>1. U \in SUBSET (1..m)
      BY <2>2
    <3> QED  BY <1>2, <3>1
  <2> QED  BY <2>1, <2>2
<1>3. n \in S
  <2> HIDE DEF S
  <2>1. Nat \subseteq S
    BY <1>1, <1>2, NumberInduction
  <2> QED  BY <2>1
<1>4. \E x \in T : \A y \in T : x >= y
  BY <1>3
<1> QED  BY <1>4 DEF Max

(* The loops over a sequence, told apart by name, and one turn of each:    *)
(* CalcChecksum's, the plain sum it is compared with, and ParseUint's.     *)
Turn(loop, r, x) ==
  CASE loop = "carry" -> AddWithCarry(r, x)
    [] loop = "plus"  -> r + x
    [] loop = "digit" -> ParseDigit(r, x)

(* A loop as an equation over the places read so far.                      *)
IsLoop(it, loop, s, base, S) ==
  it = [t \in SUBSET S |-> IF t = {} THEN base ELSE Turn(loop, it[t \ {Max(t)}], s[Max(t)])]

(* That equation has a solution.                                           *)
LEMMA LoopExists ==
  ASSUME NEW loop, NEW s, NEW base
  PROVE  \A n \in Nat : \E it : IsLoop(it, loop, s, base, 1..n)
<1> DEFINE Body(it, t) == IF t = {} THEN base ELSE Turn(loop, it[t \ {Max(t)}], s[Max(t)])
           S == {n \in Nat : \E it : IsLoop(it, loop, s, base, 1..n)}
<1>1. 0 \in S
  <2> DEFINE f == [t \in SUBSET (1..0) |-> base]
  <2>1. \A t \in SUBSET (1..0) : t = {}
    OBVIOUS
  <2>2. IsLoop(f, loop, s, base, 1..0)
    BY <2>1 DEF IsLoop
  <2> QED  BY <2>2
<1>2. ASSUME NEW n \in Nat, n \in S PROVE n + 1 \in S
  <2>1. PICK f : IsLoop(f, loop, s, base, 1..n)
    BY <1>2
  <2>2. \A t \in SUBSET (1..n) : f[t] = Body(f, t)
    BY <2>1 DEF IsLoop
  <2> DEFINE g == [t \in SUBSET (1..(n + 1)) |->
                     IF n + 1 \in t THEN Turn(loop, f[t \ {n + 1}], s[n + 1]) ELSE f[t]]
  <2>3. ASSUME NEW t \in SUBSET (1..(n + 1)) PROVE g[t] = Body(g, t)
    <3>1. CASE n + 1 \in t
      <4>1. Max(t) = n + 1
        <5>1. \A y \in t : y \in Int /\ n + 1 >= y
          OBVIOUS
        <5>2. PICK k \in Nat : k = n + 1
          OBVIOUS
        <5>3. t \in SUBSET (1..k) /\ t # {}
          BY <3>1, <5>2
        <5>4. Max(t) \in t /\ \A y \in t : Max(t) >= y
          BY <5>3, Greatest
        <5>5. Max(t) \in Int /\ n + 1 >= Max(t) /\ Max(t) >= n + 1
          BY <3>1, <5>1, <5>4
        <5> QED  BY <5>5
      <4>2. t \ {n + 1} \in SUBSET (1..n) /\ n + 1 \notin t \ {n + 1} /\ t # {}
        BY <3>1
      <4>3. g[t \ {n + 1}] = f[t \ {n + 1}] /\ g[t] = Turn(loop, f[t \ {n + 1}], s[n + 1])
        BY <3>1, <4>2
      <4> HIDE DEF g
      <4> QED  BY <4>1, <4>2, <4>3
    <3>2. CASE n + 1 \notin t
      <4>0. t \in SUBSET (1..n)
        BY <3>2
      <4>1. t \in SUBSET (1..n) /\ t \ {Max(t)} \in SUBSET (1..n)
        BY <4>0, Zenon
      <4>2. g[t] = f[t] /\ g[t \ {Max(t)}] = f[t \ {Max(t)}]
        <5>1. ASSUME NEW u \in SUBSET (1..n) PROVE g[u] = f[u]
          <6>1. u \in SUBSET (1..(n + 1)) /\ n + 1 \notin u
            OBVIOUS
          <6> QED  BY <6>1
        <5> HIDE DEF g
        <5> QED  BY <4>1, <5>1
      <4> HIDE DEF g
      <4> QED  BY <2>2, <4>1, <4>2
    <3> QED  BY <3>1, <3>2
  <2>4. PICK h : h = g
    OBVIOUS
  <2>5. h = [t \in SUBSET (1..(n + 1)) |-> h[t]]
    BY <2>4
  <2> HIDE DEF g
  <2>6. IsLoop(h, loop, s, base, 1..(n + 1))
    BY <2>3, <2>4, <2>5 DEF IsLoop
  <2> QED  BY <2>6
<1> HIDE DEF S
<1>3. Nat \subseteq S
  BY <1>1, <1>2, NumberInduction
<1> QED  BY <1>3 DEF S

(* The values of a loop, from its base to its result.                      *)
Turns(r, loop, s, base, n) ==
  r[0] = base /\ \A k \in 1..n : r[k] = Turn(loop, r[k - 1], s[k])

(* What that equation says, one turn at a time.                            *)
LEMMA LoopTurns ==
  ASSUME NEW it, NEW loop, NEW s, NEW base, NEW n \in Nat, IsLoop(it, loop, s, base, 1..n)
  PROVE  \E r : r[n] = it[1..n] /\ Turns(r, loop, s, base, n)
<1>1. \A t \in SUBSET (1..n) :
        it[t] = IF t = {} THEN base ELSE Turn(loop, it[t \ {Max(t)}], s[Max(t)])
  BY Zenon DEF IsLoop
<1>2. PICK r : r = [k \in 0..n |-> it[1..k]]
  OBVIOUS
<1>3. r[0] = base
  <2>1. 1..0 = {} /\ {} \in SUBSET (1..n) /\ 0 \in 0..n
    OBVIOUS
  <2>2. it[{}] = base
    BY <1>1, <2>1
  <2> QED  BY <1>2, <2>1, <2>2
<1>4. ASSUME NEW k \in 1..n PROVE r[k] = Turn(loop, r[k - 1], s[k])
  <2>1. k \in Nat /\ 1..k \in SUBSET (1..k) /\ 1..k # {} /\ 1..k \in SUBSET (1..n)
    OBVIOUS
  <2>2. Max(1..k) \in 1..k /\ \A y \in 1..k : Max(1..k) >= y
    BY <2>1, Greatest
  <2>3. Max(1..k) = k
    <3>1. k \in 1..k
      OBVIOUS
    <3> QED  BY <2>2, <3>1
  <2>4. (1..k) \ {k} = 1..(k - 1)
    OBVIOUS
  <2>5. it[1..k] = Turn(loop, it[1..(k - 1)], s[k])
    BY <1>1, <2>1, <2>3, <2>4
  <2>6. r[k] = it[1..k] /\ r[k - 1] = it[1..(k - 1)]
    BY <1>2
  <2> QED  BY <2>5, <2>6
<1>5. r[n] = it[1..n]
  BY <1>2
<1> QED  BY <1>3, <1>4, <1>5 DEF Turns

(* The three folds are these loops.                                        *)
LEMMA FoldTurns ==
  ASSUME NEW s, NEW base, NEW n \in Nat, DOMAIN s = 1..n
  PROVE  /\ \E r : r[n] = FoldLeft(AddWithCarry, base, s) /\ Turns(r, "carry", s, base, n)
         /\ \E r : r[n] = FoldLeft(LAMBDA t, b : t + b, base, s) /\ Turns(r, "plus", s, base, n)
         /\ \E r : r[n] = FoldLeft(ParseDigit, base, s) /\ Turns(r, "digit", s, base, n)
<1>1. \A r, x : /\ Turn("carry", r, x) = AddWithCarry(r, x)
                /\ Turn("plus", r, x) = r + x
                /\ Turn("digit", r, x) = ParseDigit(r, x)
  BY DEF Turn
<1>2. \E r : r[n] = FoldLeft(AddWithCarry, base, s) /\ Turns(r, "carry", s, base, n)
  <2> DEFINE IsSum(f) == f = [t \in SUBSET (1..n) |->
                                IF t = {} THEN base ELSE AddWithCarry(f[t \ {Max(t)}], s[Max(t)])]
  <2>1. PICK it : it = CHOOSE f : IsSum(f)
    OBVIOUS
  <2>2. FoldLeft(AddWithCarry, base, s) = it[1..n]
    BY <2>1, Zenon DEF FoldLeft, MapThenFoldSet
  <2>3. \A f : IsSum(f) <=> IsLoop(f, "carry", s, base, 1..n)
    BY <1>1, ZenonT(60) DEF IsLoop
  <2> HIDE DEF IsSum
  <2>4. IsLoop(it, "carry", s, base, 1..n)
    <3>1. \E f : IsSum(f)
      BY <2>3, LoopExists
    <3> QED  BY <2>1, <2>3, <3>1, Zenon
  <2> QED  BY <2>2, <2>4, LoopTurns
<1>3. \E r : r[n] = FoldLeft(LAMBDA t, b : t + b, base, s) /\ Turns(r, "plus", s, base, n)
  <2> DEFINE IsSum(f) == f = [t \in SUBSET (1..n) |->
                                IF t = {} THEN base ELSE f[t \ {Max(t)}] + s[Max(t)]]
  <2>1. PICK it : it = CHOOSE f : IsSum(f)
    OBVIOUS
  <2>2. FoldLeft(LAMBDA t, b : t + b, base, s) = it[1..n]
    BY <2>1, Zenon DEF FoldLeft, MapThenFoldSet
  <2>3. \A f : IsSum(f) <=> IsLoop(f, "plus", s, base, 1..n)
    BY <1>1, ZenonT(60) DEF IsLoop
  <2> HIDE DEF IsSum
  <2>4. IsLoop(it, "plus", s, base, 1..n)
    <3>1. \E f : IsSum(f)
      BY <2>3, LoopExists
    <3> QED  BY <2>1, <2>3, <3>1, Zenon
  <2> QED  BY <2>2, <2>4, LoopTurns, Zenon
<1>4. \E r : r[n] = FoldLeft(ParseDigit, base, s) /\ Turns(r, "digit", s, base, n)
  <2> DEFINE IsSum(f) == f = [t \in SUBSET (1..n) |->
                                IF t = {} THEN base ELSE ParseDigit(f[t \ {Max(t)}], s[Max(t)])]
  <2>1. PICK it : it = CHOOSE f : IsSum(f)
    OBVIOUS
  <2>2. FoldLeft(ParseDigit, base, s) = it[1..n]
    BY <2>1, Zenon DEF FoldLeft, MapThenFoldSet
  <2>3. \A f : IsSum(f) <=> IsLoop(f, "digit", s, base, 1..n)
    BY <1>1, ZenonT(60) DEF IsLoop
  <2> HIDE DEF IsSum
  <2>4. IsLoop(it, "digit", s, base, 1..n)
    <3>1. \E f : IsSum(f)
      BY <2>3, LoopExists
    <3> QED  BY <2>1, <2>3, <3>1, Zenon
  <2> QED  BY <2>2, <2>4, LoopTurns
<1> QED  BY <1>2, <1>3, <1>4

-----------------------------------------------------------------------------
(* lin: parity of the protected identifier.                                *)

(* A byte by its bits, lowest first.                                       *)
EightBits == [0..7 -> 0..1]

OfBits(w) ==
  w[0] + 2 * w[1] + 4 * w[2] + 8 * w[3] + 16 * w[4] + 32 * w[5] + 64 * w[6] + 128 * w[7]

(* The parities of bits 0 to 5, and the bytes that have them in bits 6, 7. *)
Parity0(w) == (w[0] + w[1] + w[2] + w[4]) % 2
Parity1(w) == (1 + w[1] + w[3] + w[4] + w[5]) % 2
Even(w) == Parity0(w) = w[6] /\ Parity1(w) = w[7]

(* The weights of the bits.                                                *)
LEMMA Powers ==
  /\ 2^0 = 1 /\ 2^1 = 2 /\ 2^2 = 4 /\ 2^3 = 8
  /\ 2^4 = 16 /\ 2^5 = 32 /\ 2^6 = 64 /\ 2^7 = 128
  OBVIOUS

(* The bits, one by one.                                                   *)
LEMMA Places ==
  ASSUME NEW w \in EightBits
  PROVE  /\ w[0] \in 0..1 /\ w[1] \in 0..1 /\ w[2] \in 0..1 /\ w[3] \in 0..1
         /\ w[4] \in 0..1 /\ w[5] \in 0..1 /\ w[6] \in 0..1 /\ w[7] \in 0..1
  BY DEF EightBits

(* Bit reads the bits of a byte.                                           *)
LEMMA BitsOf ==
  ASSUME NEW w \in EightBits
  PROVE  OfBits(w) \in Byte /\ \A i \in 0..7 : Bit(OfBits(w), i) = w[i]
<1>1. PICK a, b, c, d, e, f, g, h \in 0..1 :
        a = w[0] /\ b = w[1] /\ c = w[2] /\ d = w[3] /\ e = w[4] /\ f = w[5] /\ g = w[6] /\ h = w[7]
  BY Places
<1>2. PICK x : x = a + 2 * b + 4 * c + 8 * d + 16 * e + 32 * f + 64 * g + 128 * h
  OBVIOUS
<1>3. x = OfBits(w)
  BY <1>1, <1>2 DEF OfBits
<1>4. x \in 0..255
  BY <1>2
<1>5. /\ (x \div 1) % 2 = a /\ (x \div 2) % 2 = b /\ (x \div 4) % 2 = c /\ (x \div 8) % 2 = d
      /\ (x \div 16) % 2 = e /\ (x \div 32) % 2 = f /\ (x \div 64) % 2 = g /\ (x \div 128) % 2 = h
  BY <1>2
<1>6. /\ Bit(x, 0) = w[0] /\ Bit(x, 1) = w[1] /\ Bit(x, 2) = w[2] /\ Bit(x, 3) = w[3]
      /\ Bit(x, 4) = w[4] /\ Bit(x, 5) = w[5] /\ Bit(x, 6) = w[6] /\ Bit(x, 7) = w[7]
  BY <1>1, <1>5, Powers DEF Bit
<1>7. \A i \in 0..7 : i = 0 \/ i = 1 \/ i = 2 \/ i = 3 \/ i = 4 \/ i = 5 \/ i = 6 \/ i = 7
  OBVIOUS
<1> QED  BY <1>3, <1>4, <1>6, <1>7, ZenonT(60) DEF Byte

(* Every byte has bits.                                                    *)
LEMMA ByteBits ==
  ASSUME NEW x \in Byte
  PROVE  \E w \in EightBits : x = OfBits(w)
<1> DEFINE w == [i \in 0..7 |-> Bit(x, i)]
<1>1. \A i \in 0..7 : i = 0 \/ i = 1 \/ i = 2 \/ i = 3 \/ i = 4 \/ i = 5 \/ i = 6 \/ i = 7
  OBVIOUS
<1>2. PICK a, b, c, d, e, f, g, h \in 0..1 :
        /\ a = (x \div 1) % 2 /\ b = (x \div 2) % 2 /\ c = (x \div 4) % 2 /\ d = (x \div 8) % 2
        /\ e = (x \div 16) % 2 /\ f = (x \div 32) % 2 /\ g = (x \div 64) % 2 /\ h = (x \div 128) % 2
  BY DEF Byte
<1>3. /\ Bit(x, 0) = a /\ Bit(x, 1) = b /\ Bit(x, 2) = c /\ Bit(x, 3) = d
      /\ Bit(x, 4) = e /\ Bit(x, 5) = f /\ Bit(x, 6) = g /\ Bit(x, 7) = h
  BY <1>2, Powers DEF Bit
<1>4. w \in EightBits
  BY <1>1, <1>3, Zenon DEF EightBits
<1>5. x = a + 2 * b + 4 * c + 8 * d + 16 * e + 32 * f + 64 * g + 128 * h
  BY <1>2, SMTT(30) DEF Byte
<1>6. /\ w[0] = a /\ w[1] = b /\ w[2] = c /\ w[3] = d
      /\ w[4] = e /\ w[5] = f /\ w[6] = g /\ w[7] = h
  BY <1>3
<1>7. OfBits(w) = x
  BY <1>5, <1>6, Zenon DEF OfBits
<1> QED  BY <1>4, <1>7

(* ProtectID keeps the six low bits and puts the parities above them.      *)
LEMMA ProtectBits ==
  ASSUME NEW w \in EightBits
  PROVE  ProtectID(OfBits(w) % 64) = OfBits([w EXCEPT ![6] = Parity0(w), ![7] = Parity1(w)])
<1> DEFINE l == [w EXCEPT ![6] = 0, ![7] = 0]
           v == [w EXCEPT ![6] = Parity0(w), ![7] = Parity1(w)]
<1>1. l \in EightBits
  BY DEF EightBits
<1>2. PICK a, b, c, d, e, f, g, h \in 0..1 :
        a = w[0] /\ b = w[1] /\ c = w[2] /\ d = w[3] /\ e = w[4] /\ f = w[5] /\ g = w[6] /\ h = w[7]
  BY Places
<1>3. /\ l[0] = a /\ l[1] = b /\ l[2] = c /\ l[3] = d /\ l[4] = e /\ l[5] = f /\ l[6] = 0 /\ l[7] = 0
      /\ v[0] = a /\ v[1] = b /\ v[2] = c /\ v[3] = d /\ v[4] = e /\ v[5] = f
      /\ v[6] = Parity0(w) /\ v[7] = Parity1(w)
  BY <1>2 DEF EightBits
<1>4. PICK x \in 0..63 : x = a + 2 * b + 4 * c + 8 * d + 16 * e + 32 * f
  OBVIOUS
<1> HIDE DEF l, v
<1>5. OfBits(w) % 64 = x /\ x % 64 = x /\ x = OfBits(l)
  <2>1. x = OfBits(l) /\ OfBits(w) = x + 64 * g + 128 * h
    BY <1>2, <1>3, <1>4 DEF OfBits
  <2>2. (x + 64 * g + 128 * h) % 64 = x /\ x % 64 = x
    OBVIOUS
  <2> QED  BY <2>1, <2>2
<1>6. \A i \in 0..7 : Bit(x, i) = l[i]
  BY <1>1, <1>5, BitsOf, Zenon
<1>7. Bit(x, 0) = a /\ Bit(x, 1) = b /\ Bit(x, 2) = c /\ Bit(x, 3) = d /\ Bit(x, 4) = e /\ Bit(x, 5) = f
  BY <1>3, <1>6
<1>8. Parity0(w) = (a + b + c + e) % 2 /\ Parity1(w) = (1 + b + d + e + f) % 2
  BY <1>2 DEF Parity0, Parity1
<1>9. ProtectID(x) = x + 64 * Parity0(w) + 128 * Parity1(w)
  BY <1>5, <1>7, <1>8, ZenonT(60) DEF ProtectID
<1>10. Parity0(w) \in Int /\ Parity1(w) \in Int
  BY <1>8
<1>11. OfBits(v) = x + 64 * Parity0(w) + 128 * Parity1(w)
  BY <1>3, <1>4, <1>10 DEF OfBits
<1> QED  BY <1>5, <1>9, <1>11 DEF v

(* VerifyPID accepts a byte exactly when both parities are right.          *)
LEMMA VerifyBits ==
  ASSUME NEW w \in EightBits
  PROVE  /\ Even(w) => VerifyPID(OfBits(w)) = [id |-> OfBits(w) % 64, err |-> FALSE]
         /\ ~Even(w) => VerifyPID(OfBits(w)) = [id |-> 0, err |-> TRUE]
<1>1. PICK x : x = OfBits(w)
  OBVIOUS
<1>2. PICK v : v = [w EXCEPT ![6] = Parity0(w), ![7] = Parity1(w)]
  OBVIOUS
<1>3. Parity0(w) \in 0..1 /\ Parity1(w) \in 0..1
  BY Places DEF Parity0, Parity1
<1>4. v \in EightBits /\ v[6] = Parity0(w) /\ v[7] = Parity1(w)
  BY <1>2, <1>3 DEF EightBits
<1>5. ProtectID(x % 64) = OfBits(v)
  BY <1>1, <1>2, ProtectBits
<1>6. ASSUME Even(w) PROVE ProtectID(x % 64) = x
  <2>1. v = w
    BY <1>2, <1>6 DEF Even, EightBits
  <2> QED  BY <1>1, <1>5, <2>1
<1>7. ASSUME ProtectID(x % 64) = x PROVE Even(w)
  <2>1. \A i \in 0..7 : v[i] = w[i]
    <3>1. \A i \in 0..7 : Bit(x, i) = w[i]
      BY <1>1, BitsOf
    <3>2. \A i \in 0..7 : Bit(x, i) = v[i]
      BY <1>4, <1>5, <1>7, BitsOf
    <3> QED  BY <3>1, <3>2
  <2> QED  BY <1>4, <2>1 DEF Even
<1> QED  BY <1>1, <1>6, <1>7, Zenon DEF VerifyPID

(* Flip turns one bit over.                                                *)
LEMMA FlipBits ==
  ASSUME NEW w \in EightBits, NEW i \in 0..7
  PROVE  /\ [w EXCEPT ![i] = 1 - @] \in EightBits
         /\ Flip(OfBits(w), i) = OfBits([w EXCEPT ![i] = 1 - @])
<1> DEFINE v == [w EXCEPT ![i] = 1 - @]
<1>1. v \in EightBits
  BY DEF EightBits
<1>2. PICK a, b, c, d, e, f, g, h \in 0..1 :
        a = w[0] /\ b = w[1] /\ c = w[2] /\ d = w[3] /\ e = w[4] /\ f = w[5] /\ g = w[6] /\ h = w[7]
  BY Places
<1>3. PICK x \in Int : x = OfBits(w)
  BY BitsOf DEF Byte
<1>4. x = a + 2 * b + 4 * c + 8 * d + 16 * e + 32 * f + 64 * g + 128 * h
  BY <1>2, <1>3 DEF OfBits
<1>5. Flip(x, i) = IF w[i] = 1 THEN x - 2^i ELSE x + 2^i
  BY <1>3, BitsOf DEF Flip
<1>6. \A j \in 0..7 : v[j] = IF j = i THEN 1 - w[i] ELSE w[j]
  BY DEF EightBits
<1>7. /\ v[0] = (IF i = 0 THEN 1 - a ELSE a) /\ v[1] = (IF i = 1 THEN 1 - b ELSE b)
      /\ v[2] = (IF i = 2 THEN 1 - c ELSE c) /\ v[3] = (IF i = 3 THEN 1 - d ELSE d)
      /\ v[4] = (IF i = 4 THEN 1 - e ELSE e) /\ v[5] = (IF i = 5 THEN 1 - f ELSE f)
      /\ v[6] = (IF i = 6 THEN 1 - g ELSE g) /\ v[7] = (IF i = 7 THEN 1 - h ELSE h)
  BY <1>2, <1>6
<1> HIDE DEF v
<1>8. OfBits(v) = Flip(x, i)
  <2>1. CASE i = 0
    <3>1. v[0] = 1 - a /\ v[1] = b /\ v[2] = c /\ v[3] = d /\ v[4] = e /\ v[5] = f /\ v[6] = g /\ v[7] = h
      BY <1>7, <2>1
    <3>2. OfBits(v) = x + 1 * (1 - 2 * a)
      BY <1>4, <3>1 DEF OfBits
    <3>3. Flip(x, i) = IF a = 1 THEN x - 1 ELSE x + 1
      BY <1>2, <1>5, <2>1, Powers
    <3> QED  BY <3>2, <3>3
  <2>2. CASE i = 1
    <3>1. v[0] = a /\ v[1] = 1 - b /\ v[2] = c /\ v[3] = d /\ v[4] = e /\ v[5] = f /\ v[6] = g /\ v[7] = h
      BY <1>7, <2>2
    <3>2. OfBits(v) = x + 2 * (1 - 2 * b)
      BY <1>4, <3>1 DEF OfBits
    <3>3. Flip(x, i) = IF b = 1 THEN x - 2 ELSE x + 2
      BY <1>2, <1>5, <2>2, Powers
    <3> QED  BY <3>2, <3>3
  <2>3. CASE i = 2
    <3>1. v[0] = a /\ v[1] = b /\ v[2] = 1 - c /\ v[3] = d /\ v[4] = e /\ v[5] = f /\ v[6] = g /\ v[7] = h
      BY <1>7, <2>3
    <3>2. OfBits(v) = x + 4 * (1 - 2 * c)
      BY <1>4, <3>1 DEF OfBits
    <3>3. Flip(x, i) = IF c = 1 THEN x - 4 ELSE x + 4
      BY <1>2, <1>5, <2>3, Powers
    <3> QED  BY <3>2, <3>3
  <2>4. CASE i = 3
    <3>1. v[0] = a /\ v[1] = b /\ v[2] = c /\ v[3] = 1 - d /\ v[4] = e /\ v[5] = f /\ v[6] = g /\ v[7] = h
      BY <1>7, <2>4
    <3>2. OfBits(v) = x + 8 * (1 - 2 * d)
      BY <1>4, <3>1 DEF OfBits
    <3>3. Flip(x, i) = IF d = 1 THEN x - 8 ELSE x + 8
      BY <1>2, <1>5, <2>4, Powers
    <3> QED  BY <3>2, <3>3
  <2>5. CASE i = 4
    <3>1. v[0] = a /\ v[1] = b /\ v[2] = c /\ v[3] = d /\ v[4] = 1 - e /\ v[5] = f /\ v[6] = g /\ v[7] = h
      BY <1>7, <2>5
    <3>2. OfBits(v) = x + 16 * (1 - 2 * e)
      BY <1>4, <3>1 DEF OfBits
    <3>3. Flip(x, i) = IF e = 1 THEN x - 16 ELSE x + 16
      BY <1>2, <1>5, <2>5, Powers
    <3> QED  BY <3>2, <3>3
  <2>6. CASE i = 5
    <3>1. v[0] = a /\ v[1] = b /\ v[2] = c /\ v[3] = d /\ v[4] = e /\ v[5] = 1 - f /\ v[6] = g /\ v[7] = h
      BY <1>7, <2>6
    <3>2. OfBits(v) = x + 32 * (1 - 2 * f)
      BY <1>4, <3>1 DEF OfBits
    <3>3. Flip(x, i) = IF f = 1 THEN x - 32 ELSE x + 32
      BY <1>2, <1>5, <2>6, Powers
    <3> QED  BY <3>2, <3>3
  <2>7. CASE i = 6
    <3>1. v[0] = a /\ v[1] = b /\ v[2] = c /\ v[3] = d /\ v[4] = e /\ v[5] = f /\ v[6] = 1 - g /\ v[7] = h
      BY <1>7, <2>7
    <3>2. OfBits(v) = x + 64 * (1 - 2 * g)
      BY <1>4, <3>1 DEF OfBits
    <3>3. Flip(x, i) = IF g = 1 THEN x - 64 ELSE x + 64
      BY <1>2, <1>5, <2>7, Powers
    <3> QED  BY <3>2, <3>3
  <2>8. CASE i = 7
    <3>1. v[0] = a /\ v[1] = b /\ v[2] = c /\ v[3] = d /\ v[4] = e /\ v[5] = f /\ v[6] = g /\ v[7] = 1 - h
      BY <1>7, <2>8
    <3>2. OfBits(v) = x + 128 * (1 - 2 * h)
      BY <1>4, <3>1 DEF OfBits
    <3>3. Flip(x, i) = IF h = 1 THEN x - 128 ELSE x + 128
      BY <1>2, <1>5, <2>8, Powers
    <3> QED  BY <3>2, <3>3
  <2> QED  BY <2>1, <2>2, <2>3, <2>4, <2>5, <2>6, <2>7, <2>8
<1> QED  BY <1>1, <1>3, <1>8 DEF v

(* A turned bit is in an odd number of equations, or is a parity itself.   *)
LEMMA FlipOdd ==
  ASSUME NEW w \in EightBits, NEW i \in 0..7, Even(w)
  PROVE  ~Even([w EXCEPT ![i] = 1 - @])
<1> DEFINE v == [w EXCEPT ![i] = 1 - @]
<1>2. PICK a, b, c, d, e, f, g, h \in 0..1 :
        a = w[0] /\ b = w[1] /\ c = w[2] /\ d = w[3] /\ e = w[4] /\ f = w[5] /\ g = w[6] /\ h = w[7]
  BY Places
<1>6. \A j \in 0..7 : v[j] = IF j = i THEN 1 - w[i] ELSE w[j]
  BY DEF EightBits
<1>7. /\ v[0] = (IF i = 0 THEN 1 - a ELSE a) /\ v[1] = (IF i = 1 THEN 1 - b ELSE b)
      /\ v[2] = (IF i = 2 THEN 1 - c ELSE c) /\ v[3] = (IF i = 3 THEN 1 - d ELSE d)
      /\ v[4] = (IF i = 4 THEN 1 - e ELSE e) /\ v[5] = (IF i = 5 THEN 1 - f ELSE f)
      /\ v[6] = (IF i = 6 THEN 1 - g ELSE g) /\ v[7] = (IF i = 7 THEN 1 - h ELSE h)
  BY <1>2, <1>6
<1>3. g = (a + b + c + e) % 2 /\ h = (1 + b + d + e + f) % 2
  BY <1>2 DEF Even, Parity0, Parity1
<1> HIDE DEF v
<1>10. CASE i = 0
  <2>1. v[0] = 1 - a /\ v[1] = b /\ v[2] = c /\ v[3] = d /\ v[4] = e /\ v[5] = f /\ v[6] = g /\ v[7] = h
    BY <1>7, <1>10
  <2>2. Parity0(v) = ((1 - a) + b + c + e) % 2
    BY <2>1 DEF Parity0
  <2>3. ((1 - a) + b + c + e) % 2 # g
    BY <1>3
  <2> QED  BY <2>1, <2>2, <2>3 DEF Even, v
<1>11. CASE i = 1
  <2>1. v[0] = a /\ v[1] = 1 - b /\ v[2] = c /\ v[3] = d /\ v[4] = e /\ v[5] = f /\ v[6] = g /\ v[7] = h
    BY <1>7, <1>11
  <2>2. Parity0(v) = (a + (1 - b) + c + e) % 2
    BY <2>1 DEF Parity0
  <2>3. (a + (1 - b) + c + e) % 2 # g
    BY <1>3
  <2> QED  BY <2>1, <2>2, <2>3 DEF Even, v
<1>12. CASE i = 2
  <2>1. v[0] = a /\ v[1] = b /\ v[2] = 1 - c /\ v[3] = d /\ v[4] = e /\ v[5] = f /\ v[6] = g /\ v[7] = h
    BY <1>7, <1>12
  <2>2. Parity0(v) = (a + b + (1 - c) + e) % 2
    BY <2>1 DEF Parity0
  <2>3. (a + b + (1 - c) + e) % 2 # g
    BY <1>3
  <2> QED  BY <2>1, <2>2, <2>3 DEF Even, v
<1>13. CASE i = 3
  <2>1. v[0] = a /\ v[1] = b /\ v[2] = c /\ v[3] = 1 - d /\ v[4] = e /\ v[5] = f /\ v[6] = g /\ v[7] = h
    BY <1>7, <1>13
  <2>2. Parity1(v) = (1 + b + (1 - d) + e + f) % 2
    BY <2>1 DEF Parity1
  <2>3. (1 + b + (1 - d) + e + f) % 2 # h
    BY <1>3
  <2> QED  BY <2>1, <2>2, <2>3 DEF Even, v
<1>14. CASE i = 4
  <2>1. v[0] = a /\ v[1] = b /\ v[2] = c /\ v[3] = d /\ v[4] = 1 - e /\ v[5] = f /\ v[6] = g /\ v[7] = h
    BY <1>7, <1>14
  <2>2. Parity0(v) = (a + b + c + (1 - e)) % 2
    BY <2>1 DEF Parity0
  <2>3. (a + b + c + (1 - e)) % 2 # g
    BY <1>3
  <2> QED  BY <2>1, <2>2, <2>3 DEF Even, v
<1>15. CASE i = 5
  <2>1. v[0] = a /\ v[1] = b /\ v[2] = c /\ v[3] = d /\ v[4] = e /\ v[5] = 1 - f /\ v[6] = g /\ v[7] = h
    BY <1>7, <1>15
  <2>2. Parity1(v) = (1 + b + d + e + (1 - f)) % 2
    BY <2>1 DEF Parity1
  <2>3. (1 + b + d + e + (1 - f)) % 2 # h
    BY <1>3
  <2> QED  BY <2>1, <2>2, <2>3 DEF Even, v
<1>16. CASE i = 6
  <2>1. v[0] = a /\ v[1] = b /\ v[2] = c /\ v[3] = d /\ v[4] = e /\ v[5] = f /\ v[6] = 1 - g /\ v[7] = h
    BY <1>7, <1>16
  <2>2. Parity0(v) = (a + b + c + e) % 2
    BY <2>1 DEF Parity0
  <2>3. (a + b + c + e) % 2 # 1 - g
    BY <1>3
  <2> QED  BY <2>1, <2>2, <2>3 DEF Even, v
<1>17. CASE i = 7
  <2>1. v[0] = a /\ v[1] = b /\ v[2] = c /\ v[3] = d /\ v[4] = e /\ v[5] = f /\ v[6] = g /\ v[7] = 1 - h
    BY <1>7, <1>17
  <2>2. Parity1(v) = (1 + b + d + e + f) % 2
    BY <2>1 DEF Parity1
  <2>3. (1 + b + d + e + f) % 2 # 1 - h
    BY <1>3
  <2> QED  BY <2>1, <2>2, <2>3 DEF Even, v
<1> QED  BY <1>10, <1>11, <1>12, <1>13, <1>14, <1>15, <1>16, <1>17

(* Parity, for one identifier.                                             *)
LEMMA ParityOne ==
  ASSUME NEW id \in 0..LINMaxID
  PROVE  /\ ProtectID(id) \in Byte
         /\ VerifyPID(ProtectID(id)) = [id |-> id, err |-> FALSE]
         /\ \A i \in 0..7 : VerifyPID(Flip(ProtectID(id), i)).err
<1>1. PICK w \in EightBits : id = OfBits(w)
  <2>1. id \in Byte
    BY DEF LINMaxID, Byte
  <2> QED  BY <2>1, ByteBits
<1>2. id % 64 = id
  BY DEF LINMaxID
<1>3. PICK v : v = [w EXCEPT ![6] = Parity0(w), ![7] = Parity1(w)]
  OBVIOUS
<1>4. v \in EightBits /\ Even(v)
  <2>1. Parity0(w) \in 0..1 /\ Parity1(w) \in 0..1
    BY Places DEF Parity0, Parity1
  <2>2. v \in EightBits /\ v[6] = Parity0(w) /\ v[7] = Parity1(w) /\ \A i \in 0..5 : v[i] = w[i]
    BY <1>3, <2>1 DEF EightBits
  <2>3. Parity0(v) = Parity0(w) /\ Parity1(v) = Parity1(w)
    BY <2>2 DEF Parity0, Parity1
  <2> QED  BY <2>2, <2>3 DEF Even
<1>5. ProtectID(id) = OfBits(v)
  BY <1>1, <1>2, <1>3, ProtectBits
<1>6. OfBits(v) \in Byte
  BY <1>4, BitsOf
<1>7. OfBits(v) % 64 = id
  <2>1. PICK a, b, c, d, e, f, g, h \in 0..1 :
          a = w[0] /\ b = w[1] /\ c = w[2] /\ d = w[3] /\ e = w[4] /\ f = w[5] /\ g = w[6] /\ h = w[7]
    BY Places
  <2>2. PICK p, q \in 0..1 : p = v[6] /\ q = v[7]
    BY <1>4, Places
  <2>3. v[0] = a /\ v[1] = b /\ v[2] = c /\ v[3] = d /\ v[4] = e /\ v[5] = f
    BY <1>3, <2>1 DEF EightBits
  <2>4. id = a + 2 * b + 4 * c + 8 * d + 16 * e + 32 * f + 64 * g + 128 * h
    BY <1>1, <2>1 DEF OfBits
  <2>5. g = 0 /\ h = 0
    BY <2>4 DEF LINMaxID
  <2>6. OfBits(v) = id + 64 * p + 128 * q
    BY <2>2, <2>3, <2>4, <2>5 DEF OfBits
  <2>7. (id + 64 * p + 128 * q) % 64 = id
    BY DEF LINMaxID
  <2> QED  BY <2>6, <2>7
<1>8. VerifyPID(OfBits(v)) = [id |-> id, err |-> FALSE]
  BY <1>4, <1>7, VerifyBits, Zenon
<1>9. ASSUME NEW i \in 0..7 PROVE VerifyPID(Flip(OfBits(v), i)).err
  <2>1. PICK u : u = [v EXCEPT ![i] = 1 - @]
    OBVIOUS
  <2>2. u \in EightBits /\ Flip(OfBits(v), i) = OfBits(u) /\ ~Even(u)
    BY <1>4, <2>1, FlipBits, FlipOdd, Zenon
  <2>3. VerifyPID(OfBits(u)) = [id |-> 0, err |-> TRUE]
    BY <2>2, VerifyBits, Zenon
  <2> QED  BY <2>2, <2>3
<1> QED  BY <1>5, <1>6, <1>8, <1>9, Zenon

(* The protected identifier, for every identifier and every flipped bit.   *)
THEOREM ParityDetected == InputSpec => []ParityDetects
<1>1. InputInv => ParityDetects
  <2> SUFFICES ASSUME InputInv, in.codec = "frame" PROVE ParityDetects
    BY DEF ParityDetects
  <2>1. in.id \in 0..LINMaxID
    BY InputKind DEF FrameIn
  <2> QED  BY <2>1, ParityOne, Zenon DEF ParityDetects
<1> QED  BY <1>1, InputInvariance, PTL

-----------------------------------------------------------------------------
(* lin: checksum.                                                          *)

(* Two sums of the same bytes, one of them with the carry added back.      *)
Carried(t, c) == t \in Nat /\ c \in 0..255 /\ (c = 0 <=> t = 0) /\ \E q \in Nat : t = c + 255 * q

(* One turn of the checksum loop keeps the two alike.                      *)
LEMMA CarryTurn ==
  ASSUME NEW t, NEW c, Carried(t, c), NEW b \in Byte
  PROVE  Carried(t + b, AddWithCarry(c, b))
<1>1. PICK q \in Nat : t = c + 255 * q
  BY DEF Carried
<1>2. t \in Nat /\ c \in 0..255 /\ (c = 0 <=> t = 0) /\ b \in 0..255
  BY DEF Carried, Byte
<1>3. PICK u, v : u = t + b /\ v = AddWithCarry(c, b)
  OBVIOUS
<1>4. u \in Nat /\ v \in 0..255 /\ (v = 0 <=> u = 0)
  BY <1>2, <1>3 DEF AddWithCarry
<1>5. \E p \in Nat : u = v + 255 * p
  <2>1. CASE c + b > 255
    <3>1. q + 1 \in Nat /\ u = v + 255 * (q + 1)
      BY <1>1, <1>2, <1>3, <2>1 DEF AddWithCarry
    <3>2. PICK p \in Nat : p = q + 1
      BY <3>1
    <3> QED  BY <3>1, <3>2
  <2>2. CASE ~(c + b > 255)
    <3>1. u = v + 255 * q
      BY <1>1, <1>2, <1>3, <2>2 DEF AddWithCarry
    <3> QED  BY <3>1
  <2> QED  BY <2>1, <2>2
<1>6. Carried(u, v)
  BY <1>4, <1>5 DEF Carried
<1> QED  BY <1>3, <1>6

(* So they are alike at the end, for every payload.                        *)
LEMMA CarrySum ==
  ASSUME NEW s \in Seq(Byte), NEW base \in Byte
  PROVE  Carried(FoldLeft(LAMBDA t, b : t + b, base, s), FoldLeft(AddWithCarry, base, s))
<1>1. PICK n \in Nat : n = Len(s) /\ DOMAIN s = 1..n
  OBVIOUS
<1>2. PICK c : c[n] = FoldLeft(AddWithCarry, base, s) /\ Turns(c, "carry", s, base, n)
  BY <1>1, FoldTurns, Zenon
<1>3. PICK t : t[n] = FoldLeft(LAMBDA u, b : u + b, base, s) /\ Turns(t, "plus", s, base, n)
  BY <1>1, FoldTurns, Zenon
<1>4. c[0] = base /\ \A k \in 1..n : c[k] = AddWithCarry(c[k - 1], s[k])
  BY <1>2 DEF Turns, Turn
<1>5. t[0] = base /\ \A k \in 1..n : t[k] = t[k - 1] + s[k]
  BY <1>3 DEF Turns, Turn
<1>6. \A k \in 1..n : s[k] \in Byte
  BY <1>1
<1> DEFINE S == {k \in Nat : k <= n => Carried(t[k], c[k])}
<1>7. 0 \in S
  <2>1. base \in 0..255 /\ base = base + 255 * 0
    BY DEF Byte
  <2>2. Carried(base, base)
    BY <2>1 DEF Carried
  <2> QED  BY <1>4, <1>5, <2>2
<1>8. ASSUME NEW k \in Nat, k \in S PROVE k + 1 \in S
  <2> SUFFICES ASSUME k + 1 <= n PROVE Carried(t[k + 1], c[k + 1])
    OBVIOUS
  <2>1. PICK m \in 1..n : m = k + 1 /\ m - 1 = k
    OBVIOUS
  <2>2. Carried(t[k], c[k])
    BY <1>8
  <2>3. Carried(t[k] + s[m], AddWithCarry(c[k], s[m]))
    BY <1>6, <2>2, CarryTurn
  <2>4. t[m] = t[k] + s[m] /\ c[m] = AddWithCarry(c[k], s[m])
    BY <1>4, <1>5, <2>1
  <2> QED  BY <2>1, <2>3, <2>4
<1> HIDE DEF S
<1>9. Nat \subseteq S
  BY <1>7, <1>8, NumberInduction
<1>10. Carried(t[n], c[n])
  BY <1>9 DEF S
<1> QED  BY <1>2, <1>3, <1>10

(* What that makes of the inverted sum.                                    *)
LEMMA CarriedModulo ==
  ASSUME NEW t, NEW c, Carried(t, c)
  PROVE  /\ 255 - c = 255 - (IF t = 0 THEN 0 ELSE ((t - 1) % 255) + 1)
         /\ (t + (255 - c)) % 255 = 0
<1>1. PICK q \in Nat : t = c + 255 * q
  BY DEF Carried
<1>2. t \in Nat /\ c \in 0..255 /\ (c = 0 <=> t = 0)
  BY DEF Carried
<1>3. t + (255 - c) = 255 * (q + 1)
  BY <1>1, <1>2
<1>4. (255 * (q + 1)) % 255 = 0
  OBVIOUS
<1>5. ASSUME t # 0 PROVE (t - 1) % 255 = c - 1
  <2>1. c - 1 \in 0..254 /\ t - 1 = 255 * q + (c - 1)
    BY <1>1, <1>2, <1>5
  <2> QED  BY <2>1
<1> QED  BY <1>2, <1>3, <1>4, <1>5

(* CalcChecksum (lin.go 263-275) takes 255 off a sum that passes it, byte  *)
(* by byte; for every identifier, checksum kind and payload the result is  *)
(* the inverted sum modulo 255, and what was sent adds up to all ones.     *)
THEOREM ChecksumSums == InputSpec => []ChecksumIsSum
<1>1. InputInv => ChecksumIsSum
  <2> SUFFICES ASSUME InputInv, in.codec = "frame" PROVE ChecksumIsSum
    BY DEF ChecksumIsSum
  <2>1. in.id \in 0..LINMaxID /\ in.data \in Seq(Byte)
    BY InputKind DEF FrameIn
  <2>2. PICK pid \in Byte : pid = ProtectID(in.id)
    BY <2>1, ParityOne
  <2>3. PICK base \in Byte : base = IF in.ct = "enhanced" THEN pid ELSE 0
    BY DEF Byte
  <2>4. PICK t, c : /\ t = FoldLeft(LAMBDA u, b : u + b, base, in.data)
                    /\ c = FoldLeft(AddWithCarry, base, in.data)
    OBVIOUS
  <2>5. Carried(t, c)
    BY <2>1, <2>4, CarrySum
  <2>6. CalcChecksum(ProtectID(in.id), in.data, in.ct) = 255 - c
    BY <2>2, <2>3, <2>4, ZenonT(60) DEF CalcChecksum
  <2>7. /\ 255 - c = 255 - (IF t = 0 THEN 0 ELSE ((t - 1) % 255) + 1)
        /\ (t + (255 - c)) % 255 = 0
    BY <2>5, CarriedModulo
  <2>8. FoldLeft(LAMBDA u, b : u + b, IF in.ct = "enhanced" THEN ProtectID(in.id) ELSE 0, in.data) = t
    BY <2>2, <2>3, <2>4, ZenonT(60)
  <2> QED  BY <2>6, <2>7, <2>8, ZenonT(60) DEF ChecksumIsSum
<1> QED  BY <1>1, InputInvariance, PTL

-----------------------------------------------------------------------------
(* RELAY adapter: numbers.                                                 *)

(* One character of a number: the outcome stays a byte and a verdict.      *)
LEMMA DigitInByte ==
  ASSUME NEW r \in [val : Byte, err : BOOLEAN], NEW d \in 0..Junk
  PROVE  ParseDigit(r, d) \in [val : Byte, err : BOOLEAN]
<1>1. PICK v \in 0..255 : v = r.val
  BY DEF Byte
<1>2. PICK n \in Int : n = 10 * v + d /\ n >= 0
  BY DEF Junk
<1>3. 0 \in Byte /\ 255 \in Byte /\ (~(n > 255) => n \in Byte)
  BY <1>2 DEF Byte
<1>4. CASE r.err
  <2>1. ParseDigit(r, d) = r
    BY <1>4, Zenon DEF ParseDigit
  <2> QED  BY <2>1
<1>5. CASE ~r.err /\ d = Junk
  <2>1. ParseDigit(r, d) = [val |-> 0, err |-> TRUE]
    BY <1>5, Zenon DEF ParseDigit
  <2> QED  BY <1>3, <2>1
<1>6. CASE ~r.err /\ d # Junk /\ n > 255
  <2>1. ParseDigit(r, d) = [val |-> 255, err |-> TRUE]
    BY <1>1, <1>2, <1>6, ZenonT(60) DEF ParseDigit
  <2> QED  BY <1>3, <2>1
<1>7. CASE ~r.err /\ d # Junk /\ ~(n > 255)
  <2>1. ParseDigit(r, d) = [val |-> n, err |-> FALSE]
    BY <1>1, <1>2, <1>7, ZenonT(60) DEF ParseDigit
  <2> QED  BY <1>3, <1>7, <2>1
<1> QED  BY <1>4, <1>5, <1>6, <1>7, Zenon

(* The turns of ParseUint's loop.                                          *)
Reading(r, s, base, n) == r[0] = base /\ \A k \in 1..n : r[k] = ParseDigit(r[k - 1], s[k])

(* ParseUint goes through them.                                            *)
LEMMA DigitTurns ==
  ASSUME NEW s, NEW base, NEW n \in Nat, DOMAIN s = 1..n
  PROVE  \E r : r[n] = FoldLeft(ParseDigit, base, s) /\ Reading(r, s, base, n)
<1>1. PICK r : r[n] = FoldLeft(ParseDigit, base, s) /\ Turns(r, "digit", s, base, n)
  BY FoldTurns, Zenon
<1>2. \A q, x : Turn("digit", q, x) = ParseDigit(q, x)
  BY DEF Turn
<1>3. Reading(r, s, base, n)
  BY <1>1, <1>2, Zenon DEF Turns, Reading
<1> QED  BY <1>1, <1>3, Zenon

(* "must parse": any text reads as a byte and a verdict.                   *)
LEMMA ParseInByte ==
  ASSUME NEW s \in Seq(0..Junk)
  PROVE  ParseUint8(s) \in [val : Byte, err : BOOLEAN]
<1>1. PICK n \in Nat : n = Len(s) /\ DOMAIN s = 1..n
  OBVIOUS
<1>2. PICK base : base = [val |-> 0, err |-> s = <<>>]
  OBVIOUS
<1>3. base \in [val : Byte, err : BOOLEAN]
  BY <1>2 DEF Byte
<1>4. PICK r : r[n] = FoldLeft(ParseDigit, base, s) /\ Reading(r, s, base, n)
  BY <1>1, DigitTurns, Zenon
<1>5. r[0] = base /\ \A k \in 1..n : r[k] = ParseDigit(r[k - 1], s[k])
  BY <1>4, Zenon DEF Reading
<1>6. \A k \in 1..n : s[k] \in 0..Junk
  BY <1>1, ElementOfSeq
<1> DEFINE S == {k \in Nat : k <= n => r[k] \in [val : Byte, err : BOOLEAN]}
<1>7. 0 \in S
  BY <1>3, <1>5
<1>8. ASSUME NEW k \in Nat, k \in S PROVE k + 1 \in S
  <2> SUFFICES ASSUME k + 1 <= n PROVE r[k + 1] \in [val : Byte, err : BOOLEAN]
    OBVIOUS
  <2>1. PICK m \in 1..n : m = k + 1 /\ m - 1 = k
    OBVIOUS
  <2>2. r[k] \in [val : Byte, err : BOOLEAN]
    BY <1>8
  <2>3. ParseDigit(r[k], s[m]) \in [val : Byte, err : BOOLEAN]
    BY <1>6, <2>2, DigitInByte
  <2>4. r[m] = ParseDigit(r[k], s[m])
    BY <1>5, <2>1
  <2> QED  BY <2>1, <2>3, <2>4
<1> HIDE DEF S
<1>9. Nat \subseteq S
  BY <1>7, <1>8, NumberInduction
<1>10. r[n] \in [val : Byte, err : BOOLEAN]
  BY <1>9 DEF S
<1> QED  BY <1>2, <1>4, <1>10, Zenon DEF ParseUint8

(* A digit that keeps the number in a byte.                                *)
LEMMA GoodDigit ==
  ASSUME NEW v \in Nat, NEW d \in 0..9, NEW n, n = 10 * v + d, n <= 255
  PROVE  ParseDigit([val |-> v, err |-> FALSE], d) = [val |-> n, err |-> FALSE]
<1>1. PICK r : r = [val |-> v, err |-> FALSE]
  OBVIOUS
<1>2. r.val = v /\ ~ r.err
  BY <1>1, Zenon
<1>3. d # Junk /\ ~(10 * v + d > 255)
  BY DEF Junk
<1>4. ParseDigit(r, d) = [val |-> n, err |-> FALSE]
  BY <1>2, <1>3, ZenonT(60) DEF ParseDigit
<1> QED  BY <1>1, <1>4, Zenon

(* The text of n digits and the values v of its prefixes.                  *)
Reads(v, s, n) ==
  /\ DOMAIN s = 1..n /\ s # <<>> /\ v[0] = 0
  /\ \A k \in 0..(n - 1) : /\ v[k] \in Nat /\ s[k + 1] \in 0..9
                            /\ v[k + 1] = 10 * v[k] + s[k + 1] /\ v[k + 1] <= 255

(* Digits read one after the other.                                        *)
LEMMA ParseDigits ==
  ASSUME NEW s, NEW v, NEW n \in Nat, Reads(v, s, n)
  PROVE  ParseUint8(s) = [val |-> v[n], err |-> FALSE]
<1>1. PICK base : base = [val |-> 0, err |-> s = <<>>]
  OBVIOUS
<1>2. base = [val |-> 0, err |-> FALSE]
  BY <1>1, Zenon DEF Reads
<1>3. PICK r : r[n] = FoldLeft(ParseDigit, base, s) /\ Reading(r, s, base, n)
  BY DigitTurns, Zenon DEF Reads
<1>4. r[0] = base /\ \A k \in 1..n : r[k] = ParseDigit(r[k - 1], s[k])
  BY <1>3, Zenon DEF Reading
<1> DEFINE S == {k \in Nat : k <= n => r[k] = [val |-> v[k], err |-> FALSE]}
<1>5. 0 \in S
  <2>1. r[0] = [val |-> v[0], err |-> FALSE]
    BY <1>2, <1>4, Zenon DEF Reads
  <2> QED  BY <2>1
<1>6. ASSUME NEW k \in Nat, k \in S PROVE k + 1 \in S
  <2> SUFFICES ASSUME k + 1 <= n PROVE r[k + 1] = [val |-> v[k + 1], err |-> FALSE]
    OBVIOUS
  <2>1. PICK m \in 1..n : m = k + 1 /\ m - 1 = k
    OBVIOUS
  <2>2. r[k] = [val |-> v[k], err |-> FALSE]
    BY <1>6
  <2>3. PICK x, d, y : x = v[k] /\ d = s[m] /\ y = v[m]
    OBVIOUS
  <2>4. x \in Nat /\ d \in 0..9 /\ y = 10 * x + d /\ y <= 255
    <3>1. k \in 0..(n - 1)
      OBVIOUS
    <3> QED  BY <2>1, <2>3, <3>1 DEF Reads
  <2>5. ParseDigit([val |-> x, err |-> FALSE], d) = [val |-> y, err |-> FALSE]
    BY <2>4, GoodDigit, ZenonT(60)
  <2>6. r[m] = ParseDigit(r[k], s[m])
    BY <1>4, <2>1
  <2> QED  BY <2>1, <2>2, <2>3, <2>5, <2>6, Zenon
<1> HIDE DEF S
<1>7. Nat \subseteq S
  BY <1>5, <1>6, NumberInduction
<1>8. r[n] = [val |-> v[n], err |-> FALSE]
  BY <1>7 DEF S
<1> QED  BY <1>1, <1>3, <1>8, Zenon DEF ParseUint8

(* A byte written by Itoa is read back by ParseUint.                       *)
LEMMA ParseItoa ==
  ASSUME NEW x \in Byte
  PROVE  ParseUint8(Itoa(x)) = [val |-> x, err |-> FALSE]
<1>0. x \in 0..255
  BY DEF Byte
<1>1. CASE x < 10
  <2>1. Itoa(x) = <<x>>
    BY <1>0, <1>1 DEF Itoa
  <2>2. PICK s : s = <<x>>
    OBVIOUS
  <2>3. DOMAIN s = 1..1 /\ s # <<>> /\ s[1] = x
    BY <2>2
  <2>4. PICK v : v = [k \in 0..1 |-> IF k = 0 THEN 0 ELSE x]
    OBVIOUS
  <2>5. v[0] = 0 /\ v[1] = x
    BY <2>4
  <2>6. PICK n \in Nat : n = 1
    OBVIOUS
  <2>7. Reads(v, s, n)
    <3>1. \A k \in 0..(n - 1) : k = 0
      BY <2>6
    <3>2. 0 \in Nat /\ x \in 0..9 /\ x = 10 * 0 + x /\ x <= 255 /\ 0 + 1 = 1
      BY <1>0, <1>1
    <3> QED  BY <2>3, <2>5, <2>6, <3>1, <3>2, ZenonT(60) DEF Reads
  <2>8. ParseUint8(s) = [val |-> v[n], err |-> FALSE]
    BY <2>7, ParseDigits
  <2> QED  BY <2>1, <2>2, <2>5, <2>6, <2>8, Zenon
<1>2. CASE x >= 10 /\ x < 100
  <2>0. PICK a \in 0..9, b \in 0..9 : a = x \div 10 /\ b = x % 10 /\ x = 10 * a + b
    <3>1. x \div 10 \in 0..9 /\ x % 10 \in 0..9 /\ x = 10 * (x \div 10) + (x % 10)
      BY <1>0, <1>2
    <3> QED  BY <3>1
  <2>1. Itoa(x) = <<a, b>>
    BY <1>0, <1>2, <2>0 DEF Itoa
  <2>2. PICK s : s = <<a, b>>
    OBVIOUS
  <2>3. DOMAIN s = 1..2 /\ s # <<>> /\ s[1] = a /\ s[2] = b
    BY <2>2
  <2>4. PICK v : v = [k \in 0..2 |-> IF k = 0 THEN 0 ELSE IF k = 1 THEN a ELSE x]
    OBVIOUS
  <2>5. v[0] = 0 /\ v[1] = a /\ v[2] = x
    BY <2>4
  <2>6. PICK n \in Nat : n = 2
    OBVIOUS
  <2>7. Reads(v, s, n)
    <3>1. \A k \in 0..(n - 1) : k = 0 \/ k = 1
      BY <2>6
    <3>2. 0 \in Nat /\ a \in 0..9 /\ a = 10 * 0 + a /\ a <= 255 /\ 0 + 1 = 1
      BY <1>0, <1>2, <2>0
    <3>3. a \in Nat /\ b \in 0..9 /\ x = 10 * a + b /\ x <= 255 /\ 1 + 1 = 2
      BY <1>0, <1>2, <2>0
    <3> QED  BY <2>3, <2>5, <2>6, <3>1, <3>2, <3>3, ZenonT(60) DEF Reads
  <2>8. ParseUint8(s) = [val |-> v[n], err |-> FALSE]
    BY <2>7, ParseDigits
  <2> QED  BY <2>1, <2>2, <2>5, <2>6, <2>8, Zenon
<1>3. CASE x >= 100
  <2>0. PICK a \in 0..9, b \in 0..9, c \in 0..9, y \in Nat :
          a = x \div 100 /\ b = (x \div 10) % 10 /\ c = x % 10 /\ y = 10 * a + b /\ x = 10 * y + c
    <3>1. /\ x \div 100 \in 0..9 /\ (x \div 10) % 10 \in 0..9 /\ x % 10 \in 0..9
          /\ x = 10 * (10 * (x \div 100) + ((x \div 10) % 10)) + (x % 10)
      BY <1>0, <1>3
    <3> QED  BY <3>1
  <2>1. Itoa(x) = <<a, b, c>>
    BY <1>0, <1>3, <2>0 DEF Itoa
  <2>2. PICK s : s = <<a, b, c>>
    OBVIOUS
  <2>3. DOMAIN s = 1..3 /\ s # <<>> /\ s[1] = a /\ s[2] = b /\ s[3] = c
    BY <2>2
  <2>4. PICK v : v = [k \in 0..3 |-> IF k = 0 THEN 0 ELSE IF k = 1 THEN a ELSE IF k = 2 THEN y ELSE x]
    OBVIOUS
  <2>5. v[0] = 0 /\ v[1] = a /\ v[2] = y /\ v[3] = x
    BY <2>4
  <2>6. PICK n \in Nat : n = 3
    OBVIOUS
  <2>7. Reads(v, s, n)
    <3>1. \A k \in 0..(n - 1) : k = 0 \/ k = 1 \/ k = 2
      BY <2>6
    <3>2. 0 \in Nat /\ a \in 0..9 /\ a = 10 * 0 + a /\ a <= 255 /\ 0 + 1 = 1
      BY <1>0, <1>3, <2>0
    <3>3. a \in Nat /\ b \in 0..9 /\ y = 10 * a + b /\ y <= 255 /\ 1 + 1 = 2
      BY <1>0, <1>3, <2>0
    <3>4. y \in Nat /\ c \in 0..9 /\ x = 10 * y + c /\ x <= 255 /\ 2 + 1 = 3
      BY <1>0, <1>3, <2>0
    <3> QED  BY <2>3, <2>5, <2>6, <3>1, <3>2, <3>3, <3>4, ZenonT(60) DEF Reads
  <2>8. ParseUint8(s) = [val |-> v[n], err |-> FALSE]
    BY <2>7, ParseDigits
  <2> QED  BY <2>1, <2>2, <2>5, <2>6, <2>8, Zenon
<1> QED  BY <1>0, <1>1, <1>2, <1>3

-----------------------------------------------------------------------------
(* RELAY adapter: messages and frames.                                     *)

(* The messages of the inputs.                                             *)
LEMMA MessageInput ==
  ASSUME InputInv, in.codec = "msg"
  PROVE  /\ ParseUint8(in.ID) \in [val : Byte, err : BOOLEAN]
         /\ ParseUint8(in.checksum) \in [val : Byte, err : BOOLEAN]
         /\ in.Payload \in Seq(Byte) \cup {Nil}
<1>1. in \in MsgIn
  BY InputKind
<1>2. in.ID \in Seq(Digits) /\ in.checksum \in Seq(Digits) /\ in.Payload \in Payloads
  BY <1>1 DEF MsgIn
<1>3. in.ID \in Seq(0..Junk) /\ in.checksum \in Seq(0..Junk)
  <2>1. Digits \subseteq 0..Junk
    BY CodecAssumption
  <2> QED  BY <1>2, <2>1, SeqMonotonic
<1>4. Payloads \subseteq Seq(Byte) \cup {Nil}
  <2>1. <<>> \in Seq(Byte) /\ <<7>> \in Seq(Byte)
    BY DEF Byte
  <2>2. [i \in 1..8 |-> i] \in Seq(Byte) /\ [i \in 1..9 |-> i] \in Seq(Byte)
    <3>1. \A i \in 1..9 : i \in Byte
      BY DEF Byte
    <3>2. 8 \in Nat /\ 9 \in Nat /\ 1..8 \subseteq 1..9
      OBVIOUS
    <3> QED  BY <3>1, <3>2, IsASeq
  <2> QED  BY <2>1, <2>2, Zenon DEF Payloads
<1> QED  BY <1>2, <1>3, <1>4, ParseInByte

(* What is no payload, and a payload that is empty.                        *)
LEMMA NilPayload ==
  /\ Nil # <<>> /\ \A d \in Seq(Byte) : d # Nil
  /\ Clone(Nil) = Nil /\ Clone(<<>>) = Nil /\ \A d : d # <<>> => Clone(d) = d
  /\ Size(Nil) = 0 /\ Size(<<>>) = 0 /\ \A d : d # Nil => Size(d) = Len(d)
<1>1. <<>> \in Seq(Byte)
  OBVIOUS
<1>2. Nil # <<>> /\ \A d \in Seq(Byte) : d # Nil
  BY <1>1, NilAssumption, Zenon
<1>3. Len(<<>>) = 0
  OBVIOUS
<1> QED  BY <1>2, <1>3, Zenon DEF Clone, Size

(* The two ends of FromMessage: an error, or a frame of these fields.      *)
LEMMA FromMessageIs ==
  ASSUME NEW m, NEW id, id = ParseUint8(m.ID), NEW f, f = FromMessage(m)
  PROVE  /\ id.err \/ id.val > LINMaxID => f = [err |-> TRUE]
         /\ ~(id.err \/ id.val > LINMaxID) =>
              f = [err |-> FALSE, ID |-> id.val, Data |-> Clone(m.Payload),
                   ChecksumType |-> IF m.checksum_type = "enhanced" THEN "enhanced" ELSE "classic",
                   Checksum |-> ParseUint8(m.checksum).val]
  BY Zenon DEF FromMessage, BadFrame

(* A frame with a good identifier survives the way through an envelope.    *)
LEMMA EnvelopeKeeps ==
  ASSUME NEW i \in 0..LINMaxID, NEW d, Clone(d) = d, NEW ct \in LINChecksumType, NEW c \in Byte,
         NEW f, f = [err |-> FALSE, ID |-> i, Data |-> d, ChecksumType |-> ct, Checksum |-> c]
  PROVE  FromMessage(ToMessage(f)) = f
<1>1. PICK m : m = ToMessage(f)
  OBVIOUS
<1>2. f.ID = i /\ f.Data = d /\ f.ChecksumType = ct /\ f.Checksum = c
  BY Zenon
<1>3. m.ID = Itoa(i) /\ m.Payload = d /\ m.checksum_type = ct /\ m.checksum = Itoa(c)
  BY <1>1, <1>2, Zenon DEF ToMessage
<1>4. i \in Byte /\ ~(i > LINMaxID)
  BY DEF LINMaxID, Byte
<1>5. ParseUint8(m.ID) = [val |-> i, err |-> FALSE] /\ ParseUint8(m.checksum) = [val |-> c, err |-> FALSE]
  BY <1>3, <1>4, ParseItoa
<1>6. PICK id, cs : id = ParseUint8(m.ID) /\ cs = ParseUint8(m.checksum)
  OBVIOUS
<1>7. id.val = i /\ ~id.err /\ cs.val = c
  BY <1>5, <1>6
<1>8. PICK g : g = FromMessage(m)
  OBVIOUS
<1>9. g = [err |-> FALSE, ID |-> i, Data |-> d,
           ChecksumType |-> IF ct = "enhanced" THEN "enhanced" ELSE "classic", Checksum |-> c]
  BY <1>3, <1>4, <1>6, <1>7, <1>8, FromMessageIs, ZenonT(60)
<1>10. (IF ct = "enhanced" THEN "enhanced" ELSE "classic") = ct
  BY DEF LINChecksumType
<1> QED  BY <1>1, <1>8, <1>9, <1>10, Zenon

(* Convert accepts what ValidateFrame does.                                *)
LEMMA ConvertAccepts ==
  ASSUME NEW i \in 0..LINMaxID, NEW p \in Seq(Byte) \cup {Nil}, NEW ct \in LINChecksumType, NEW c \in Byte,
         NEW f, f = [err |-> FALSE, ID |-> i, Data |-> Clone(p), ChecksumType |-> ct, Checksum |-> c]
  PROVE  /\ cmdConvert(f).code = 0 => cmdConvert(f).out = ToMessage(f)
         /\ cmdConvert(f).code = 0 <=>
              Size(p) \in 1..LINMaxDataLen /\ (i \in {60, 61} => ct # "enhanced")
<1>1. PICK h : h = [f EXCEPT !.Data = IF @ = Nil THEN <<>> ELSE @]
  OBVIOUS
<1>2. PICK b : b = IF Clone(p) = Nil THEN <<>> ELSE Clone(p)
  OBVIOUS
<1>3. h.ID = i /\ h.ChecksumType = ct /\ h.Data = b
  BY <1>1, <1>2
<1>4. Len(b) = Size(p)
  <2>1. CASE p = Nil \/ p = <<>>
    BY <1>2, <2>1, NilPayload, Zenon
  <2>2. CASE p # Nil /\ p # <<>>
    BY <1>2, <2>2, NilPayload, Zenon
  <2> QED  BY <2>1, <2>2
<1>5. ValidateFrame(h) <=> Size(p) \in 1..LINMaxDataLen /\ (i \in {60, 61} => ct # "enhanced")
  <2>1. h.ID <= LINMaxID
    BY <1>3 DEF LINMaxID
  <2>2. ct = "classic" <=> ct # "enhanced"
    BY DEF LINChecksumType
  <2> QED  BY <1>3, <1>4, <2>1, <2>2, Zenon DEF ValidateFrame, LINDiagRequestID, LINDiagResponseID
<1>6. PICK r : r = cmdConvert(f)
  OBVIOUS
<1>7. CASE ValidateFrame(h)
  <2>1. r = [code |-> 0, out |-> ToMessage(f)]
    BY <1>1, <1>6, <1>7, Zenon DEF cmdConvert
  <2>2. r.code = 0 /\ r.out = ToMessage(f)
    BY <2>1, Zenon
  <2> QED  BY <1>5, <1>6, <1>7, <2>2, Zenon
<1>8. CASE ~ValidateFrame(h)
  <2>1. r = [code |-> 1]
    BY <1>1, <1>6, <1>8, Zenon DEF cmdConvert
  <2>2. r.code = 1 /\ 1 # 0
    BY <2>1
  <2> QED  BY <1>5, <1>6, <1>8, <2>2, Zenon
<1> QED  BY <1>7, <1>8

(* ToMessage and FromMessage, for every text of the two numbers: a frame   *)
(* that FromMessage makes is in range and comes back from its envelope;    *)
(* cmdConvert accepts it exactly when ValidateFrame would.                 *)
THEOREM MessagesRoundTrip == InputSpec => []MessageRoundTrip
<1>1. InputInv => MessageRoundTrip
  <2> SUFFICES ASSUME InputInv, in.codec = "msg", NEW f, f = FromMessage(in), ~f.err
               PROVE  /\ f.ID \in 0..LINMaxID /\ f.Checksum \in Byte
                      /\ FromMessage(ToMessage(f)) = f
                      /\ cmdConvert(f).code = 0 => FromMessage(cmdConvert(f).out) = f
                      /\ cmdConvert(f).code = 0 <=>
                           /\ Size(in.Payload) \in 1..LINMaxDataLen
                           /\ f.ID \in {60, 61} => in.checksum_type # "enhanced"
    BY Zenon DEF MessageRoundTrip
  <2>1. PICK id, cs : id = ParseUint8(in.ID) /\ cs = ParseUint8(in.checksum)
    OBVIOUS
  <2>2. id \in [val : Byte, err : BOOLEAN] /\ cs.val \in Byte /\ in.Payload \in Seq(Byte) \cup {Nil}
    BY <2>1, MessageInput
  <2>3. PICK p \in Seq(Byte) \cup {Nil} : p = in.Payload
    BY <2>2
  <2>4. PICK ct : ct = IF in.checksum_type = "enhanced" THEN "enhanced" ELSE "classic"
    OBVIOUS
  <2>5. ct \in LINChecksumType /\ (ct = "enhanced" <=> in.checksum_type = "enhanced")
    BY <2>4 DEF LINChecksumType
  <2>6. ~(id.err \/ id.val > LINMaxID)
    <3>1. SUFFICES ASSUME id.err \/ id.val > LINMaxID PROVE FALSE
      OBVIOUS
    <3>2. f = [err |-> TRUE]
      BY <2>1, <3>1, FromMessageIs
    <3> QED  BY <3>2
  <2>7. f = [err |-> FALSE, ID |-> id.val, Data |-> Clone(p), ChecksumType |-> ct, Checksum |-> cs.val]
    BY <2>1, <2>3, <2>4, <2>6, FromMessageIs, Zenon
  <2>8. PICK i, c : i = id.val /\ c = cs.val
    OBVIOUS
  <2>9. i \in 0..LINMaxID /\ c \in Byte
    <3>1. i \in Byte /\ c \in Byte /\ ~(i > LINMaxID)
      BY <2>2, <2>6, <2>8
    <3> QED  BY <3>1 DEF Byte, LINMaxID
  <2>10. f = [err |-> FALSE, ID |-> i, Data |-> Clone(p), ChecksumType |-> ct, Checksum |-> c]
    BY <2>7, <2>8, Zenon
  <2>11. f.ID = i /\ f.Checksum = c
    BY <2>10
  <2>12. Clone(Clone(p)) = Clone(p)
    <3>1. CASE p = <<>>
      BY <3>1, NilPayload, Zenon
    <3>2. CASE p # <<>>
      BY <3>2, NilPayload, Zenon
    <3> QED  BY <3>1, <3>2, Zenon
  <2>13. FromMessage(ToMessage(f)) = f
    <3>1. PICK d : d = Clone(p)
      OBVIOUS
    <3> QED  BY <2>5, <2>9, <2>10, <2>12, <3>1, EnvelopeKeeps
  <2>14. /\ cmdConvert(f).code = 0 => cmdConvert(f).out = ToMessage(f)
         /\ cmdConvert(f).code = 0 <=>
              Size(p) \in 1..LINMaxDataLen /\ (i \in {60, 61} => ct # "enhanced")
    BY <2>5, <2>9, <2>10, ConvertAccepts
  <2> QED  BY <2>3, <2>5, <2>9, <2>11, <2>13, <2>14, Zenon
<1> QED  BY <1>1, InputInvariance, PTL

-----------------------------------------------------------------------------
(* RELAY adapter: the sinks of a message.                                  *)

(* A byte that is not above the identifiers is one.                        *)
LEMMA SmallID ==
  ASSUME NEW i \in Byte, ~(i > LINMaxID)
  PROVE  i \in 0..LINMaxID
  BY DEF Byte, LINMaxID

(* What Publish answers.                                                   *)
LEMMA PublishIs ==
  ASSUME NEW r, NEW i \in 0..LINMaxID, NEW d \in Seq(Byte) \cup {Nil}, NEW a, a = Publish(r, i, d)
  PROVE  /\ a.err \in BOOLEAN
         /\ a.err <=> d # Nil /\ Len(d) \notin 1..LINMaxDataLen
         /\ a.err => a.reg = r
<1>1. ~(i > LINMaxID)
  BY DEF LINMaxID
<1>2. CASE d # Nil /\ Len(d) \notin 1..LINMaxDataLen
  <2>1. a = [err |-> TRUE, reg |-> r]
    BY <1>2, Zenon DEF Publish
  <2> QED  BY <1>2, <2>1
<1>3. CASE ~(d # Nil /\ Len(d) \notin 1..LINMaxDataLen)
  <2>1. PICK x : x = [r EXCEPT ![i] = IF d = Nil THEN NoEntry ELSE [data |-> d, ct |-> "enhanced"]]
    OBVIOUS
  <2>2. a = [err |-> FALSE, reg |-> x]
    BY <1>1, <1>3, <2>1, Zenon DEF Publish
  <2>3. ~a.err /\ a.err \in BOOLEAN
    BY <2>2
  <2> QED  BY <1>3, <2>3
<1> QED  BY <1>2, <1>3

(* The sizes of a payload that Publish looks at.                           *)
LEMMA SizeBound ==
  ASSUME NEW d \in Seq(Byte) \cup {Nil}
  PROVE  /\ d # Nil /\ d # <<>> => (Len(d) \notin 1..LINMaxDataLen <=> Size(d) > LINMaxDataLen)
         /\ d = Nil \/ d = <<>> => ~(Size(d) > LINMaxDataLen)
<1>1. CASE d = Nil \/ d = <<>>
  <2>1. Size(d) = 0
    BY <1>1, NilPayload
  <2>2. ~(0 > LINMaxDataLen)
    BY DEF LINMaxDataLen
  <2> QED  BY <1>1, <2>1, <2>2, Zenon
<1>2. CASE d # Nil /\ d # <<>>
  <2>1. d \in Seq(Byte)
    BY <1>2
  <2>2. PICK n \in Nat : n = Len(d) /\ n # 0
    BY <1>2, <2>1, EmptySeq, LenProperties
  <2>3. Size(d) = n
    BY <1>2, <2>2, NilPayload
  <2>4. n \notin 1..LINMaxDataLen <=> n > LINMaxDataLen
    <3>1. n # 0
      BY <2>2, Zenon
    <3> QED  BY <3>1 DEF LINMaxDataLen
  <2> QED  BY <1>2, <2>2, <2>3, <2>4, Zenon
<1> QED  BY <1>1, <1>2

(* Send of the adapter and the send stream, for every text of the numbers: *)
(* they accept the same messages and register the same response, but for   *)
(* the empty payload that is not nil.                                      *)
THEOREM SinksDoAgree == InputSpec => []SinksAgree
<1>1. InputInv => SinksAgree
  <2> SUFFICES ASSUME InputInv, in.codec = "msg",
                      NEW reg, reg = [id \in 0..LINMaxID |-> [data |-> << 1 >>, ct |-> "classic"]],
                      NEW id, id = ParseUint8(in.ID)
               PROVE  /\ in.Payload # <<>> => NodeSend(reg, in) = StreamSend(reg, in)
                      /\ in.Payload = <<>> => NodeSend(reg, in).err
                      /\ NodeSend(reg, in).err => NodeSend(reg, in).reg = reg
                      /\ StreamSend(reg, in).err =>
                           id.err \/ id.val > LINMaxID \/ Size(in.Payload) > LINMaxDataLen
    BY Zenon DEF SinksAgree
  <2>1. id \in [val : Byte, err : BOOLEAN] /\ in.Payload \in Seq(Byte) \cup {Nil}
    BY MessageInput
  <2>2. PICK p \in Seq(Byte) \cup {Nil} : p = in.Payload
    BY <2>1
  <2>3. PICK f, n, s : f = FromMessage(in) /\ n = NodeSend(reg, in) /\ s = StreamSend(reg, in)
    OBVIOUS
  <2>4. PICK bad : bad = [err |-> TRUE, reg |-> reg]
    OBVIOUS
  <2>5. bad.err /\ bad.reg = reg
    BY <2>4
  <2>6. CASE id.err \/ id.val > LINMaxID
    <3>1. f = [err |-> TRUE]
      BY <2>3, <2>6, FromMessageIs
    <3>2. f.err
      BY <3>1
    <3>3. n = bad /\ s = bad
      BY <2>3, <2>4, <2>6, <3>2, Zenon DEF NodeSend, StreamSend
    <3> QED  BY <2>3, <2>5, <2>6, <3>3, Zenon
  <2>7. CASE ~(id.err \/ id.val > LINMaxID)
    <3>1. PICK i \in 0..LINMaxID : i = id.val
      <4>1. PICK i : i = id.val
        OBVIOUS
      <4>2. i \in Byte /\ ~(i > LINMaxID)
        <5>1. id.val \in Byte
          BY <2>1
        <5> QED  BY <2>7, <4>1, <5>1, Zenon
      <4>3. i \in 0..LINMaxID
        BY <4>2, SmallID
      <4> QED  BY <4>1, <4>3
    <3>2. ~f.err /\ f.ID = i /\ f.Data = Clone(p)
      <4>1. PICK ct, cs : /\ ct = IF in.checksum_type = "enhanced" THEN "enhanced" ELSE "classic"
                          /\ cs = ParseUint8(in.checksum).val
        OBVIOUS
      <4>2. f = [err |-> FALSE, ID |-> i, Data |-> Clone(p), ChecksumType |-> ct, Checksum |-> cs]
        BY <2>2, <2>3, <2>7, <3>1, <4>1, FromMessageIs, ZenonT(60)
      <4> QED  BY <4>2
    <3>3. s = Publish(reg, i, Clone(p))
      BY <2>3, <3>2, Zenon DEF StreamSend
    <3>4. n = IF Size(p) > LINMaxDataLen THEN bad ELSE Publish(reg, i, p)
      BY <2>2, <2>3, <2>4, <2>7, <3>1, Zenon DEF NodeSend
    <3>5. Clone(p) \in Seq(Byte) \cup {Nil}
      BY NilPayload, Zenon DEF Clone
    <3>6. CASE p = <<>>
      <4>1. Clone(p) = Nil /\ p # Nil /\ ~(Size(p) > LINMaxDataLen)
        BY <3>6, NilPayload, SizeBound, Zenon
      <4>2. Len(p) \notin 1..LINMaxDataLen
        BY <3>6 DEF LINMaxDataLen
      <4>3. n = Publish(reg, i, p) /\ n.err /\ n.reg = reg
        BY <3>4, <4>1, <4>2, PublishIs
      <4>4. ~s.err
        BY <3>3, <3>5, <4>1, PublishIs
      <4> QED  BY <2>2, <2>3, <3>6, <4>3, <4>4, Zenon
    <3>7. CASE p # <<>>
      <4>1. Clone(p) = p
        BY <3>7, NilPayload, Zenon
      <4>2. CASE p # Nil /\ Len(p) \notin 1..LINMaxDataLen
        <5>1. Size(p) > LINMaxDataLen
          BY <3>7, <4>2, SizeBound
        <5>2. n = bad
          BY <3>4, <5>1, Zenon
        <5>3. s = bad
          BY <2>4, <3>3, <4>1, <4>2, Zenon DEF Publish
        <5> QED  BY <2>2, <2>3, <2>5, <3>7, <5>1, <5>2, <5>3, Zenon
      <4>3. CASE ~(p # Nil /\ Len(p) \notin 1..LINMaxDataLen)
        <5>1. ~(Size(p) > LINMaxDataLen)
          BY <3>7, <4>3, SizeBound
        <5>2. n = s
          BY <3>3, <3>4, <4>1, <5>1, Zenon
        <5>3. ~s.err
          BY <3>3, <4>1, <4>3, PublishIs
        <5> QED  BY <2>2, <2>3, <3>7, <5>2, <5>3, Zenon
      <4> QED  BY <4>2, <4>3
    <3> QED  BY <3>6, <3>7
  <2> QED  BY <2>6, <2>7
<1> QED  BY <1>1, InputInvariance, PTL

-----------------------------------------------------------------------------
(* cmd: the arguments of send, cs and pid.                                 *)

(* What the parsers of the commands make of a text.                        *)
LEMMA ParsedArgs ==
  ASSUME NEW t \in Text
  PROVE  /\ parseID(t) # NoParse => parseID(t) \in 0..LINMaxID
         /\ parseHex(t) # NoParse => parseHex(t) \in Seq(Byte) /\ Len(parseHex(t)) \in 1..LINMaxDataLen
<1>1. t.bytes \in Seq(Byte) \cup {NoParse}
  BY DEF Text
<1>2. parseID(t) # NoParse => parseID(t) \in 0..LINMaxID
  BY Zenon DEF parseID
<1>3. parseHex(t) # NoParse => /\ parseHex(t) = t.bytes /\ t.bytes # NoParse
                               /\ Len(t.bytes) \in 1..LINMaxDataLen
  BY Zenon DEF parseHex
<1> QED  BY <1>1, <1>2, <1>3, Zenon

(* An identifier is not above the identifiers.                             *)
LEMMA InRange ==
  ASSUME NEW i \in 0..LINMaxID
  PROVE  ~(i > LINMaxID)
  BY DEF LINMaxID

(* Publish and SendHeader on the command's own bus: what the parsers       *)
(* accept is exchanged, with the enhanced checksum.                        *)
LEMMA ExchangeIs ==
  ASSUME NEW s \in Text, NEW t \in Text
  PROVE  \A i, d : i = parseID(s) /\ d = parseHex(t) =>
           Exchange(s, t) =
             IF i = NoParse \/ d = NoParse THEN Fatal
             ELSE [exit |-> 0, ID |-> i, Data |-> d, Checksum |-> CalcChecksum(ProtectID(i), d, "enhanced")]
<1> TAKE i, d
<1> HAVE i = parseID(s) /\ d = parseHex(t)
<1>1. CASE i = NoParse \/ d = NoParse
  BY <1>1, Zenon DEF Exchange
<1>2. CASE ~(i = NoParse \/ d = NoParse)
  <2>1. i \in 0..LINMaxID /\ d \in Seq(Byte) /\ Len(d) \in 1..LINMaxDataLen
    BY <1>2, ParsedArgs
  <2>2. PICK r : r = [j \in 0..LINMaxID |-> NoEntry]
    OBVIOUS
  <2>3. PICK e : e = [data |-> d, ct |-> "enhanced"]
    OBVIOUS
  <2>4. e.data = d /\ e.ct = "enhanced" /\ e # NoEntry
    <3>1. e \in [data : Seq(Byte), ct : LINChecksumType]
      BY <2>1, <2>3 DEF LINChecksumType
    <3>2. e # NoEntry
      BY <3>1, CliAssumption, Zenon
    <3> QED  BY <2>3, <3>2
  <2>5. ~(i > LINMaxID) /\ d # Nil
    <3>1. ~(i > LINMaxID)
      BY <2>1, InRange
    <3> QED  BY <2>1, <3>1, NilPayload, Zenon
  <2>6. PICK q : q = [r EXCEPT ![i] = e]
    OBVIOUS
  <2>7. q[i] = e
    BY <2>1, <2>2, <2>6
  <2>8. PICK b : b = Publish(r, i, d)
    OBVIOUS
  <2>9. b = [err |-> FALSE, reg |-> q]
    BY <2>1, <2>3, <2>5, <2>6, <2>8, Zenon DEF Publish
  <2>10. ~b.err /\ b.reg = q
    BY <2>9
  <2>11. Exchange(s, t) = SendHeader(q, i)
    BY <1>2, <2>2, <2>8, <2>10, Zenon DEF Exchange
  <2>12. SendHeader(q, i) = [exit |-> 0, ID |-> i, Data |-> d,
                             Checksum |-> CalcChecksum(ProtectID(i), d, "enhanced")]
    BY <2>4, <2>7, Zenon DEF SendHeader
  <2> QED  BY <1>2, <2>11, <2>12, Zenon
<1> QED  BY <1>1, <1>2

-----------------------------------------------------------------------------
(* An argument list with one mention of a flag, that gives the text t.     *)
Mention(args, k, name, t) ==
  /\ k \in DOMAIN args /\ args[k].flag = name
  /\ \A j \in DOMAIN args : j # k => args[j].flag # name
  /\ \/ args[k].text = t
     \/ args[k].text = None /\ k < Len(args) /\ args[k + 1].flag = None /\ args[k + 1].text = t

(* flagValue finds it.                                                     *)
LEMMA FlagFound ==
  ASSUME NEW args, NEW k \in Int, NEW name, NEW t, t # None, Mention(args, k, name, t)
  PROVE  hasFlag(args, name) /\ flagValue(args, name) = t
<1>1. hasFlag(args, name)
  BY Zenon DEF hasFlag, Mention
<1> DEFINE found == {i \in DOMAIN args : Gives(args, i, name)}
           first == CHOOSE i \in found : \A j \in found : i <= j
<1>2. flagValue(args, name) = IF found = {} THEN None
                              ELSE IF args[first].text # None THEN args[first].text
                              ELSE TextOf(args[first + 1])
  BY Zenon DEF flagValue
<1>3. found = {k}
  <2>1. Gives(args, k, name)
    BY DEF Gives, Mention
  <2>2. \A i \in DOMAIN args : Gives(args, i, name) => i = k
    BY Zenon DEF Gives, Mention
  <2>3. k \in DOMAIN args
    BY DEF Mention
  <2> QED  BY <2>1, <2>2, <2>3, Zenon
<1> HIDE DEF found
<1>4. first = k
  <2>1. \E i \in found : \A j \in found : i <= j
    BY <1>3
  <2>2. first \in found
    BY <2>1
  <2> HIDE DEF first
  <2> QED  BY <1>3, <2>2, Zenon
<1> HIDE DEF first
<1>5. found # {}
  BY <1>3, Zenon
<1>6. flagValue(args, name) = IF args[k].text # None THEN args[k].text ELSE TextOf(args[k + 1])
  BY <1>2, <1>4, <1>5, Zenon
<1>7. CASE args[k].text = t
  BY <1>1, <1>6, <1>7, Zenon
<1>8. CASE args[k].text = None /\ args[k + 1].flag = None /\ args[k + 1].text = t
  BY <1>1, <1>6, <1>8, Zenon DEF TextOf
<1> QED  BY <1>7, <1>8, Zenon DEF Mention

(* The two spellings of a flag with its text.                              *)
Spell(n, t) == {<<Flagged(n, t)>>, <<Flagged(n, None), Plain(t)>>}

(* Two flags, spelled one after the other.                                 *)
LEMMA TwoFlags ==
  ASSUME NEW p \in {"--id", "--data"}, NEW q \in {"--id", "--data"}, p # q,
         NEW s \in Text, NEW t \in Text, NEW a \in Spell(p, s), NEW b \in Spell(q, t)
  PROVE  \E k, l \in Int : Mention(a \o b, k, p, s) /\ Mention(a \o b, l, q, t)
<1>1. None # p /\ None # q /\ s # None /\ t # None
  BY CliAssumption, Zenon
<1>2. PICK ps, p0, ss, qt, q0, tt :
        /\ ps = Flagged(p, s) /\ p0 = Flagged(p, None) /\ ss = Plain(s)
        /\ qt = Flagged(q, t) /\ q0 = Flagged(q, None) /\ tt = Plain(t)
  OBVIOUS
<1>3. /\ ps.flag = p /\ ps.text = s /\ p0.flag = p /\ p0.text = None /\ ss.flag = None /\ ss.text = s
      /\ qt.flag = q /\ qt.text = t /\ q0.flag = q /\ q0.text = None /\ tt.flag = None /\ tt.text = t
  BY <1>2 DEF Flagged, Plain
<1>4. CASE a = <<ps>> /\ b = <<qt>>
  <2>1. PICK c : c = a \o b
    OBVIOUS
  <2>2. DOMAIN c = {1, 2} /\ c[1] = ps /\ c[2] = qt
    BY <1>4, <2>1
  <2>3. Mention(c, 1, p, s) /\ Mention(c, 2, q, t)
    BY <1>1, <1>3, <2>2, Zenon DEF Mention
  <2> QED  BY <2>1, <2>3
<1>5. CASE a = <<ps>> /\ b = <<q0, tt>>
  <2>1. PICK c : c = a \o b
    OBVIOUS
  <2>2. DOMAIN c = {1, 2, 3} /\ c[1] = ps /\ c[2] = q0 /\ c[3] = tt /\ 2 < Len(c) /\ 2 + 1 = 3
    BY <1>5, <2>1
  <2>3. Mention(c, 1, p, s) /\ Mention(c, 2, q, t)
    BY <1>1, <1>3, <2>2, Zenon DEF Mention
  <2> QED  BY <2>1, <2>3
<1>6. CASE a = <<p0, ss>> /\ b = <<qt>>
  <2>1. PICK c : c = a \o b
    OBVIOUS
  <2>2. DOMAIN c = {1, 2, 3} /\ c[1] = p0 /\ c[2] = ss /\ c[3] = qt /\ 1 < Len(c) /\ 1 + 1 = 2
    BY <1>6, <2>1
  <2>3. Mention(c, 1, p, s) /\ Mention(c, 3, q, t)
    BY <1>1, <1>3, <2>2, Zenon DEF Mention
  <2> QED  BY <2>1, <2>3
<1>7. CASE a = <<p0, ss>> /\ b = <<q0, tt>>
  <2>1. PICK c : c = a \o b
    OBVIOUS
  <2>2. /\ DOMAIN c = {1, 2, 3, 4} /\ c[1] = p0 /\ c[2] = ss /\ c[3] = q0 /\ c[4] = tt
        /\ 1 < Len(c) /\ 1 + 1 = 2 /\ 3 < Len(c) /\ 3 + 1 = 4
    BY <1>7, <2>1
  <2>3. Mention(c, 1, p, s) /\ Mention(c, 3, q, t)
    BY <1>1, <1>3, <2>2, Zenon DEF Mention
  <2> QED  BY <2>1, <2>3
<1> QED  BY <1>2, <1>4, <1>5, <1>6, <1>7 DEF Spell

(* The texts of the inputs are texts.                                      *)
LEMMA ArgTextsAre == ArgTexts \subseteq Text
<1>1. {5, 12, 64, 63, 18, 100, 1} \subseteq Byte
  BY DEF Byte
<1>2. <<18>> \in Seq(Byte) /\ <<100>> \in Seq(Byte)
  BY <1>1
<1>3. [i \in 1..9 |-> 1] \in Seq(Byte)
  <2>1. 9 \in Nat /\ \A i \in 1..9 : 1 \in Byte
    BY <1>1
  <2> QED  BY <2>1, IsASeq
<1>4. ASSUME NEW a \in Byte \cup {NoParse}, NEW b \in Byte \cup {None, NoParse},
             NEW c \in Seq(Byte) \cup {NoParse}
      PROVE  [dec |-> a, hex16 |-> b, bytes |-> c] \in Text
  BY DEF Text
<1> QED  BY <1>1, <1>2, <1>3, <1>4, ZenonT(60) DEF ArgTexts, FlagText

(* The input of a command is a list of arguments.                          *)
LEMMA ArgInput ==
  ASSUME InputInv, in.codec = "args"
  PROVE  in.args \in Seq(Args)
  BY InputKind DEF ArgsIn

(* lintool reads a text given on its own.                                  *)
LEMMA PlainText ==
  ASSUME NEW t
  PROVE  TextOf(Plain(t)) = t
<1>1. PICK p : p = Plain(t)
  OBVIOUS
<1>2. p.flag = None /\ p.text = t
  BY <1>1 DEF Plain
<1> QED  BY <1>1, <1>2, Zenon DEF TextOf

(* Every spelling of the flags comes down to the same exchange.            *)
LEMMA FlagForm ==
  ASSUME NEW s \in Text, NEW t \in Text, NEW args, args \in FlagForms(s, t)
  PROVE  parseSendArgs(args) = lintoolSend(<<Plain(s), Plain(t)>>)
<1>1. PICK k, l \in Int : Mention(args, k, "--id", s) /\ Mention(args, l, "--data", t)
  <2>1. PICK a \in Spell("--id", s), b \in Spell("--data", t) : args = a \o b \/ args = b \o a
    BY DEF FlagForms, Spell
  <2>2. "--id" # "--data"
    OBVIOUS
  <2> QED  BY <2>1, <2>2, TwoFlags
<1>2. s # None /\ t # None
  BY CliAssumption, Zenon
<1>3. /\ hasFlag(args, "--id") /\ flagValue(args, "--id") = s
      /\ hasFlag(args, "--data") /\ flagValue(args, "--data") = t
  BY <1>1, <1>2, FlagFound, Zenon
<1>4. parseSendArgs(args) = Exchange(s, t)
  BY <1>2, <1>3, Zenon DEF parseSendArgs
<1>5. PICK c : c = <<Plain(s), Plain(t)>>
  OBVIOUS
<1>6. Len(c) = 2 /\ c[1] = Plain(s) /\ c[2] = Plain(t)
  BY <1>5
<1>7. lintoolSend(c) = Exchange(s, t)
  BY <1>6, PlainText, Zenon DEF lintoolSend
<1> QED  BY <1>4, <1>5, <1>7

(* The ways to write a send command, for any number of arguments: every    *)
(* order and spelling of the flags makes go-lin exchange what lintool does *)
(* with the two plain arguments, and cs and pid report the same checksum   *)
(* and protected identifier.                                               *)
THEOREM SendForms == InputSpec => []SendFormsAgree
<1>1. InputInv => SendFormsAgree
  <2> SUFFICES ASSUME InputInv, in.codec = "args",
                      NEW r, r = parseSendArgs(in.args), NEW cs, cs = cmdCS(in.args),
                      NEW plain, plain = (\A i \in DOMAIN in.args : in.args[i].flag = None)
               PROVE  /\ \A s, t \in ArgTexts : in.args \in FlagForms(s, t) =>
                           r = lintoolSend(<<Plain(s), Plain(t)>>)
                      /\ plain => r = IF Len(in.args) = 2 THEN lintoolSend(in.args) ELSE Usage
                      /\ plain /\ Len(in.args) = 2 =>
                           /\ r.exit = cs.exit
                           /\ r.exit = 0 =>
                                /\ r = [exit |-> 0, ID |-> cs.ID, Data |-> cs.Data, Checksum |-> cs.Checksum]
                                /\ cmdPID(<<in.args[1]>>).PID = cs.PID
                                /\ VerifyPID(cs.PID) = [id |-> r.ID, err |-> FALSE]
    BY Zenon DEF SendFormsAgree
  <2>1. PICK args : args = in.args /\ args \in Seq(Args)
    BY ArgInput
  <2>2. \A s, t \in ArgTexts : in.args \in FlagForms(s, t) => r = lintoolSend(<<Plain(s), Plain(t)>>)
    BY ArgTextsAre, FlagForm, Zenon
  <2>3. ASSUME plain
        PROVE  /\ \A i \in DOMAIN args : args[i].flag = None
               /\ r = IF Len(args) = 2 THEN Exchange(TextOf(args[1]), TextOf(args[2])) ELSE Usage
    <3>1. \A i \in DOMAIN args : args[i].flag = None
      BY <2>1, <2>3, Zenon
    <3>2. ~hasFlag(args, "--id") /\ ~hasFlag(args, "--data")
      <4>1. None # "--id" /\ None # "--data"
        BY CliAssumption, Zenon
      <4> QED  BY <3>1, <4>1, Zenon DEF hasFlag
    <3> QED  BY <2>1, <3>1, <3>2, Zenon DEF parseSendArgs
  <2>4. plain => r = IF Len(in.args) = 2 THEN lintoolSend(in.args) ELSE Usage
    BY <2>1, <2>3, Zenon DEF lintoolSend
  <2>5. ASSUME plain, Len(args) = 2
        PROVE  /\ r.exit = cs.exit
               /\ r.exit = 0 =>
                    /\ r = [exit |-> 0, ID |-> cs.ID, Data |-> cs.Data, Checksum |-> cs.Checksum]
                    /\ cmdPID(<<args[1]>>).PID = cs.PID
                    /\ VerifyPID(cs.PID) = [id |-> r.ID, err |-> FALSE]
    <3>1. PICK s, t : s = TextOf(args[1]) /\ t = TextOf(args[2])
      OBVIOUS
    <3>2. s \in Text /\ t \in Text
      <4>1. 1 \in 1..Len(args) /\ 2 \in 1..Len(args) /\ DOMAIN args = 1..Len(args)
        BY <2>1, <2>5
      <4>2. args[1] \in Args /\ args[2] \in Args
        BY <2>1, <4>1, ElementOfSeq
      <4>3. args[1].flag = None /\ args[2].flag = None
        BY <2>3, <2>5, <4>1
      <4>4. s = args[1].text /\ t = args[2].text
        BY <3>1, <4>3, Zenon DEF TextOf
      <4>5. \A a \in Args : a.flag = None => a.text \in ArgTexts
        <5>1. None \notin {"--id", "--data"}
          BY CliAssumption, Zenon
        <5> QED  BY <5>1 DEF Args
      <4> QED  BY <4>2, <4>3, <4>4, <4>5, ArgTextsAre
    <3>3. PICK i, d : i = parseID(s) /\ d = parseHex(t)
      OBVIOUS
    <3>4. PICK pid, sum : pid = ProtectID(i) /\ sum = CalcChecksum(pid, d, "enhanced")
      OBVIOUS
    <3>5. r = IF i = NoParse \/ d = NoParse THEN Fatal
              ELSE [exit |-> 0, ID |-> i, Data |-> d, Checksum |-> sum]
      <4>1. r = Exchange(s, t)
        BY <2>3, <2>5, <3>1, Zenon
      <4>2. Exchange(s, t) =
              IF i = NoParse \/ d = NoParse THEN Fatal
              ELSE [exit |-> 0, ID |-> i, Data |-> d, Checksum |-> CalcChecksum(ProtectID(i), d, "enhanced")]
        <5>1. i = parseID(s) /\ d = parseHex(t) => Exchange(s, t) =
                IF i = NoParse \/ d = NoParse THEN Fatal
                ELSE [exit |-> 0, ID |-> i, Data |-> d, Checksum |-> CalcChecksum(ProtectID(i), d, "enhanced")]
          BY <3>2, ExchangeIs, Zenon
        <5> QED  BY <3>3, <5>1, Zenon
      <4> QED  BY <3>4, <4>1, <4>2, Zenon
    <3>6. cs = IF i = NoParse \/ d = NoParse THEN Fatal
               ELSE [exit |-> 0, ID |-> i, PID |-> pid, Data |-> d, Checksum |-> sum]
      BY <2>1, <2>5, <3>1, <3>3, <3>4, Zenon DEF cmdCS
    <3>7. CASE i = NoParse \/ d = NoParse
      <4>1. r = [exit |-> 1] /\ cs = [exit |-> 1]
        BY <3>5, <3>6, <3>7, Zenon DEF Fatal
      <4>2. r.exit = 1 /\ cs.exit = 1 /\ 1 # 0
        BY <4>1
      <4> QED  BY <4>2, Zenon
    <3>8. CASE ~(i = NoParse \/ d = NoParse)
      <4>1. r = [exit |-> 0, ID |-> i, Data |-> d, Checksum |-> sum]
        BY <3>5, <3>8, Zenon
      <4>2. cs = [exit |-> 0, ID |-> i, PID |-> pid, Data |-> d, Checksum |-> sum]
        BY <3>6, <3>8, Zenon
      <4>3. r.exit = 0 /\ r.ID = i
        BY <4>1
      <4>4. cs.exit = 0 /\ cs.ID = i /\ cs.PID = pid /\ cs.Data = d /\ cs.Checksum = sum
        BY <4>2
      <4>5. i \in 0..LINMaxID
        BY <3>2, <3>3, <3>8, ParsedArgs
      <4>6. VerifyPID(pid) = [id |-> i, err |-> FALSE]
        BY <3>4, <4>5, ParityOne
      <4>7. cmdPID(<<args[1]>>).PID = pid
        <5>1. PICK one : one = <<args[1]>>
          OBVIOUS
        <5>2. Len(one) = 1 /\ one[1] = args[1]
          BY <5>1
        <5>3. cmdPID(one) = [exit |-> 0, ID |-> i, PID |-> pid]
          BY <3>1, <3>3, <3>4, <3>8, <5>2, Zenon DEF cmdPID
        <5>4. cmdPID(one).PID = pid
          BY <5>3
        <5> QED  BY <5>1, <5>4, Zenon
      <4> QED  BY <4>1, <4>3, <4>4, <4>6, <4>7, Zenon
    <3> QED  BY <3>7, <3>8
  <2> QED  BY <2>1, <2>2, <2>4, <2>5, Zenon
<1> QED  BY <1>1, InputInvariance, PTL

-----------------------------------------------------------------------------
(* ldf: the parser.                                                        *)

(* What the parser has in hand, in terms of the lines of the text: a name, *)
(* an offset that was checked, a delay.                                    *)
Names   == {lines[p].name : p \in Nat} \cup {""}
Offset  == {a \in {lines[p].a : p \in Nat} : a >= 0}
Delay   == {Number(lines[p].a) : p \in Nat}
RefType == [Name : Names, BitOffset : Offset]
FrameType == [Name : Names, ID : 0..LINMaxID, Length : 0..LINMaxDataLen, Signals : Seq(RefType)]
Slots(ids) == Seq([ID : ids, DelayMs : Delay])

(* The frame under construction is already a usable one, the table under   *)
(* construction and the tables stored name frames that are stored.         *)
ParseInv ==
  /\ pos \in Nat
  /\ fr \in FrameType
  /\ table \in [name : Names, entries : Slots(DOMAIN db.frames)]
  /\ \A id \in DOMAIN db.frames : db.frames[id] \in FrameType /\ db.frames[id].ID = id
  /\ \A t \in DOMAIN db.schedules : db.schedules[t] \in Slots(DOMAIN db.frames)
  /\ db = [attr |-> db.attr, nodes |-> db.nodes, frames |-> db.frames,
           signals |-> db.signals, schedules |-> db.schedules]

(* The elements of a sequence.                                             *)
LEMMA OfSeq ==
  ASSUME NEW S, NEW q \in Seq(S), NEW i \in DOMAIN q
  PROVE  q[i] \in S
<1>1. i \in 1..Len(q)
  OBVIOUS
<1> QED  BY <1>1, ElementOfSeq

(* An empty database and nothing in hand.                                  *)
LEMMA ParseStart == Init => ParseInv
<1> SUFFICES ASSUME Init PROVE ParseInv
  OBVIOUS
<1>1. db = NoDB /\ fr = NoFrame /\ table = NoTable /\ pos = 1
  BY DEF Init, Start
<1>2. "" \in Names
  BY Zenon DEF Names
<1>3. fr \in FrameType
  <2>1. 0 \in 0..LINMaxID /\ 0 \in 0..LINMaxDataLen /\ <<>> \in Seq(RefType)
    BY DEF LINMaxID, LINMaxDataLen
  <2> QED  BY <1>1, <1>2, <2>1, Zenon DEF NoFrame, FrameType
<1>4. table \in [name : Names, entries : Slots(DOMAIN db.frames)]
  <2>1. <<>> \in Slots(DOMAIN db.frames)
    BY DEF Slots
  <2> QED  BY <1>1, <1>2, <2>1, Zenon DEF NoTable
<1>5. DOMAIN db.frames = {} /\ DOMAIN db.schedules = {}
  BY <1>1 DEF NoDB
<1>6. db = [attr |-> db.attr, nodes |-> db.nodes, frames |-> db.frames,
            signals |-> db.signals, schedules |-> db.schedules]
  BY <1>1 DEF NoDB
<1> QED  BY <1>1, <1>3, <1>4, <1>5, <1>6 DEF ParseInv

(* The sets above do not change.                                           *)
LEMMA SameText ==
  ASSUME UNCHANGED lines
  PROVE  /\ Names' = Names /\ RefType' = RefType /\ FrameType' = FrameType /\ Delay' = Delay
         /\ \A ids : Slots(ids)' = Slots(ids)
<1>1. Names' = Names /\ Offset' = Offset /\ Delay' = Delay
  BY DEF Names, Offset, Delay, Number
<1>2. RefType' = RefType
  BY <1>1, Zenon DEF RefType
<1> QED  BY <1>1, <1>2, Zenon DEF FrameType, Slots

(* A step that stores no frame, no table and leaves the ones in hand.      *)
LEMMA ParseQuiet ==
  ASSUME ParseInv, UNCHANGED <<lines, fr, table>>, pos' \in Nat,
         db'.frames = db.frames, db'.schedules = db.schedules,
         db' = [attr |-> db'.attr, nodes |-> db'.nodes, frames |-> db'.frames,
                signals |-> db'.signals, schedules |-> db'.schedules]
  PROVE  ParseInv'
  BY SameText, Zenon DEF ParseInv

(* A step that stores a frame or a table and leaves the ones in hand.      *)
LEMMA ParsedNow ==
  ASSUME UNCHANGED <<lines, fr, table>>, pos' \in Nat, fr \in FrameType, NEW F, NEW T,
         db'.frames = F, db'.schedules = T,
         table \in [name : Names, entries : Slots(DOMAIN F)],
         \A id \in DOMAIN F : F[id] \in FrameType /\ F[id].ID = id,
         \A t \in DOMAIN T : T[t] \in Slots(DOMAIN F),
         db' = [attr |-> db'.attr, nodes |-> db'.nodes, frames |-> db'.frames,
                signals |-> db'.signals, schedules |-> db'.schedules]
  PROVE  ParseInv'
  BY SameText, Zenon DEF ParseInv

(* Every line the parser reads keeps it so.                                *)
LEMMA ParseStep == ParseInv /\ [Parse \/ Finished]_vars => ParseInv'
<1> SUFFICES ASSUME ParseInv, [Parse \/ Finished]_vars PROVE ParseInv'
  OBVIOUS
<1> DEFINE Whole(d) == d = [attr |-> d.attr, nodes |-> d.nodes, frames |-> d.frames,
                            signals |-> d.signals, schedules |-> d.schedules]
<1>0. Whole(db) /\ pos \in Nat /\ pos + 1 \in Nat
  BY DEF ParseInv
<1>1. CASE Scan \/ TopEnd \/ SkipBrace \/ EndSection \/ SkipBody \/ Finished \/ UNCHANGED vars
  <2>1. UNCHANGED <<lines, fr, table, db>> /\ (pos' = pos \/ pos' = pos + 1)
    BY <1>1 DEF Scan, TopEnd, SkipBrace, EndSection, SkipBody, Finished, vars, Next1
  <2> QED  BY <1>0, <2>1, ParseQuiet
<1>2. ASSUME NEW a, NEW n, NEW g,
             \/ db' = db \/ db' = [db EXCEPT !.attr = a]
             \/ db' = [db EXCEPT !.nodes = n] \/ db' = [db EXCEPT !.signals = g],
             UNCHANGED <<lines, fr, table>>, pos' = pos + 1
      PROVE  ParseInv'
  <2>1. db'.frames = db.frames /\ db'.schedules = db.schedules /\ Whole(db')
    <3>1. CASE db' = db
      BY <1>0, <3>1
    <3>2. CASE db' = [db EXCEPT !.attr = a]
      BY <1>0, <3>2
    <3>3. CASE db' = [db EXCEPT !.nodes = n]
      BY <1>0, <3>3
    <3>4. CASE db' = [db EXCEPT !.signals = g]
      BY <1>0, <3>4
    <3> QED  BY <1>2, <3>1, <3>2, <3>3, <3>4
  <2> QED  BY <1>0, <1>2, <2>1, ParseQuiet
<1>3. CASE Top \/ ParseNodes \/ ParseSignals
  <2>1. UNCHANGED <<lines, fr, table>> /\ pos' = pos + 1
    BY <1>3 DEF Top, ParseNodes, ParseSignals, Next1
  <2>2. \E a, n, g : \/ db' = db \/ db' = [db EXCEPT !.attr = a]
                     \/ db' = [db EXCEPT !.nodes = n] \/ db' = [db EXCEPT !.signals = g]
    BY <1>3, Zenon DEF Top, ParseNodes, ParseSignals
  <2> QED  BY <1>2, <2>1, <2>2
<1>4. CASE ParseFrames
  <2>1. UNCHANGED <<lines, table, db>> /\ pos' = pos + 1
    BY <1>4 DEF ParseFrames, Next1
  <2>2. fr' \in FrameType
    <3>1. CASE HeaderOK(Line) /\ fr' = [Name |-> Line.name, ID |-> Line.a, Length |-> Line.b, Signals |-> <<>>]
      <4>1. Line.name \in Names
        BY <1>0, Zenon DEF Names, Line
      <4> QED  BY <3>1, <4>1 DEF HeaderOK, FrameType
    <3>2. CASE fr' = fr
      BY <3>2 DEF ParseInv
    <3> QED  BY <1>4, <3>1, <3>2 DEF ParseFrames
  <2> QED  BY <1>0, <2>1, <2>2, SameText, Zenon DEF ParseInv
<1>5. CASE ParseRef
  <2>1. UNCHANGED <<lines, table, db>> /\ pos' = pos + 1
    BY <1>5 DEF ParseRef, Next1
  <2>2. fr' \in FrameType
    <3>0. fr \in FrameType
      BY DEF ParseInv
    <3>1. CASE /\ Line.a >= 0
               /\ fr' = [fr EXCEPT !.Signals = Append(@, [Name |-> Line.name, BitOffset |-> Line.a])]
      <4>1. Line.name \in Names /\ Line.a \in Offset
        BY <1>0, <3>1 DEF Names, Offset, Line
      <4>2. PICK r : r = [Name |-> Line.name, BitOffset |-> Line.a]
        OBVIOUS
      <4>3. r \in RefType
        BY <4>1, <4>2 DEF RefType
      <4>4. fr.Signals \in Seq(RefType) /\ Append(fr.Signals, r) \in Seq(RefType)
        BY <3>0, <4>3 DEF FrameType
      <4> QED  BY <3>0, <3>1, <4>2, <4>4 DEF FrameType
    <3>2. CASE fr' = fr
      BY <3>0, <3>2
    <3> QED  BY <1>5, <3>1, <3>2 DEF ParseRef
  <2> QED  BY <1>0, <2>1, <2>2, SameText, Zenon DEF ParseInv
<1>6. CASE EndFrame
  <2>1. UNCHANGED <<lines, fr, table>> /\ (pos' = pos \/ pos' = pos + 1)
        /\ db' = [db EXCEPT !.frames = Store(@, fr.ID, fr)]
    BY <1>6 DEF EndFrame, Next1
  <2>2. PICK F : F = Store(db.frames, fr.ID, fr)
    OBVIOUS
  <2>3. Whole(db') /\ db'.frames = F /\ db'.schedules = db.schedules
    BY <1>0, <2>1, <2>2
  <2>4. DOMAIN F = DOMAIN db.frames \cup {fr.ID}
        /\ \A id \in DOMAIN F : F[id] = IF id = fr.ID THEN fr ELSE db.frames[id]
    BY <2>2 DEF Store
  <2>5. \A id \in DOMAIN F : F[id] \in FrameType /\ F[id].ID = id
    BY <2>4 DEF ParseInv
  <2>6. Slots(DOMAIN db.frames) \subseteq Slots(DOMAIN F)
    <3>1. [ID : DOMAIN db.frames, DelayMs : Delay] \subseteq [ID : DOMAIN F, DelayMs : Delay]
      BY <2>4
    <3>2. PICK A, B : A = [ID : DOMAIN db.frames, DelayMs : Delay] /\ B = [ID : DOMAIN F, DelayMs : Delay]
      OBVIOUS
    <3>3. A \subseteq B
      BY <3>1, <3>2, Zenon
    <3>4. \A q \in Seq(A) : q \in Seq(B)
      BY <3>3, SeqMonotonic
    <3> QED  BY <3>2, <3>4, Zenon DEF Slots
  <2>7. table \in [name : Names, entries : Slots(DOMAIN F)]
    BY <2>6 DEF ParseInv
  <2>8. \A t \in DOMAIN db.schedules : db.schedules[t] \in Slots(DOMAIN F)
    BY <2>6 DEF ParseInv
  <2>9. pos' \in Nat /\ fr \in FrameType
    BY <1>0, <2>1 DEF ParseInv
  <2> QED  BY <2>1, <2>3, <2>5, <2>7, <2>8, <2>9, ParsedNow
<1>7. CASE ParseTables
  <2>1. UNCHANGED <<lines, fr, db>> /\ pos' = pos + 1
    BY <1>7 DEF ParseTables, Next1
  <2>2. table' \in [name : Names, entries : Slots(DOMAIN db.frames)]
    <3>1. CASE table' = [name |-> Line.name, entries |-> <<>>]
      <4>1. Line.name \in Names
        BY <1>0 DEF Names, Line
      <4> QED  BY <3>1, <4>1 DEF Slots
    <3>2. CASE table' = table
      BY <3>2 DEF ParseInv
    <3> QED  BY <1>7, <3>1, <3>2 DEF ParseTables
  <2> QED  BY <1>0, <2>1, <2>2, SameText, Zenon DEF ParseInv
<1>8. CASE ParseEntry
  <2>1. UNCHANGED <<lines, fr, db>> /\ pos' = pos + 1
    BY <1>8 DEF ParseEntry, Next1
  <2>0. table \in [name : Names, entries : Slots(DOMAIN db.frames)]
    BY DEF ParseInv
  <2>2. table' \in [name : Names, entries : Slots(DOMAIN db.frames)]
    <3>1. ASSUME NEW id \in frameIDByName(Line.name), ~(id > LINMaxID),
                 table' = [table EXCEPT !.entries = Append(@, [ID |-> id, DelayMs |-> Number(Line.a)])]
          PROVE  table' \in [name : Names, entries : Slots(DOMAIN db.frames)]
      <4>1. id \in DOMAIN db.frames
        BY <3>1 DEF frameIDByName, LINMaxID
      <4>2. Number(Line.a) \in Delay
        BY <1>0 DEF Delay, Line
      <4>3. PICK e : e = [ID |-> id, DelayMs |-> Number(Line.a)]
        OBVIOUS
      <4>4. e \in [ID : DOMAIN db.frames, DelayMs : Delay]
        BY <4>1, <4>2, <4>3
      <4>5. Append(table.entries, e) \in Slots(DOMAIN db.frames)
        BY <2>0, <4>4 DEF Slots
      <4> QED  BY <2>0, <3>1, <4>3, <4>5
    <3>2. CASE table' = table
      BY <2>0, <3>2
    <3> QED  BY <1>8, <3>1, <3>2 DEF ParseEntry
  <2> QED  BY <1>0, <2>1, <2>2, SameText, Zenon DEF ParseInv
<1>9. CASE EndTable
  <2>1. UNCHANGED <<lines, fr, table>> /\ (pos' = pos \/ pos' = pos + 1)
        /\ db' = [db EXCEPT !.schedules = Store(@, table.name, table.entries)]
    BY <1>9 DEF EndTable, Next1
  <2>2. PICK T : T = Store(db.schedules, table.name, table.entries)
    OBVIOUS
  <2>3. Whole(db') /\ db'.frames = db.frames /\ db'.schedules = T
    BY <1>0, <2>1, <2>2
  <2>4. DOMAIN T = DOMAIN db.schedules \cup {table.name}
        /\ \A t \in DOMAIN T : T[t] = IF t = table.name THEN table.entries ELSE db.schedules[t]
    BY <2>2 DEF Store
  <2>5. \A t \in DOMAIN T : T[t] \in Slots(DOMAIN db.frames)
    BY <2>4 DEF ParseInv
  <2>6. /\ pos' \in Nat /\ fr \in FrameType
        /\ table \in [name : Names, entries : Slots(DOMAIN db.frames)]
        /\ \A id \in DOMAIN db.frames : db.frames[id] \in FrameType /\ db.frames[id].ID = id
    BY <1>0, <2>1 DEF ParseInv
  <2> QED  BY <2>1, <2>3, <2>5, <2>6, ParsedNow
<1> QED  BY <1>1, <1>3, <1>4, <1>5, <1>6, <1>7, <1>8, <1>9, Zenon DEF Parse

(* Whatever the text, a line at a time: the frames of the database have an *)
(* identifier and a length in range and offsets that are not negative, and *)
(* every slot of a schedule names a frame that is there.                   *)
THEOREM ParsedUsable == Spec => []Usable
<1>1. ParseInv => Usable
  <2> SUFFICES ASSUME ParseInv PROVE Usable
    OBVIOUS
  <2>1. ASSUME NEW id \in DOMAIN db.frames
        PROVE  /\ db.frames[id].ID = id /\ id <= LINMaxID /\ db.frames[id].Length \in 0..LINMaxDataLen
               /\ \A i \in DOMAIN db.frames[id].Signals : db.frames[id].Signals[i].BitOffset >= 0
    <3>1. db.frames[id] \in FrameType /\ db.frames[id].ID = id
      BY DEF ParseInv
    <3>2. id \in 0..LINMaxID /\ db.frames[id].Length \in 0..LINMaxDataLen
          /\ db.frames[id].Signals \in Seq(RefType)
      BY <3>1 DEF FrameType
    <3>3. ASSUME NEW i \in DOMAIN db.frames[id].Signals PROVE db.frames[id].Signals[i] \in RefType
      BY <3>2, OfSeq
    <3>4. \A r \in RefType : r.BitOffset >= 0
      BY DEF RefType, Offset
    <3>5. id <= LINMaxID
      <4>1. \A k \in 0..LINMaxID : k <= LINMaxID
        BY DEF LINMaxID
      <4> QED  BY <3>2, <4>1, Zenon
    <3> QED  BY <3>1, <3>2, <3>3, <3>4, <3>5, Zenon
  <2>2. ASSUME NEW t \in DOMAIN db.schedules, NEW i \in DOMAIN db.schedules[t]
        PROVE  db.schedules[t][i].ID \in DOMAIN db.frames
    <3>1. db.schedules[t] \in Seq([ID : DOMAIN db.frames, DelayMs : Delay])
      BY DEF ParseInv, Slots
    <3>2. db.schedules[t][i] \in [ID : DOMAIN db.frames, DelayMs : Delay]
      BY <3>1, OfSeq
    <3> QED  BY <3>2
  <2> QED  BY <2>1, <2>2 DEF Usable
<1> QED  BY <1>1, ParseStart, ParseStep, PTL DEF Spec
=============================================================================
