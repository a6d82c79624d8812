------------------------------ MODULE LdfCodec ------------------------------
(***************************************************************************)
(* Signal packing of ldf/parser.go: Decode, Encode and the bit loops they  *)
(* share.  A number is the set of its bits that are 1; a payload is its    *)
(* length in bytes and the set of its bits that are 1, bit 0 of byte 0     *)
(* first.  A uint64 has bits 0..63: 1 << i is 0 from i = 64 on.            *)
(***************************************************************************)
EXTENDS Integers, Sequences

CONSTANT Word   \* 64, the width of uint64

ASSUME WordAssumption == Word \in Nat

Payload(data) == data.len \in Nat /\ data.bits \subseteq 0..(8 * data.len - 1)

WindowUnbounded(data, bitOffset, bitWidth) == 0..(bitWidth - 1)  \* mutant: no break

(* The bits of the payload that a signal of this offset and width occupies *)
(* before either loop breaks at the end of the payload.                    *)
Window(data, bitOffset, bitWidth) ==
  {i \in 0..(bitWidth - 1) : (bitOffset + i) \div 8 < data.len}

extractBits(data, bitOffset, bitWidth) ==
  {i \in Window(data, bitOffset, bitWidth) : i < Word /\ bitOffset + i \in data.bits}

OrBits(data, bitOffset, bitWidth, val) ==  \* mutant: the zero bits are not written
  [data EXCEPT !.bits =
     @ \cup {bitOffset + i : i \in {j \in Window(data, bitOffset, bitWidth) : j < Word /\ j \in val}}]

packBits(data, bitOffset, bitWidth, val) ==
  LET w == Window(data, bitOffset, bitWidth)
  IN  [data EXCEPT !.bits =
         (@ \ {bitOffset + i : i \in w})
           \cup {bitOffset + i : i \in {j \in w : j < Word /\ j \in val}}]

-----------------------------------------------------------------------------
(* A frame of the database: its length and its signal references in order, *)
(* each with the width and the initial value of its signal; a reference to *)
(* a signal that is not declared is skipped, as declared = FALSE.          *)
PackRef(data, ref, signals) ==
  IF ~ref.declared THEN data
  ELSE packBits(data, ref.BitOffset, ref.BitWidth,
                IF ref.Name \in DOMAIN signals THEN signals[ref.Name] ELSE ref.InitValue)

(* The payload after the first n references.                               *)
Encode(frame, signals) ==
  LET step[n \in 0..Len(frame.Signals)] ==
        IF n = 0 THEN [len |-> frame.Length, bits |-> {}]
        ELSE PackRef(step[n - 1], frame.Signals[n], signals)
  IN  step[Len(frame.Signals)]

(* Of two references to one signal the later one decides.                  *)
Declared(frame) ==
  {n \in DOMAIN frame.Signals : frame.Signals[n].declared}

Decode(frame, data) ==
  [name \in {frame.Signals[n].Name : n \in Declared(frame)} |->
     LET n == CHOOSE m \in Declared(frame) :
                /\ frame.Signals[m].Name = name
                /\ \A k \in Declared(frame) : frame.Signals[k].Name = name => k <= m
         ref == frame.Signals[n]
     IN  extractBits(data, ref.BitOffset, ref.BitWidth)]
=============================================================================
