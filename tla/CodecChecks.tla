---------------------------- MODULE CodecChecks -----------------------------
(***************************************************************************)
(* The pure functions of lin.go, diagnostic.go, safety/e2e.go, the LDF     *)
(* codec and the commands against reference definitions, over inputs       *)
(* around their boundaries.  An input is for one of them and grows step by *)
(* step up to its bound:                                                   *)
(*   frame   an identifier, a checksum kind and payload bytes;             *)
(*   diag    bytes, used as the data of a message and as a raw payload;    *)
(*   ldf     a frame with references to signals, and values for them;      *)
(*   e2e     an identity, a counter and a payload to protect;              *)
(*   msg     a relay.Message with any text for its two numbers;            *)
(*   args    the arguments of a send command.                              *)
(***************************************************************************)
EXTENDS DiagFrame, LdfCodec, E2EFrame, RelayMessage, CliArgs

CONSTANTS
  CarryBytes, MaxPayload,   \* the bytes of payloads, and bound
  PCIBytes, MaxDiag,        \* the bytes of diagnostic payloads, and bound
  Offsets, Widths, Values,  \* of signals; a number is the set of its bits
  MaxRefs,                  \* bound: references of a frame
  Counters, MaxProtected,   \* of protected payloads, and bound
  Digits, MaxDigits,        \* of the numbers in a message, and bound
  MaxArgs                   \* bound: arguments of a command

ASSUME CodecAssumption ==
  /\ CarryBytes \subseteq Byte /\ PCIBytes \subseteq Byte
  /\ MaxPayload \in 1..LINMaxDataLen /\ MaxDiag \in Nat /\ MaxRefs \in Nat
  /\ Offsets \subseteq Nat /\ Widths \subseteq Int
  /\ Word >= 3 /\ Values \subseteq SUBSET (0..(Word - 1))
  /\ Counters \subseteq Nat /\ MaxProtected \in Nat
  /\ Digits \subseteq 0..Junk /\ MaxDigits \in Nat /\ MaxArgs \in Nat

VARIABLE in

Identities == {[DataID |-> 258, SourceID |-> 7], [DataID |-> 7, SourceID |-> 65535]}

(* References to the signals a and b and to c, which is not declared.      *)
Refs ==
  [Name : {"a"}, BitOffset : Offsets, BitWidth : Widths, InitValue : {{0}}, declared : {TRUE}]
    \cup [Name : {"b"}, BitOffset : Offsets, BitWidth : Widths, InitValue : {{1, 2}}, declared : {TRUE}]
    \cup [Name : {"c"}, BitOffset : Offsets, BitWidth : Widths, InitValue : {{1, 2}}, declared : {FALSE}]

Payloads == {Nil, <<>>, <<7>>, [i \in 1..8 |-> i], [i \in 1..9 |-> i]}

(* The texts "5", "12", "64", "0x3F", "0x100", "no" and nine bytes.        *)
ArgTexts ==
  {[dec |-> 5, hex16 |-> None, bytes |-> NoParse], [dec |-> 12, hex16 |-> None, bytes |-> <<18>>],
   [dec |-> 64, hex16 |-> None, bytes |-> <<100>>], [dec |-> NoParse, hex16 |-> 63, bytes |-> NoParse],
   [dec |-> NoParse, hex16 |-> NoParse, bytes |-> NoParse], FlagText,
   [dec |-> NoParse, hex16 |-> None, bytes |-> [i \in 1..9 |-> 1]]}

Plain(t)     == [flag |-> None, text |-> t]
Flagged(n, t) == [flag |-> n, text |-> t]
Args         == [flag : {None}, text : ArgTexts]
                  \cup [flag : {"--id", "--data"}, text : {t \in ArgTexts : t.bytes # NoParse} \cup {None}]

InputInit ==
  \/ in \in [codec : {"frame"}, id : 0..LINMaxID, ct : LINChecksumType, data : {<<>>}]
  \/ in \in [codec : {"diag"}, data : {<<>>}]
  \/ in \in [codec : {"ldf"}, Length : {1, 2}, Signals : {<<>>},
             signals : UNION {[D -> Values] : D \in SUBSET {"a", "b"}}]
  \/ in \in [codec : {"e2e"}, cfg : Identities, seq : Counters, data : {<<>>}]
  \/ in \in [codec : {"msg"}, ID : {<<>>}, checksum : {<<>>}, Payload : Payloads,
             checksum_type : {"classic", "enhanced", "none"}]
  \/ in \in [codec : {"args"}, args : {<<>>}]

AddByte(codec, bytes, max) ==
  /\ in.codec = codec /\ Len(in.data) < max
  /\ \E b \in bytes : in' = [in EXCEPT !.data = Append(@, b)]

(* Another reference; both mentions of one signal have its declaration.    *)
AddRef ==
  /\ in.codec = "ldf" /\ Len(in.Signals) < MaxRefs
  /\ \E ref \in Refs :
       /\ \A i \in DOMAIN in.Signals :
            in.Signals[i].Name = ref.Name => in.Signals[i].BitWidth = ref.BitWidth
       /\ in' = [in EXCEPT !.Signals = Append(@, ref)]

AddDigit ==
  /\ in.codec = "msg"
  /\ \E d \in Digits :
       \/ Len(in.ID) < MaxDigits /\ in' = [in EXCEPT !.ID = Append(@, d)]
       \/ Len(in.checksum) < MaxDigits /\ in' = [in EXCEPT !.checksum = Append(@, d)]

AddArg ==
  /\ in.codec = "args" /\ Len(in.args) < MaxArgs
  /\ \E a \in Args : in' = [in EXCEPT !.args = Append(@, a)]

Grow ==
  \/ AddByte("frame", CarryBytes, MaxPayload)
  \/ AddByte("diag", PCIBytes, MaxDiag)
  \/ AddByte("e2e", CarryBytes, MaxProtected)
  \/ AddRef \/ AddDigit \/ AddArg

Full ==
  /\ CASE in.codec = "frame" -> Len(in.data) = MaxPayload
       [] in.codec = "diag"  -> Len(in.data) = MaxDiag
       [] in.codec = "ldf"   -> Len(in.Signals) = MaxRefs
       [] in.codec = "e2e"   -> Len(in.data) = MaxProtected
       [] in.codec = "msg"   -> Len(in.ID) = MaxDigits /\ Len(in.checksum) = MaxDigits
       [] in.codec = "args"  -> Len(in.args) = MaxArgs
  /\ UNCHANGED in

InputSpec == InputInit /\ [][Grow \/ Full]_in

-----------------------------------------------------------------------------
Flip(x, i) == IF Bit(x, i) = 1 THEN x - 2^i ELSE x + 2^i

(* Parity is worth sending: the receiver of a PID gets the identifier      *)
(* back, and any one flipped bit of the eight is noticed (REQ-LIN-005).    *)
ParityDetects ==
  in.codec = "frame" =>
    /\ VerifyPID(ProtectID(in.id)) = [id |-> in.id, err |-> FALSE]
    /\ \A i \in 0..7 : VerifyPID(Flip(ProtectID(in.id), i)).err

(* CalcChecksum's carry-around loop computes the inverted sum modulo 255,  *)
(* 255 and not 0 for a sum that is a positive multiple of it, so that      *)
(* adding up what was sent and the checksum gives all ones.                *)
ChecksumIsSum ==
  in.codec = "frame" =>
    LET pid == ProtectID(in.id)
        s   == FoldLeft(LAMBDA t, b : t + b, IF in.ct = "enhanced" THEN pid ELSE 0, in.data)
        c   == CalcChecksum(pid, in.data, in.ct)
    IN  /\ c = 255 - (IF s = 0 THEN 0 ELSE ((s - 1) % 255) + 1)
        /\ (s + c) % 255 = 0

-----------------------------------------------------------------------------
Message == [NAD |-> 125, SID |-> 178, Data |-> in.data]

(* What packDiag packs unpackDiag unpacks, the data bytes told apart from  *)
(* padding even when they equal it; data that does not fit is refused, and *)
(* what is packed is a frame ValidateFrame accepts on both identifiers.    *)
(* REQ-SEC-005: a raw payload that unpackDiag accepts reads back within    *)
(* its eight bytes: packing it again gives the payload up to the padding.  *)
PackUnpack ==
  in.codec = "diag" =>
    /\ IF Len(in.data) <= DiagDataLen
       THEN /\ unpackDiag(packDiag(Message)) = Message
            /\ \A id \in {LINDiagRequestID, LINDiagResponseID} : ValidateFrame(ToFrame(id, Message))
       ELSE packDiag(Message) = ErrInvalidFrame
    /\ LET m == unpackDiag(in.data)
       IN  m # ErrInvalidFrame =>
             /\ packDiag(m) # ErrInvalidFrame
             /\ SubSeq(packDiag(m), 1, 3 + Len(m.Data)) = SubSeq(in.data, 1, 3 + Len(m.Data))

-----------------------------------------------------------------------------
Bits(ref) == {ref.BitOffset + i : i \in 0..(ref.BitWidth - 1)}

Value(ref) == IF ref.Name \in DOMAIN in.signals THEN in.signals[ref.Name] ELSE ref.InitValue

(* The references Decode reports, the last of each signal, whose bits      *)
(* Encode did not overwrite later.                                         *)
Readable ==
  {n \in Declared(in) : \A k \in Declared(in) : k > n =>
     /\ in.Signals[k].Name # in.Signals[n].Name
     /\ Bits(in.Signals[k]) \cap Bits(in.Signals[n]) = {}}

(* REQ-LDF-009 and the comment on Encode: what is encoded is decoded, cut  *)
(* to the signal's width, InitValue where no value is given, for every     *)
(* signal that lies in the payload and is not overwritten by a later one.  *)
DecodeEncode ==
  in.codec = "ldf" =>
    \A n \in Readable :
      LET ref == in.Signals[n]
      IN  Bits(ref) \subseteq 0..(8 * in.Length - 1) =>
            Decode(in, Encode(in, in.signals))[ref.Name] = {i \in Value(ref) : i < ref.BitWidth}

(* Encode fills the declared length and nothing else: bits of no signal    *)
(* stay 0, a signal that sticks out is cut at the end of the payload, and  *)
(* what is read from it again is a part of what was written.               *)
StaysInPayload ==
  in.codec = "ldf" =>
    LET data == Encode(in, in.signals)
    IN  /\ Payload(data)
        /\ data.bits \subseteq UNION {Bits(in.Signals[n]) : n \in Declared(in)}
        /\ \A n \in Readable :
             Decode(in, data)[in.Signals[n].Name] \subseteq Value(in.Signals[n])

-----------------------------------------------------------------------------
(* REQ-SAFETY-010, 011 and REQ-SEC-002: what Protect makes of a payload    *)
(* the Receiver of the same identity takes apart again and one of another  *)
(* identity refuses, and any one bit that flips or one byte that comes     *)
(* complemented, in the header, in its CRC or in the payload, is noticed.  *)
ProtectedArrives ==
  in.codec = "e2e" =>
    LET wire == ProtectBytes(in.cfg, in.seq, in.data)
    IN  /\ Inspect(in.cfg, wire) = [err |-> "nil", seq |-> in.seq, payload |-> in.data]
        /\ \A other \in Identities \ {in.cfg} : Inspect(other, wire).err = "ErrIDMismatch"
        /\ \A k \in DOMAIN wire : \A b \in {Flip(wire[k], i) : i \in 0..7} \cup {255 - wire[k]} :
             Inspect(in.cfg, [wire EXCEPT ![k] = b]).err = "ErrCRCMismatch"

-----------------------------------------------------------------------------
(* A frame survives the way through an envelope, all of its fields, if it  *)
(* has data; FromMessage makes a frame with an identifier and a checksum   *)
(* in range, or none, of any message; and convert accepts such a frame     *)
(* exactly when ValidateFrame would, with the envelope of that frame.      *)
MessageRoundTrip ==
  in.codec = "msg" =>
    LET f == FromMessage(in)
        g == FromMessage(ToMessage(f))
    IN  ~f.err => /\ f.ID \in 0..LINMaxID /\ f.Checksum \in Byte
                  /\ g = f
                  /\ cmdConvert(f).code = 0 => FromMessage(cmdConvert(f).out) = f
                  /\ cmdConvert(f).code = 0 <=>
                       /\ Size(in.Payload) \in 1..LINMaxDataLen
                       /\ f.ID \in {60, 61} => in.checksum_type # "enhanced"

(* The two ways into a bus for a relay.Message, the adapter's Send and the *)
(* send stream, accept the same messages and leave the same registration,  *)
(* but for one: an empty payload that is not nil is an error for Send and  *)
(* withdraws the response in the stream (adapt.go 47, main.go 255-260).    *)
SinksAgree ==
  in.codec = "msg" =>
    LET reg == [id \in 0..LINMaxID |-> [data |-> <<1>>, ct |-> "classic"]]
        id  == ParseUint8(in.ID)
    IN  /\ in.Payload # <<>> => NodeSend(reg, in) = StreamSend(reg, in)
        /\ in.Payload = <<>> => NodeSend(reg, in).err
        /\ NodeSend(reg, in).err => NodeSend(reg, in).reg = reg
        /\ StreamSend(reg, in).err =>
             id.err \/ id.val > LINMaxID \/ Size(in.Payload) > LINMaxDataLen

-----------------------------------------------------------------------------
FlagForms(id, data) ==
  LET Spell(n, t) == {<<Flagged(n, t)>>, <<Flagged(n, None), Plain(t)>>}
  IN  {a \o b : a \in Spell("--id", id), b \in Spell("--data", data)}
        \cup {b \o a : a \in Spell("--id", id), b \in Spell("--data", data)}

(* "send --id <uint> --data <hex>  Same as above" (main.go 17): all the    *)
(* spellings of the flags, in both orders, do what the two plain arguments *)
(* do, and go-lin and lintool do the same with those.  What the parsers    *)
(* accept the bus accepts too, and then cs has announced the checksum that *)
(* is exchanged and pid an identifier the receiver takes for the same one. *)
SendFormsAgree ==
  in.codec = "args" =>
    LET r     == parseSendArgs(in.args)
        plain == \A i \in DOMAIN in.args : in.args[i].flag = None
        cs    == cmdCS(in.args)
    IN  /\ \A id, data \in ArgTexts : in.args \in FlagForms(id, data) =>
             r = lintoolSend(<<Plain(id), Plain(data)>>)
        /\ plain => r = IF Len(in.args) = 2 THEN lintoolSend(in.args) ELSE Usage
        /\ plain /\ Len(in.args) = 2 =>
             /\ r.exit = cs.exit
             /\ r.exit = 0 => /\ r = [exit |-> 0, ID |-> cs.ID, Data |-> cs.Data, Checksum |-> cs.Checksum]
                              /\ cmdPID(<<in.args[1]>>).PID = cs.PID
                              /\ VerifyPID(cs.PID) = [id |-> r.ID, err |-> FALSE]
=============================================================================
