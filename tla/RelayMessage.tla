---------------------------- MODULE RelayMessage ----------------------------
(***************************************************************************)
(* Frames as relay.Message envelopes: Frame.ToMessage and FromMessage      *)
(* (lin.go), the convert command, and what the two sinks of messages, the  *)
(* adapter's Send and the send stream of go-lin, do with one.              *)
(*                                                                         *)
(* Identifier and checksum travel as decimal text, here a sequence of      *)
(* digits with Junk for any other character.  A payload is nil or bytes,   *)
(* and Go's append to a nil slice makes an empty one nil.                  *)
(***************************************************************************)
EXTENDS LinFrame

CONSTANTS
  Nil,      \* a nil payload
  NoEntry   \* no response is registered

ASSUME NilAssumption == Nil \notin Seq(Byte)

Junk == 10

(* strconv.Itoa of a byte.                                                 *)
Itoa(n) ==
  IF n < 10 THEN <<n>>
  ELSE IF n < 100 THEN <<n \div 10, n % 10>>
  ELSE <<n \div 100, (n \div 10) % 10, n % 10>>

(* strconv.ParseUint(s, 10, 8): the first character that is no digit or    *)
(* leads out of the byte decides; out of range reads as 255, an error too. *)
ParseDigit(r, d) ==
  IF r.err THEN r
  ELSE IF d = Junk THEN [val |-> 0, err |-> TRUE]
  ELSE IF 10 * r.val + d > 255 THEN [val |-> 255, err |-> TRUE]
  ELSE [val |-> 10 * r.val + d, err |-> FALSE]

ParseUint8(s) == FoldLeft(ParseDigit, [val |-> 0, err |-> s = <<>>], s)

(* append([]byte(nil), data...)                                            *)
Clone(data) == IF data = <<>> THEN Nil ELSE data

Size(data) == IF data = Nil THEN 0 ELSE Len(data)

ToMessage(f) ==
  [ID |-> Itoa(f.ID), Payload |-> Clone(f.Data),
   checksum_type |-> f.ChecksumType, checksum |-> Itoa(f.Checksum)]

BadFrame == [err |-> TRUE]

(* Mutant: the number is taken whatever ParseUint says of it.              *)
FromAnyMessage(m) ==
  [err |-> FALSE, ID |-> ParseUint8(m.ID).val, Data |-> Clone(m.Payload),
   ChecksumType |-> IF m.checksum_type = "enhanced" THEN "enhanced" ELSE "classic",
   Checksum |-> ParseUint8(m.checksum).val]

(* The identifier must parse; the checksum is taken as far as it does.     *)
FromMessage(m) ==
  LET id == ParseUint8(m.ID)
  IN  IF id.err \/ id.val > LINMaxID THEN BadFrame
      ELSE [err |-> FALSE, ID |-> id.val, Data |-> Clone(m.Payload),
            ChecksumType |-> IF m.checksum_type = "enhanced" THEN "enhanced" ELSE "classic",
            Checksum |-> ParseUint8(m.checksum).val]

(* cmdConvert past its flags: the exit code, and the message on success.   *)
cmdConvert(f) ==
  IF ValidateFrame([f EXCEPT !.Data = IF @ = Nil THEN <<>> ELSE @])
  THEN [code |-> 0, out |-> ToMessage(f)]
  ELSE [code |-> 1]

-----------------------------------------------------------------------------
(* Publish on an open bus: the register of responses, or a refusal.        *)
Publish(reg, id, data) ==
  IF id > LINMaxID \/ (data # Nil /\ Len(data) \notin 1..LINMaxDataLen)
  THEN [err |-> TRUE, reg |-> reg]
  ELSE [err |-> FALSE,
        reg |-> [reg EXCEPT ![id] =
                   IF data = Nil THEN NoEntry ELSE [data |-> data, ct |-> "enhanced"]]]

(* Mutant: only the range of the identifier is looked at, not the error.   *)
NodeSendAnyID(reg, m) ==
  LET id == ParseUint8(m.ID)
  IN  IF id.val > LINMaxID \/ Size(m.Payload) > LINMaxDataLen
      THEN [err |-> TRUE, reg |-> reg]
      ELSE Publish(reg, id.val, m.Payload)

(* linNode.Send: the payload goes to Publish as it came.                   *)
NodeSend(reg, m) ==
  LET id == ParseUint8(m.ID)
  IN  IF id.err \/ id.val > LINMaxID \/ Size(m.Payload) > LINMaxDataLen
      THEN [err |-> TRUE, reg |-> reg]
      ELSE Publish(reg, id.val, m.Payload)

(* One line of the send stream: by way of FromMessage; a line that cannot  *)
(* be published is skipped.                                                *)
StreamSend(reg, m) ==
  LET f == FromMessage(m)
  IN  IF f.err THEN [err |-> TRUE, reg |-> reg]
      ELSE Publish(reg, f.ID, f.Data)
=============================================================================
