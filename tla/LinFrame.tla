------------------------------ MODULE LinFrame ------------------------------
(***************************************************************************)
(* The frame vocabulary of package lin (lin.go): identifiers, checksum     *)
(* kinds, filters, the protected identifier, the checksum and the frame    *)
(* validator.  Bytes are 0..255; bits are taken with \div and %.           *)
(***************************************************************************)
EXTENDS Integers, Sequences, SequencesExt

Byte              == 0..255
LINMaxDataLen     == 8
LINMaxID          == 63
LINDiagRequestID  == 60
LINDiagResponseID == 61
LINChecksumType   == {"classic", "enhanced"}

(* Bit number i of a byte.                                                 *)
Bit(x, i) == (x \div 2^i) % 2

ProtectNoP1(id) ==  \* mutant of ProtectID: P1 is left out
  LET x == id % 64
  IN  x + 64 * ((Bit(x, 0) + Bit(x, 1) + Bit(x, 2) + Bit(x, 4)) % 2)

(* The identifier masked to six bits, with P0 in bit 6 and P1 in bit 7.    *)
ProtectID(id) ==
  LET x  == id % 64
      p0 == (Bit(x, 0) + Bit(x, 1) + Bit(x, 2) + Bit(x, 4)) % 2
      p1 == (1 + Bit(x, 1) + Bit(x, 3) + Bit(x, 4) + Bit(x, 5)) % 2
  IN  x + 64 * p0 + 128 * p1

(* The outcome of VerifyPID: the raw identifier, or a parity error.        *)
VerifyPID(pid) ==
  IF ProtectID(pid % 64) = pid
  THEN [id |-> pid % 64, err |-> FALSE]
  ELSE [id |-> 0, err |-> TRUE]

AddModulo(sum, b) == (sum + b) % 256  \* mutant of AddWithCarry: the carry is lost

(* One turn of the checksum loop: 8-bit addition with the carry added back.*)
AddWithCarry(sum, b) == IF sum + b > 255 THEN sum + b - 255 ELSE sum + b

(* The inverted carry-around sum, over the PID too when enhanced.          *)
CalcChecksum(pid, data, ct) ==
  255 - FoldLeft(AddWithCarry, IF ct = "enhanced" THEN pid ELSE 0, data)

(* A filter passes a frame by exact identifier, or every frame.            *)
Filter == [ID : Byte, All : BOOLEAN]
Matches(flt, id) == flt.All \/ flt.ID = id

(* The frames ValidateFrame accepts.                                       *)
ValidateFrame(f) ==
  /\ f.ID <= LINMaxID
  /\ Len(f.Data) \in 1..LINMaxDataLen
  /\ f.ID \in {LINDiagRequestID, LINDiagResponseID} => f.ChecksumType = "classic"
=============================================================================
