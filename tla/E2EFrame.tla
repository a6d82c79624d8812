------------------------------ MODULE E2EFrame ------------------------------
(***************************************************************************)
(* The bytes of an end-to-end protected payload (safety/e2e.go): the       *)
(* header Protect prepends, its CRC, and the checks Unwrap makes before it *)
(* takes the lock.  The counter and what the Receiver makes of it are in   *)
(* E2EChannel.  The CRC register is the set of its bits that are 1.        *)
(***************************************************************************)
EXTENDS LinFrame

headerSize == 10

(* binary.LittleEndian: n in k bytes, and back.                            *)
PutUint(n, k) == [i \in 1..k |-> (n \div 256^(i - 1)) % 256]
Uint(bytes)   == FoldRight(LAMBDA b, n : b + 256 * n, bytes, 0)

Xor(a, b) == (a \ b) \cup (b \ a)
Ones(n)   == {i \in 0..15 : Bit(n, i) = 1}

(* One turn of the inner loop: shift left; if a 1 fell out, xor 0x1021.    *)
CrcShift(crc) ==
  LET shifted == {i + 1 : i \in crc \ {15}}
  IN  IF 15 \in crc THEN Xor(shifted, {0, 5, 12}) ELSE shifted

(* A byte into the high half of the register, then eight turns.  (The      *)
(* UNION has one member; it makes TLC evaluate the register only once.)    *)
CrcByte(crc, b) ==
  LET Turns(start) == FoldLeft(LAMBDA c, turn : CrcShift(c), start, [i \in 1..8 |-> i])
  IN  UNION {Turns(start) : start \in {Xor(crc, {i + 8 : i \in Ones(b)})}}

(* Mutant: the payload is left out.                                        *)
CrcOfHeader(data) == FoldLeft(CrcByte, 0..15, SubSeq(data, 1, headerSize))

(* CRC-16/CCITT-FALSE, from 0xFFFF.                                        *)
crc16(data) == FoldLeft(CrcByte, 0..15, data)

(* The CRC is taken with its own two bytes zero.                           *)
CrcOf(data) ==
  crc16([data EXCEPT ![9] = 0, ![10] = 0])

buildHeader(cfg, seq, payload) ==
  LET hdr == PutUint(cfg.DataID, 2) \o PutUint(cfg.SourceID, 2) \o PutUint(seq, 4)
      crc == CrcOf(hdr \o <<0, 0>> \o payload)
  IN  hdr \o PutUint(FoldSet(LAMBDA i, n : n + 2^i, 0, crc), 2)

ProtectBytes(cfg, seq, payload) == buildHeader(cfg, seq, payload) \o payload

(* Unwrap up to the lock: length, CRC and identity, in this order, or the  *)
(* counter and the payload.                                                *)
Inspect(cfg, data) ==
  IF Len(data) < headerSize THEN [err |-> "ErrHeaderTooShort"]
  ELSE IF CrcOf(data) # Ones(Uint(SubSeq(data, 9, 10))) THEN [err |-> "ErrCRCMismatch"]
  ELSE IF \/ Uint(SubSeq(data, 1, 2)) # cfg.DataID
          \/ Uint(SubSeq(data, 3, 4)) # cfg.SourceID
  THEN [err |-> "ErrIDMismatch"]
  ELSE [err |-> "nil", seq |-> Uint(SubSeq(data, 5, 8)),
        payload |-> SubSeq(data, headerSize + 1, Len(data))]
=============================================================================
