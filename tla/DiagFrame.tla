----------------------------- MODULE DiagFrame ------------------------------
(***************************************************************************)
(* The single-frame diagnostic transport of diagnostic.go: a message (NAD, *)
(* SID or RSID, up to five data bytes) as an 8-byte classic-checksum       *)
(* payload [NAD, PCI, SID, data..., 0xFF...] and back.                     *)
(***************************************************************************)
EXTENDS LinFrame

DiagDataLen == 5
diagPadding == 255

(* MasterRequestFrame and SlaveResponseFrame, which differ in name only.   *)
DiagMessage == [NAD : Byte, SID : Byte, Data : Seq(Byte)]

CONSTANT ErrInvalidFrame  \* the error, in place of a payload or a message

ASSUME ErrAssumption == ErrInvalidFrame \notin DiagMessage \cup Seq(Byte)

PackNoSID(m) ==  \* mutant of packDiag: the PCI does not count the SID
  IF Len(m.Data) > DiagDataLen THEN ErrInvalidFrame
  ELSE <<m.NAD, Len(m.Data), m.SID>> \o m.Data
         \o [i \in 1..(DiagDataLen - Len(m.Data)) |-> diagPadding]

(* packDiag: the payload, or an error when the data does not fit.          *)
packDiag(m) ==
  IF Len(m.Data) > DiagDataLen THEN ErrInvalidFrame
  ELSE <<m.NAD, Len(m.Data) + 1, m.SID>> \o m.Data
         \o [i \in 1..(DiagDataLen - Len(m.Data)) |-> diagPadding]

UnpackZero(data) ==  \* mutant of unpackDiag: a PCI of 0 is let through
  IF Len(data) # LINMaxDataLen \/ data[2] > DiagDataLen + 1
  THEN ErrInvalidFrame
  ELSE [NAD |-> data[1], SID |-> data[3], Data |-> SubSeq(data, 4, 2 + data[2])]

(* unpackDiag: the message of an 8-byte payload whose PCI is in 1..6.      *)
unpackDiag(data) ==
  IF Len(data) # LINMaxDataLen \/ data[2] = 0 \/ data[2] > DiagDataLen + 1
  THEN ErrInvalidFrame
  ELSE [NAD |-> data[1], SID |-> data[3], Data |-> SubSeq(data, 4, 2 + data[2])]

ToFrameEnhanced(id, m) ==  \* mutant of ToFrame
  [ID |-> id, Data |-> packDiag(m), ChecksumType |-> "enhanced"]

(* ToFrame, for a message that fits.                                       *)
ToFrame(id, m) == [ID |-> id, Data |-> packDiag(m), ChecksumType |-> "classic"]
=============================================================================
