-------------------------- MODULE DiagnosticsProofs -------------------------
(***************************************************************************)
(* Diagnostic exchanges of master/master.go over the codec of              *)
(* diagnostic.go: for any requests, any callers, any interference and any  *)
(* size of the target's channel, an exchange sends its two frames in order *)
(* and returns only what was really answered.                              *)
(***************************************************************************)
EXTENDS Diagnostics, CodecChecks, SequenceTheorems, TLAPS

-----------------------------------------------------------------------------
(* The codec.                                                              *)

(* A message fits when its data does.                                      *)
Fits(m) == m \in DiagMessage /\ Len(m.Data) <= DiagDataLen

(* The elements of a byte sequence of length eight.                        *)
LEMMA EightBytes ==
  ASSUME NEW d \in Seq(Byte), Len(d) = 8
  PROVE  \A i \in 1..8 : d[i] \in Byte
  BY ElementOfSeq

(* The bytes of a packed message, one by one.                              *)
LEMMA PackedBytes ==
  ASSUME NEW m, Fits(m)
  PROVE  /\ packDiag(m) \in Seq(Byte)
         /\ Len(packDiag(m)) = 8
         /\ packDiag(m)[1] = m.NAD
         /\ packDiag(m)[2] = Len(m.Data) + 1
         /\ packDiag(m)[3] = m.SID
         /\ \A i \in 1..Len(m.Data) : packDiag(m)[i + 3] = m.Data[i]
<1>1. PICK a, s, d : a = m.NAD /\ s = m.SID /\ d = m.Data
  OBVIOUS
<1>2. PICK l : l = Len(d)
  OBVIOUS
<1>3. a \in Byte /\ s \in Byte /\ d \in Seq(Byte) /\ l \in Nat /\ l <= 5
  BY <1>1, <1>2 DEF Fits, DiagMessage, DiagDataLen
<1>4. l \in 0..5 /\ l + 1 \in Byte /\ 255 \in Byte
  BY <1>3 DEF Byte
<1> DEFINE pad  == [i \in 1..(5 - l) |-> 255]
           head == <<a, l + 1, s>>
<1>5. pad \in Seq(Byte) /\ Len(pad) = 5 - l
  <2>1. 5 - l \in Nat
    BY <1>4
  <2> QED  BY <2>1, <1>4
<1>6. /\ head \in Seq(Byte) /\ Len(head) = 3
      /\ head[1] = a /\ head[2] = l + 1 /\ head[3] = s
  BY <1>3, <1>4
<1>7. packDiag(m) = head \o d \o pad
  <2>1. ~(Len(m.Data) > 5)
    BY <1>1, <1>2, <1>3
  <2> QED  BY <2>1, <1>1, <1>2 DEF packDiag, DiagDataLen, diagPadding
<1> HIDE DEF pad, head
<1>8. PICK h : h = head \o d
  OBVIOUS
<1>9. /\ h \in Seq(Byte) /\ Len(h) = 3 + l
      /\ \A i \in 1..(3 + l) : h[i] = IF i <= 3 THEN head[i] ELSE d[i - 3]
  <2>1. /\ h \in Seq(Byte) /\ Len(h) = Len(head) + Len(d)
        /\ \A i \in 1..(Len(head) + Len(d)) : h[i] = IF i <= Len(head) THEN head[i] ELSE d[i - Len(head)]
    BY <1>3, <1>6, <1>8, ConcatProperties
  <2> QED  BY <2>1, <1>2, <1>6
<1>10. /\ h[1] = a /\ h[2] = l + 1 /\ h[3] = s
       /\ \A i \in 1..l : h[i + 3] = d[i]
  BY <1>4, <1>6, <1>9
<1>11. /\ h \o pad \in Seq(Byte) /\ Len(h \o pad) = Len(h) + Len(pad)
       /\ \A i \in 1..(Len(h) + Len(pad)) : (h \o pad)[i] = IF i <= Len(h) THEN h[i] ELSE pad[i - Len(h)]
  BY <1>5, <1>9, ConcatProperties
<1>12. Len(h \o pad) = 8 /\ \A i \in 1..(3 + l) : (h \o pad)[i] = h[i]
  BY <1>4, <1>5, <1>9, <1>11
<1>13. /\ 1 \in 1..(3 + l) /\ 2 \in 1..(3 + l) /\ 3 \in 1..(3 + l)
       /\ \A i \in 1..l : i + 3 \in 1..(3 + l)
  BY <1>4
<1>14. PICK p : p = packDiag(m)
  OBVIOUS
<1>15. p = h \o pad
  BY <1>7, <1>8, <1>14
<1>16. p \in Seq(Byte) /\ Len(p) = 8
  BY <1>11, <1>12, <1>15
<1>17. \A i \in 1..(3 + l) : p[i] = h[i]
  BY <1>12, <1>15
<1>18. p[1] = a /\ p[2] = l + 1 /\ p[3] = s
  BY <1>10, <1>13, <1>17
<1>19. \A i \in 1..l : p[i + 3] = d[i]
  BY <1>10, <1>13, <1>17
<1> QED  BY <1>1, <1>2, <1>14, <1>16, <1>18, <1>19

(* What packDiag packs unpackDiag unpacks, and it is never the error.      *)
LEMMA PackThenUnpack ==
  ASSUME NEW m, Fits(m)
  PROVE  /\ packDiag(m) # ErrInvalidFrame
         /\ unpackDiag(packDiag(m)) = m
         /\ unpackDiag(packDiag(m)) # ErrInvalidFrame
<1>1. PICK b : b = packDiag(m)
  OBVIOUS
<1>2. PICK l : l = Len(m.Data)
  OBVIOUS
<1>3. /\ m = [NAD |-> m.NAD, SID |-> m.SID, Data |-> m.Data] /\ m.Data \in Seq(Byte)
      /\ l \in Nat /\ l <= 5 /\ m \in DiagMessage
  BY <1>2 DEF Fits, DiagMessage, DiagDataLen
<1>4. /\ b \in Seq(Byte) /\ Len(b) = 8
      /\ b[1] = m.NAD /\ b[2] = l + 1 /\ b[3] = m.SID
      /\ \A i \in 1..l : b[i + 3] = m.Data[i]
  BY <1>1, <1>2, PackedBytes
<1>5. unpackDiag(b) = [NAD |-> b[1], SID |-> b[3], Data |-> SubSeq(b, 4, 2 + b[2])]
  BY <1>3, <1>4 DEF unpackDiag, LINMaxDataLen, DiagDataLen
<1>6. SubSeq(b, 4, 2 + b[2]) = m.Data
  <2>1. 2 + b[2] = 3 + l
    BY <1>3, <1>4
  <2>2. \A i \in 4..(3 + l) : b[i] \in Byte
    <3>1. \A i \in 4..(3 + l) : i \in 1..8
      BY <1>3
    <3> QED  BY <1>4, <3>1, EightBytes
  <2>3. PICK k \in Int : k = 3 + l
    BY <1>3
  <2>4. PICK t : t = SubSeq(b, 4, k)
    OBVIOUS
  <2>5. /\ t \in Seq(Byte) /\ Len(t) = IF 4 <= k THEN k - 4 + 1 ELSE 0
        /\ \A i \in 1..(k - 4 + 1) : t[i] = b[4 + i - 1]
    BY <2>2, <2>3, <2>4, SubSeqProperties
  <2>6. Len(t) = l /\ \A i \in 1..l : t[i] = b[i + 3]
    BY <1>3, <2>3, <2>5
  <2>7. t = m.Data
    BY <1>2, <1>3, <1>4, <2>5, <2>6, SeqEqual, SMTT(30)
  <2> QED  BY <2>1, <2>3, <2>4, <2>7
<1>7. unpackDiag(b) = m
  BY <1>3, <1>4, <1>5, <1>6
<1> QED  BY <1>1, <1>3, <1>4, <1>7, ErrAssumption

(* A payload that unpackDiag accepts reads as a message that fits, so that *)
(* nothing is read beyond its eight bytes (REQ-SEC-005).                   *)
LEMMA UnpackFits ==
  ASSUME NEW d \in Seq(Byte), unpackDiag(d) # ErrInvalidFrame
  PROVE  Fits(unpackDiag(d))
<1>1. Len(d) = 8 /\ d[2] # 0 /\ ~(d[2] > 6)
  BY DEF unpackDiag, LINMaxDataLen, DiagDataLen
<1>2. d[1] \in Byte /\ d[2] \in Byte /\ d[3] \in Byte /\ \A i \in 4..8 : d[i] \in Byte
  <2>1. 1 \in 1..8 /\ 2 \in 1..8 /\ 3 \in 1..8 /\ \A i \in 4..8 : i \in 1..8
    OBVIOUS
  <2> QED  BY <1>1, <2>1, EightBytes
<1>3. PICK n \in 1..6 : n = d[2]
  <2>1. \A x \in Byte : x # 0 /\ ~(x > 6) => x \in 1..6
    BY DEF Byte
  <2> QED  BY <1>1, <1>2, <2>1
<1>4. unpackDiag(d) = [NAD |-> d[1], SID |-> d[3], Data |-> SubSeq(d, 4, 2 + n)]
  BY <1>1, <1>3 DEF unpackDiag, LINMaxDataLen, DiagDataLen
<1>5. PICK k \in Int : k = 2 + n
  OBVIOUS
<1>6. PICK e : e = SubSeq(d, 4, k)
  OBVIOUS
<1>7. e \in Seq(Byte) /\ Len(e) = IF 4 <= k THEN k - 4 + 1 ELSE 0
  <2>1. \A i \in 4..k : d[i] \in Byte
    BY <1>2, <1>5
  <2> QED  BY <2>1, <1>6, SubSeqProperties
<1>8. Len(e) <= 5
  BY <1>5, <1>7
<1>9. unpackDiag(d) = [NAD |-> d[1], SID |-> d[3], Data |-> e]
  BY <1>4, <1>5, <1>6
<1> QED  BY <1>2, <1>7, <1>8, <1>9 DEF Fits, DiagMessage, DiagDataLen

(* The codec loses nothing, for every message and every payload: a message *)
(* that fits survives packDiag and unpackDiag, its data told apart from    *)
(* the padding; one that does not fit is refused; and a payload unpackDiag *)
(* accepts is a message that fits, packed as one ValidateFrame accepts.    *)
THEOREM DiagRoundTrip ==
  /\ \A m \in DiagMessage : IF Len(m.Data) <= DiagDataLen
                            THEN unpackDiag(packDiag(m)) = m
                            ELSE packDiag(m) = ErrInvalidFrame
  /\ \A d \in Seq(Byte) : unpackDiag(d) # ErrInvalidFrame =>
       /\ unpackDiag(d) \in DiagMessage
       /\ unpackDiag(packDiag(unpackDiag(d))) = unpackDiag(d)
       /\ \A id \in {LINDiagRequestID, LINDiagResponseID} : ValidateFrame(ToFrame(id, unpackDiag(d)))
<1>1. ASSUME NEW m \in DiagMessage
      PROVE  IF Len(m.Data) <= DiagDataLen THEN unpackDiag(packDiag(m)) = m
             ELSE packDiag(m) = ErrInvalidFrame
  <2>1. Len(m.Data) \in Nat
    BY DEF DiagMessage
  <2>2. CASE Len(m.Data) <= DiagDataLen
    BY <2>2, PackThenUnpack DEF Fits
  <2>3. CASE ~(Len(m.Data) <= DiagDataLen)
    BY <2>1, <2>3 DEF packDiag, DiagDataLen
  <2> QED  BY <2>2, <2>3
<1>2. ASSUME NEW d \in Seq(Byte), unpackDiag(d) # ErrInvalidFrame
      PROVE  /\ unpackDiag(d) \in DiagMessage
             /\ unpackDiag(packDiag(unpackDiag(d))) = unpackDiag(d)
             /\ \A id \in {LINDiagRequestID, LINDiagResponseID} : ValidateFrame(ToFrame(id, unpackDiag(d)))
  <2>1. PICK m : m = unpackDiag(d) /\ Fits(m)
    BY <1>2, UnpackFits
  <2>2. m \in DiagMessage /\ unpackDiag(packDiag(m)) = m /\ Len(packDiag(m)) = 8
    BY <2>1, PackThenUnpack, PackedBytes DEF Fits
  <2>3. \A id \in {LINDiagRequestID, LINDiagResponseID} : ValidateFrame(ToFrame(id, m))
    BY <2>2 DEF ValidateFrame, ToFrame, LINDiagRequestID, LINDiagResponseID, LINMaxID, LINMaxDataLen
  <2> QED  BY <2>1, <2>2, <2>3
<1> QED  BY <1>1, <1>2

-----------------------------------------------------------------------------
(* The exchange.                                                           *)

Labels == {"idle", "publish", "request", "response"}

(* A caller that is about to publish has a request that fits.              *)
CallInv ==
  /\ DOMAIN entry = {LINDiagRequestID, LINDiagResponseID}
  /\ via \in {"PublishFrame", "SetResponse"}
  /\ pc \in [Caller -> Labels]
  /\ req \in [Caller -> Requests]
  /\ DOMAIN wire = Caller /\ DOMAIN put = Caller /\ DOMAIN answer = Caller
  /\ \A c \in Caller : pc[c] = "publish" => Fits(req[c])

(* The payloads requests are packed in.                                    *)
Packed(d) == \E m : Fits(m) /\ d = packDiag(m)

(* The frames the target is sent.                                          *)
Heard == [ID : {LINDiagRequestID}, Data : asked, ChecksumType : {"classic"}]

(* What is registered on 0x3C and asked of the target is a packed request. *)
RequestInv ==
  /\ entry[LINDiagRequestID] # Vacant =>
       /\ Packed(entry[LINDiagRequestID].Data)
       /\ entry[LINDiagRequestID].ChecksumType = "classic"
  /\ \A d \in asked : Packed(d)
  /\ inbox \in Seq(Heard)

(* Where a payload on 0x3D comes from: an answer to what was asked, or     *)
(* another node.                                                           *)
Sourced(d) ==
  \/ \E x \in asked : unpackDiag(x) # ErrInvalidFrame /\ unpackDiag(d) = Reply(unpackDiag(x))
  \/ d \in Extra

(* The checksum of a payload on 0x3D is classic when the target registers  *)
(* with PublishFrame; another node's is any.                               *)
Summed(d, ct) ==
  /\ ct \in LINChecksumType
  /\ via = "PublishFrame" /\ d \notin Extra => ct = "classic"

(* What is registered on 0x3D fits, is sourced and has a checksum to match.*)
ResponseInv ==
  entry[LINDiagResponseID] # Vacant =>
    /\ entry[LINDiagResponseID].Data \in Seq(Byte)
    /\ Len(entry[LINDiagResponseID].Data) \in 1..LINMaxDataLen
    /\ Summed(entry[LINDiagResponseID].Data, entry[LINDiagResponseID].ChecksumType)
    /\ Sourced(entry[LINDiagResponseID].Data)

(* The frames on the wire.                                                 *)
WireFrame == [ID : {LINDiagRequestID, LINDiagResponseID}, Data : Seq(Byte),
              ChecksumType : LINChecksumType]

(* What each caller has broadcast in its call so far: nothing before its   *)
(* request, then a registered request, then one response.                  *)
WireOK(c) ==
  /\ wire[c] \in Seq(WireFrame)
  /\ Len(wire[c]) <= 2
  /\ wire[c] # <<>> => wire[c][1] \in put[c] /\ wire[c][1].ID = LINDiagRequestID
  /\ pc[c] \in {"publish", "request"} => wire[c] = <<>>
  /\ pc[c] = "response" => Len(wire[c]) = 1
  /\ pc[c] = "request" /\ entry[LINDiagRequestID] # Vacant => OnWire(LINDiagRequestID) \in put[c]

WireInv == \A c \in Caller : WireOK(c)

IInv == CallInv /\ RequestInv /\ ResponseInv /\ WireInv /\ AnswerIsReal /\ PackedIsValid

(* Where caller c goes, and where the others stay.                         *)
LEMMA Moves ==
  ASSUME CallInv, NEW c \in Caller, NEW label \in Labels, Goto(c, label)
  PROVE  /\ pc' \in [Caller -> Labels]
         /\ pc'[c] = label
         /\ \A d \in Caller : d # c => pc'[d] = pc[d]
  BY DEF CallInv, Goto

(* Registering e on one of the two identifiers.                            *)
LEMMA Registers ==
  ASSUME CallInv, NEW id \in {LINDiagRequestID, LINDiagResponseID}, NEW e, Register(id, e)
  PROVE  /\ DOMAIN entry' = DOMAIN entry
         /\ entry'[id] = e
         /\ \A j \in {LINDiagRequestID, LINDiagResponseID} : j # id => entry'[j] = entry[j]
  BY DEF CallInv, Register

(* A step of a caller past Begin either fails or does its work.            *)
LEMMA CallerMoves ==
  ASSUME CallInv, NEW c \in Caller, PublishRequest(c) \/ SendRequest(c) \/ SendResponse(c)
  PROVE  /\ pc' \in [Caller -> Labels]
         /\ pc'[c] \in {"idle", "request", "response"}
         /\ \A d \in Caller : d # c => pc'[d] = pc[d]
         /\ UNCHANGED req
<1>1. PICK label \in {"idle", "request", "response"} : Goto(c, label)
  BY DEF PublishRequest, SendRequest, SendResponse, Fail
<1>2. UNCHANGED req
  BY DEF PublishRequest, SendRequest, SendResponse
<1>3. label \in Labels
  BY DEF Labels
<1> QED  BY <1>1, <1>2, <1>3, Moves

(* Every step keeps a caller's place and request in order.                 *)
LEMMA CallStep == CallInv /\ [Next]_vars => CallInv'
<1> SUFFICES ASSUME CallInv, [Next]_vars PROVE CallInv'
  OBVIOUS
<1>1. ASSUME NEW c \in Caller, Begin(c) PROVE CallInv'
  <2>1. PICK m \in Requests :
          /\ req' = [req EXCEPT ![c] = m]
          /\ Goto(c, IF packDiag(m) = ErrInvalidFrame THEN "idle" ELSE "publish")
    BY <1>1 DEF Begin
  <2>2. PICK label : label = IF packDiag(m) = ErrInvalidFrame THEN "idle" ELSE "publish"
    OBVIOUS
  <2>3. label \in Labels /\ Goto(c, label)
    BY <2>1, <2>2 DEF Labels
  <2>4. /\ pc' \in [Caller -> Labels] /\ pc'[c] = label
        /\ \A d \in Caller : d # c => pc'[d] = pc[d]
    BY <2>3, Moves
  <2>5. label = "publish" => Fits(m)
    <3>1. m \in DiagMessage
      BY DiagnosticsAssumption
    <3>2. Len(m.Data) \in Nat
      BY <3>1 DEF DiagMessage
    <3>3. packDiag(m) # ErrInvalidFrame => Len(m.Data) <= DiagDataLen
      BY <3>2 DEF packDiag, DiagDataLen
    <3> QED  BY <2>2, <3>1, <3>3 DEF Fits
  <2>6. /\ req' \in [Caller -> Requests] /\ req'[c] = m
        /\ \A d \in Caller : d # c => req'[d] = req[d]
    BY <2>1 DEF CallInv
  <2>7. via' = via /\ entry' = entry /\ DOMAIN wire' = Caller /\ DOMAIN put' = Caller /\ DOMAIN answer' = Caller
    BY <1>1 DEF Begin, bus, CallInv
  <2>8. \A d \in Caller : pc'[d] = "publish" => Fits(req'[d])
    BY <2>4, <2>5, <2>6 DEF CallInv
  <2> QED  BY <2>4, <2>6, <2>7, <2>8 DEF CallInv
<1>2. ASSUME NEW c \in Caller, PublishRequest(c) \/ SendRequest(c) \/ SendResponse(c) PROVE CallInv'
  <2>1. /\ pc' \in [Caller -> Labels]
        /\ pc'[c] \in {"idle", "request", "response"}
        /\ \A d \in Caller : d # c => pc'[d] = pc[d]
        /\ UNCHANGED req
    BY <1>2, CallerMoves
  <2>2. DOMAIN entry' = DOMAIN entry
    BY <1>2 DEF PublishRequest, SendRequest, SendResponse, Fail, Register, CallInv
  <2>3. DOMAIN wire' = Caller
    BY <1>2 DEF PublishRequest, SendRequest, SendResponse, Fail, Ask, Broadcast, CallInv
  <2>4. DOMAIN put' = Caller
    BY <1>2 DEF PublishRequest, SendRequest, SendResponse, Fail, CallInv
  <2>5. DOMAIN answer' = Caller
    BY <1>2 DEF PublishRequest, SendRequest, SendResponse, Fail, CallInv
  <2>6. \A d \in Caller : pc'[d] = "publish" => Fits(req'[d])
    BY <2>1 DEF CallInv
  <2>7. via' = via
    BY <1>2 DEF PublishRequest, SendRequest, SendResponse
  <2> QED  BY <2>1, <2>2, <2>3, <2>4, <2>5, <2>6, <2>7 DEF CallInv
<1>3. CASE /\ UNCHANGED <<via, pc, req, wire, put, answer>>
           /\ DOMAIN entry' = DOMAIN entry
  BY <1>3 DEF CallInv
<1>4. CASE Answer
  BY <1>3, <1>4 DEF Answer, Register, client
<1>5. CASE Interfere
  BY <1>3, <1>5 DEF Interfere, Register, client
<1>6. CASE CloseBus \/ UNCHANGED vars
  BY <1>3, <1>6 DEF CloseBus, client, vars, bus
<1> QED  BY <1>1, <1>2, <1>4, <1>5, <1>6 DEF Next, Finished

-----------------------------------------------------------------------------
(* What is asked only grows, and with it what the target may hear.         *)
LEMMA HeardGrows ==
  ASSUME asked \subseteq asked', inbox \in Seq(Heard)
  PROVE  inbox \in Seq(Heard')
<1>1. Heard \subseteq Heard'
  BY DEF Heard
<1>2. \A S, T : S \subseteq T => Seq(S) \subseteq Seq(T)
  OBVIOUS
<1> QED  BY <1>1, <1>2

(* The requests on the bus and in the target's channel stay packed ones.   *)
LEMMA RequestStep == CallInv /\ RequestInv /\ [Next]_vars => RequestInv'
<1> SUFFICES ASSUME CallInv, RequestInv, [Next]_vars PROVE RequestInv'
  OBVIOUS
<1>1. ASSUME NEW c \in Caller, PublishRequest(c) PROVE RequestInv'
  <2>1. CASE Fail(c)
    BY <2>1 DEF Fail, RequestInv, Heard
  <2>2. CASE ~Fail(c)
    <3>1. PICK e : e = Raw(packDiag(req[c]), "classic")
      OBVIOUS
    <3>2. Register(LINDiagRequestID, e) /\ UNCHANGED <<inbox, asked>>
      BY <1>1, <2>2, <3>1 DEF PublishRequest, ToFrame
    <3>3. entry'[LINDiagRequestID] = e
      BY <3>2, Registers
    <3>4. Packed(e.Data) /\ e.ChecksumType = "classic"
      BY <1>1, <3>1 DEF CallInv, PublishRequest, Packed, Raw
    <3> QED  BY <3>2, <3>3, <3>4 DEF RequestInv, Heard
  <2> QED  BY <2>1, <2>2
<1>2. ASSUME NEW c \in Caller, SendRequest(c) PROVE RequestInv'
  <2>1. CASE Fail(c)
    BY <2>1 DEF Fail, RequestInv, Heard
  <2>2. CASE ~Fail(c)
    <3>1. CanSend(LINDiagRequestID) /\ Ask(c) /\ UNCHANGED entry
      BY <1>2, <2>2 DEF SendRequest
    <3>2. PICK d : d = entry[LINDiagRequestID].Data
      OBVIOUS
    <3>3. Packed(d) /\ entry[LINDiagRequestID].ChecksumType = "classic"
      BY <3>1, <3>2 DEF CanSend, RequestInv
    <3>4. asked' = asked \cup {d}
      BY <3>1, <3>2 DEF Ask
    <3>5. inbox \in Seq(Heard')
      BY <3>4, HeardGrows DEF RequestInv
    <3>6. OnWire(LINDiagRequestID) \in Heard'
      BY <3>2, <3>3, <3>4 DEF OnWire, Heard
    <3>7. inbox' \in Seq(Heard')
      BY <3>1, <3>5, <3>6 DEF Ask
    <3> QED  BY <3>1, <3>3, <3>4, <3>7 DEF RequestInv
  <2> QED  BY <2>1, <2>2
<1>3. ASSUME NEW c \in Caller, Begin(c) \/ SendResponse(c) PROVE RequestInv'
  <2>1. UNCHANGED <<entry, inbox, asked>>
    BY <1>3 DEF Begin, bus, SendResponse, Fail
  <2> QED  BY <2>1 DEF RequestInv, Heard
<1>4. CASE Answer
  <2>1. UNCHANGED asked /\ inbox # <<>> /\ inbox' = Tail(inbox)
    BY <1>4 DEF Answer
  <2>2. entry'[LINDiagRequestID] = entry[LINDiagRequestID]
    BY <1>4 DEF Answer, Register, CallInv, LINDiagRequestID, LINDiagResponseID
  <2>3. inbox' \in Seq(Heard)
    BY <2>1 DEF RequestInv
  <2> QED  BY <2>1, <2>2, <2>3 DEF RequestInv, Heard
<1>5. CASE Interfere
  <2>1. UNCHANGED <<asked, inbox>>
    BY <1>5 DEF Interfere
  <2>2. entry'[LINDiagRequestID] \in {entry[LINDiagRequestID], Vacant}
    BY <1>5 DEF Interfere, Register, CallInv, LINDiagRequestID, LINDiagResponseID
  <2> QED  BY <2>1, <2>2 DEF RequestInv, Heard
<1>6. CASE CloseBus \/ UNCHANGED vars
  BY <1>6 DEF CloseBus, vars, bus, RequestInv, Heard
<1> QED  BY <1>1, <1>2, <1>3, <1>4, <1>5, <1>6 DEF Next, Finished

-----------------------------------------------------------------------------
(* What has a source keeps it.                                             *)
LEMMA SourcedStays ==
  ASSUME NEW d, Sourced(d), asked \subseteq asked'
  PROVE  Sourced(d)'
  BY DEF Sourced

(* The target's reply to a message that fits fits.                         *)
LEMMA ReplyFits ==
  ASSUME NEW m, Fits(m)
  PROVE  Fits(Reply(m))
<1>1. m \in DiagMessage /\ m.SID \in 0..255
  BY DEF Fits, DiagMessage, Byte
<1>2. (m.SID + 64) % 256 \in 0..255
  BY <1>1
<1>3. PICK s \in Byte : s = (m.SID + 64) % 256
  BY <1>2 DEF Byte
<1>4. Reply(m) = [m EXCEPT !.SID = s]
  BY <1>3 DEF Reply
<1>5. [m EXCEPT !.SID = s] \in DiagMessage /\ [m EXCEPT !.SID = s].Data = m.Data
  BY <1>1 DEF DiagMessage
<1> QED  BY <1>4, <1>5 DEF Fits

(* A response registered by the target answers a request it was asked.     *)
LEMMA ResponseStep == CallInv /\ RequestInv /\ ResponseInv /\ [Next]_vars => ResponseInv'
<1> SUFFICES ASSUME CallInv, RequestInv, ResponseInv, [Next]_vars PROVE ResponseInv'
  OBVIOUS
<1>1. ASSUME entry'[LINDiagResponseID] \in {entry[LINDiagResponseID], Vacant},
             asked \subseteq asked', via' = via
      PROVE  ResponseInv'
  <2>1. CASE entry'[LINDiagResponseID] = Vacant
    BY <2>1 DEF ResponseInv
  <2>2. CASE entry'[LINDiagResponseID] = entry[LINDiagResponseID] /\ entry[LINDiagResponseID] # Vacant
    <3>1. PICK d : d = entry[LINDiagResponseID].Data
      OBVIOUS
    <3>2. Sourced(d)'
      BY <1>1, <2>2, <3>1, SourcedStays DEF ResponseInv
    <3>3. Sourced(entry[LINDiagResponseID].Data)'
      BY <2>2, <3>1, <3>2 DEF Sourced
    <3> QED  BY <1>1, <2>2, <3>3 DEF ResponseInv, Summed
  <2> QED  BY <1>1, <2>1, <2>2
<1>2. ASSUME NEW c \in Caller, Begin(c) \/ PublishRequest(c) \/ SendRequest(c) \/ SendResponse(c)
      PROVE  ResponseInv'
  <2>1. via' = via
    BY <1>2 DEF Begin, bus, PublishRequest, SendRequest, SendResponse
  <2>2. asked \subseteq asked'
    BY <1>2 DEF Begin, PublishRequest, SendRequest, SendResponse, Fail, Ask
  <2>3. entry'[LINDiagResponseID] = entry[LINDiagResponseID]
    BY <1>2 DEF Begin, bus, PublishRequest, SendRequest, SendResponse, Fail, Register, CallInv,
                LINDiagRequestID, LINDiagResponseID
  <2> QED  BY <1>1, <2>1, <2>2, <2>3
<1>3. CASE Answer
  <2>1. via' = via /\ asked' = asked /\ inbox # <<>>
    BY <1>3 DEF Answer
  <2>2. PICK x : x = Head(inbox).Data
    OBVIOUS
  <2>3. PICK m : m = unpackDiag(x)
    OBVIOUS
  <2>4. CASE m = ErrInvalidFrame \/ busClosed
    <3>1. entry' = entry
      BY <1>3, <2>2, <2>3, <2>4 DEF Answer
    <3> QED  BY <1>1, <2>1, <3>1
  <2>5. CASE ~(m = ErrInvalidFrame \/ busClosed)
    <3>1. x \in asked /\ Packed(x)
      <4>1. Head(inbox) \in Heard
        BY <2>1 DEF RequestInv
      <4> QED  BY <2>2, <4>1 DEF RequestInv, Heard
    <3>2. Fits(m)
      BY <2>3, <3>1, PackThenUnpack DEF Packed
    <3>3. PICK r : r = Reply(m)
      OBVIOUS
    <3>4. /\ packDiag(r) \in Seq(Byte) /\ Len(packDiag(r)) = 8
          /\ unpackDiag(packDiag(r)) = r
      BY <3>2, <3>3, ReplyFits, PackedBytes, PackThenUnpack
    <3>5. PICK ct : ct = IF via = "PublishFrame" THEN "classic" ELSE "enhanced"
      OBVIOUS
    <3>6. PICK e : e = Raw(packDiag(r), ct)
      OBVIOUS
    <3>7. Register(LINDiagResponseID, e)
      BY <1>3, <2>2, <2>3, <2>5, <3>3, <3>5, <3>6 DEF Answer, ToFrame
    <3>8. entry'[LINDiagResponseID] = e /\ e.Data = packDiag(r) /\ e.ChecksumType = ct
      BY <3>6, <3>7, Registers DEF Raw
    <3>9. Sourced(e.Data)'
      BY <2>1, <2>3, <2>5, <3>1, <3>3, <3>4, <3>8 DEF Sourced
    <3>10. Summed(entry[LINDiagResponseID].Data, entry[LINDiagResponseID].ChecksumType)'
      BY <2>1, <3>5, <3>8 DEF Summed, LINChecksumType
    <3>11. Sourced(entry[LINDiagResponseID].Data)'
      BY <3>8, <3>9 DEF Sourced
    <3> QED  BY <2>1, <3>4, <3>8, <3>10, <3>11 DEF ResponseInv, LINMaxDataLen
  <2> QED  BY <2>4, <2>5
<1>4. CASE Interfere
  <2>1. via' = via /\ asked' = asked
    BY <1>4 DEF Interfere
  <2>2. CASE \E d \in Extra, ct \in LINChecksumType : Register(LINDiagResponseID, Raw(d, ct))
    <3>1. PICK d \in Extra, ct \in LINChecksumType : Register(LINDiagResponseID, Raw(d, ct))
      BY <2>2
    <3>2. PICK e : e = Raw(d, ct)
      OBVIOUS
    <3>3. entry'[LINDiagResponseID] = e /\ e.Data = d /\ e.ChecksumType = ct
      BY <3>1, <3>2, Registers DEF Raw
    <3>4. d \in Seq(Byte) /\ Len(d) \in 1..LINMaxDataLen
      BY DiagnosticsAssumption
    <3>5. Sourced(entry[LINDiagResponseID].Data)'
      BY <3>3 DEF Sourced
    <3>6. Summed(entry[LINDiagResponseID].Data, entry[LINDiagResponseID].ChecksumType)'
      BY <3>3 DEF Summed
    <3> QED  BY <3>3, <3>4, <3>5, <3>6 DEF ResponseInv
  <2>3. CASE \E id \in DOMAIN entry : Register(id, Vacant)
    <3>1. entry'[LINDiagResponseID] \in {entry[LINDiagResponseID], Vacant}
      BY <2>3 DEF Register, CallInv, LINDiagRequestID, LINDiagResponseID
    <3> QED  BY <1>1, <2>1, <3>1
  <2> QED  BY <1>4, <2>2, <2>3 DEF Interfere
<1>5. CASE CloseBus \/ UNCHANGED vars
  BY <1>1, <1>5 DEF CloseBus, vars, bus
<1> QED  BY <1>2, <1>3, <1>4, <1>5 DEF Next, Finished

-----------------------------------------------------------------------------
(* What a caller has on the wire stands while others work: they only add   *)
(* to what was put, and put a request of their own in its place or none.   *)
LEMMA WireStands ==
  ASSUME NEW d \in Caller, WireOK(d), wire'[d] = wire[d], put[d] \subseteq put'[d],
         \/ pc'[d] = pc[d]
         \/ pc'[d] = "idle",
         \/ entry'[LINDiagRequestID] \in {entry[LINDiagRequestID], Vacant}
         \/ pc'[d] = "request" => OnWire(LINDiagRequestID)' \in put'[d]
  PROVE  WireOK(d)'
<1>1. entry'[LINDiagRequestID] = entry[LINDiagRequestID]
        => OnWire(LINDiagRequestID)' = OnWire(LINDiagRequestID)
  BY DEF OnWire
<1> QED  BY <1>1 DEF WireOK, WireFrame

(* The frame SendHeader makes of each registration.                        *)
LEMMA RequestFrame ==
  ASSUME RequestInv, entry[LINDiagRequestID] # Vacant
  PROVE  /\ OnWire(LINDiagRequestID) \in WireFrame
         /\ OnWire(LINDiagRequestID).ID = LINDiagRequestID
         /\ ValidateFrame(OnWire(LINDiagRequestID))
<1>1. PICK d : d = entry[LINDiagRequestID].Data
  OBVIOUS
<1>2. Packed(d) /\ entry[LINDiagRequestID].ChecksumType = "classic"
  BY <1>1 DEF RequestInv
<1>3. d \in Seq(Byte) /\ Len(d) = 8
  BY <1>2, PackedBytes DEF Packed
<1>4. OnWire(LINDiagRequestID) = [ID |-> LINDiagRequestID, Data |-> d, ChecksumType |-> "classic"]
  BY <1>1, <1>2 DEF OnWire
<1> QED  BY <1>3, <1>4 DEF WireFrame, LINChecksumType, ValidateFrame, LINDiagRequestID, LINMaxID,
                     LINMaxDataLen

(* What PackedIsValid says of one frame.                                   *)
Proper(f) ==
  (f.ID = LINDiagRequestID \/ (via = "PublishFrame" /\ f.Data \notin Extra)) => ValidateFrame(f)

(* The frame of a registered response is one the bus can put on the wire.  *)
LEMMA ResponseFrame ==
  ASSUME ResponseInv, entry[LINDiagResponseID] # Vacant
  PROVE  /\ OnWire(LINDiagResponseID) \in WireFrame
         /\ Proper(OnWire(LINDiagResponseID))
<1>1. PICK d, ct : d = entry[LINDiagResponseID].Data /\ ct = entry[LINDiagResponseID].ChecksumType
  OBVIOUS
<1>2. d \in Seq(Byte) /\ Len(d) \in 1..LINMaxDataLen /\ Summed(d, ct)
  BY <1>1 DEF ResponseInv
<1>3. PICK f : f = [ID |-> LINDiagResponseID, Data |-> d, ChecksumType |-> ct]
  OBVIOUS
<1>4. OnWire(LINDiagResponseID) = f
  BY <1>1, <1>3 DEF OnWire
<1>5. f \in WireFrame
  BY <1>2, <1>3 DEF WireFrame, Summed
<1>6. ct = "classic" => ValidateFrame(f)
  BY <1>2, <1>3 DEF ValidateFrame, LINDiagRequestID, LINDiagResponseID, LINMaxID
<1>7. f.ID # LINDiagRequestID /\ f.Data = d
  BY <1>3 DEF LINDiagRequestID, LINDiagResponseID
<1>8. Proper(f)
  BY <1>2, <1>6, <1>7 DEF Proper, Summed
<1> QED  BY <1>4, <1>5, <1>8

(* What a broadcast adds to the wire of a caller.                          *)
LEMMA Adds ==
  ASSUME CallInv, WireInv, NEW c \in Caller, NEW f \in WireFrame,
         wire' = [wire EXCEPT ![c] = Append(@, f)]
  PROVE  /\ wire'[c] \in Seq(WireFrame)
         /\ Len(wire'[c]) = Len(wire[c]) + 1
         /\ wire'[c][Len(wire[c]) + 1] = f
         /\ \A i \in DOMAIN wire[c] : wire'[c][i] = wire[c][i]
         /\ DOMAIN wire'[c] = DOMAIN wire[c] \cup {Len(wire[c]) + 1}
         /\ \A d \in Caller : d # c => wire'[d] = wire[d]
<1>1. PICK w \in Seq(WireFrame) : w = wire[c]
  BY DEF WireInv, WireOK
<1>2. wire'[c] = Append(w, f) /\ \A d \in Caller : d # c => wire'[d] = wire[d]
  BY <1>1 DEF CallInv
<1> HIDE DEF WireFrame
<1>3. /\ Append(w, f) \in Seq(WireFrame) /\ Len(Append(w, f)) = Len(w) + 1
      /\ Append(w, f)[Len(w) + 1] = f
      /\ \A i \in DOMAIN w : Append(w, f)[i] = w[i]
      /\ DOMAIN Append(w, f) = DOMAIN w \cup {Len(w) + 1}
  OBVIOUS
<1> QED  BY <1>1, <1>2, <1>3

(* Each caller's frames stay in order, its own request or a later one      *)
(* before the response.                                                    *)
LEMMA WireStep ==
  CallInv /\ RequestInv /\ ResponseInv /\ WireInv /\ [Next]_vars => WireInv'
<1> SUFFICES ASSUME CallInv, RequestInv, ResponseInv, WireInv, [Next]_vars PROVE WireInv'
  OBVIOUS
<1>1. \A d \in Caller : WireOK(d)
  BY DEF WireInv
<1>2. ASSUME NEW c \in Caller, Begin(c) PROVE WireInv'
  <2>1. /\ wire'[c] = <<>> /\ pc'[c] \in {"idle", "publish"} /\ entry' = entry
        /\ \A d \in Caller : d # c => wire'[d] = wire[d] /\ put'[d] = put[d] /\ pc'[d] = pc[d]
    BY <1>2 DEF Begin, Goto, bus, CallInv
  <2>2. WireOK(c)'
    BY <2>1 DEF WireOK
  <2>3. ASSUME NEW d \in Caller, d # c PROVE WireOK(d)'
    BY <1>1, <2>1, <2>3, WireStands
  <2> QED  BY <2>2, <2>3 DEF WireInv
<1>3. ASSUME NEW c \in Caller, PublishRequest(c) PROVE WireInv'
  <2>1. pc[c] = "publish" /\ wire[c] = <<>>
    BY <1>3 DEF PublishRequest, WireInv, WireOK
  <2>2. CASE Fail(c)
    <3>1. UNCHANGED <<wire, put, entry>> /\ pc'[c] = "idle" /\ \A d \in Caller : d # c => pc'[d] = pc[d]
      BY <2>2 DEF Fail, Goto, CallInv
    <3> QED  BY <1>1, <3>1, WireStands DEF WireInv
  <2>3. CASE ~Fail(c)
    <3>1. PICK f : f = ToFrame(LINDiagRequestID, req[c])
      OBVIOUS
    <3>2. PICK e : e = Raw(f.Data, f.ChecksumType)
      OBVIOUS
    <3>3. /\ Register(LINDiagRequestID, e)
          /\ put' = [d \in Caller |-> IF d = c \/ pc[d] = "request" THEN put[d] \cup {f} ELSE put[d]]
          /\ Goto(c, "request") /\ UNCHANGED wire
      BY <1>3, <2>3, <3>1, <3>2 DEF PublishRequest
    <3>4. pc'[c] = "request" /\ \A d \in Caller : d # c => pc'[d] = pc[d]
      BY <3>3 DEF Goto, CallInv
    <3>5. entry'[LINDiagRequestID] = e
      BY <3>3, Registers
    <3>6. OnWire(LINDiagRequestID)' = f
      <4>1. f = [ID |-> LINDiagRequestID, Data |-> f.Data, ChecksumType |-> f.ChecksumType]
        BY <3>1 DEF ToFrame
      <4>2. e.Data = f.Data /\ e.ChecksumType = f.ChecksumType
        BY <3>2 DEF Raw
      <4> QED  BY <3>5, <4>1, <4>2 DEF OnWire
    <3>7. ASSUME NEW d \in Caller
          PROVE  put[d] \subseteq put'[d] /\ (pc'[d] = "request" => OnWire(LINDiagRequestID)' \in put'[d])
      BY <3>3, <3>4, <3>6
    <3>8. WireOK(c)'
      <4>1. <<>> \in Seq(WireFrame) /\ Len(<<>>) <= 2
        OBVIOUS
      <4>2. wire'[c] = <<>>
        BY <2>1, <3>3
      <4> QED  BY <4>1, <4>2, <3>4, <3>7 DEF WireOK, WireFrame
    <3>9. ASSUME NEW d \in Caller, d # c PROVE WireOK(d)'
      BY <1>1, <3>3, <3>4, <3>7, <3>9, WireStands
    <3> QED  BY <3>8, <3>9 DEF WireInv
  <2> QED  BY <2>2, <2>3
<1>4. ASSUME NEW c \in Caller, SendRequest(c) PROVE WireInv'
  <2>1. pc[c] = "request" /\ wire[c] = <<>>
    BY <1>4 DEF SendRequest, WireInv, WireOK
  <2>2. CASE Fail(c)
    <3>1. UNCHANGED <<wire, put, entry>> /\ pc'[c] = "idle" /\ \A d \in Caller : d # c => pc'[d] = pc[d]
      BY <2>2 DEF Fail, Goto, CallInv
    <3> QED  BY <1>1, <3>1, WireStands DEF WireInv
  <2>3. CASE ~Fail(c)
    <3>1. /\ CanSend(LINDiagRequestID) /\ Broadcast(c, LINDiagRequestID)
          /\ Goto(c, "response") /\ UNCHANGED <<entry, put>>
      BY <1>4, <2>3 DEF SendRequest, Ask
    <3>2. PICK f : f = OnWire(LINDiagRequestID)
      OBVIOUS
    <3>3. f \in WireFrame /\ f.ID = LINDiagRequestID /\ f \in put[c]
      BY <2>1, <3>1, <3>2, RequestFrame DEF CanSend, WireInv, WireOK
    <3>4. wire' = [wire EXCEPT ![c] = Append(@, f)]
      BY <3>1, <3>2 DEF Broadcast
    <3>5. /\ wire'[c] \in Seq(WireFrame) /\ Len(wire'[c]) = Len(wire[c]) + 1
          /\ wire'[c][Len(wire[c]) + 1] = f
          /\ \A d \in Caller : d # c => wire'[d] = wire[d]
      BY <3>3, <3>4, Adds
    <3>6. Len(wire'[c]) = 1 /\ wire'[c][1] = f
      BY <2>1, <3>5
    <3>7. pc'[c] = "response" /\ \A d \in Caller : d # c => pc'[d] = pc[d]
      BY <3>1 DEF Goto, CallInv
    <3>8. WireOK(c)'
      BY <3>1, <3>3, <3>5, <3>6, <3>7 DEF WireOK, WireFrame
    <3>9. ASSUME NEW d \in Caller, d # c PROVE WireOK(d)'
      BY <1>1, <3>1, <3>5, <3>7, <3>9, WireStands
    <3> QED  BY <3>8, <3>9 DEF WireInv
  <2> QED  BY <2>2, <2>3
<1>5. ASSUME NEW c \in Caller, SendResponse(c) PROVE WireInv'
  <2>1. pc[c] = "response" /\ wire[c] \in Seq(WireFrame) /\ Len(wire[c]) = 1
    BY <1>5 DEF SendResponse, WireInv, WireOK
  <2>2. CASE Fail(c)
    <3>1. UNCHANGED <<wire, put, entry>> /\ pc'[c] = "idle" /\ \A d \in Caller : d # c => pc'[d] = pc[d]
      BY <2>2 DEF Fail, Goto, CallInv
    <3> QED  BY <1>1, <3>1, WireStands DEF WireInv
  <2>3. CASE ~Fail(c)
    <3>1. /\ CanSend(LINDiagResponseID) /\ Broadcast(c, LINDiagResponseID)
          /\ Goto(c, "idle") /\ UNCHANGED <<entry, put>>
      BY <1>5, <2>3 DEF SendResponse
    <3>2. PICK f : f = OnWire(LINDiagResponseID)
      OBVIOUS
    <3>3. f \in WireFrame
      BY <3>1, <3>2, ResponseFrame DEF CanSend
    <3>4. wire' = [wire EXCEPT ![c] = Append(@, f)]
      BY <3>1, <3>2 DEF Broadcast
    <3>5. /\ wire'[c] \in Seq(WireFrame) /\ Len(wire'[c]) = Len(wire[c]) + 1
          /\ \A i \in DOMAIN wire[c] : wire'[c][i] = wire[c][i]
          /\ \A d \in Caller : d # c => wire'[d] = wire[d]
      BY <3>3, <3>4, Adds
    <3>6. wire[c] # <<>> /\ 1 \in DOMAIN wire[c]
      BY <2>1
    <3>7. Len(wire'[c]) = 2 /\ wire'[c][1] = wire[c][1]
      BY <2>1, <3>5, <3>6
    <3>8. pc'[c] = "idle" /\ \A d \in Caller : d # c => pc'[d] = pc[d]
      BY <3>1 DEF Goto, CallInv
    <3>9. wire'[c][1] \in put'[c] /\ wire'[c][1].ID = LINDiagRequestID
      BY <1>1, <3>1, <3>6, <3>7 DEF WireOK
    <3>10. WireOK(c)'
      <4>1. Len(wire'[c]) <= 2
        BY <3>7
      <4> QED  BY <3>5, <3>8, <3>9, <4>1 DEF WireOK, WireFrame
    <3>11. ASSUME NEW d \in Caller, d # c PROVE WireOK(d)'
      BY <1>1, <3>1, <3>5, <3>8, <3>11, WireStands
    <3> QED  BY <3>10, <3>11 DEF WireInv
  <2> QED  BY <2>2, <2>3
<1>6. ASSUME UNCHANGED <<wire, put, pc>>,
             entry'[LINDiagRequestID] \in {entry[LINDiagRequestID], Vacant}
      PROVE  WireInv'
  BY <1>1, <1>6, WireStands DEF WireInv
<1>7. CASE Answer
  <2>1. entry'[LINDiagRequestID] = entry[LINDiagRequestID]
    BY <1>7 DEF Answer, Register, CallInv, LINDiagRequestID, LINDiagResponseID
  <2> QED  BY <1>6, <1>7, <2>1 DEF Answer, client
<1>8. CASE Interfere
  <2>1. entry'[LINDiagRequestID] \in {entry[LINDiagRequestID], Vacant}
    BY <1>8 DEF Interfere, Register, CallInv, LINDiagRequestID, LINDiagResponseID
  <2> QED  BY <1>6, <1>8, <2>1 DEF Interfere, client
<1>9. CASE CloseBus \/ UNCHANGED vars
  BY <1>6, <1>9 DEF CloseBus, vars, bus, client
<1> QED  BY <1>2, <1>3, <1>4, <1>5, <1>7, <1>8, <1>9 DEF Next, Finished

-----------------------------------------------------------------------------
(* Where a message that Diagnostics returns comes from.                    *)
Real(m) ==
  \/ \E d \in asked : unpackDiag(d) # ErrInvalidFrame /\ m = Reply(unpackDiag(d))
  \/ \E d \in Extra : m = unpackDiag(d)

(* An answer is read from what is registered, and keeps its source.        *)
LEMMA AnswerStep ==
  CallInv /\ ResponseInv /\ AnswerIsReal /\ [Next]_vars => AnswerIsReal'
<1> SUFFICES ASSUME CallInv, ResponseInv, AnswerIsReal, [Next]_vars PROVE AnswerIsReal'
  OBVIOUS
<1>1. ASSUME UNCHANGED answer, asked \subseteq asked' PROVE AnswerIsReal'
  BY <1>1 DEF AnswerIsReal
<1>2. ASSUME NEW c \in Caller, Begin(c) PROVE AnswerIsReal'
  <2>1. UNCHANGED asked /\ answer'[c] = <<>> /\ \A d \in Caller : d # c => answer'[d] = answer[d]
    BY <1>2 DEF Begin, CallInv
  <2> QED  BY <2>1 DEF AnswerIsReal
<1>3. ASSUME NEW c \in Caller, PublishRequest(c) \/ SendRequest(c) PROVE AnswerIsReal'
  <2>1. UNCHANGED answer
    BY <1>3 DEF PublishRequest, SendRequest, Fail
  <2>2. asked \subseteq asked'
    BY <1>3 DEF PublishRequest, SendRequest, Fail, Ask
  <2> QED  BY <1>1, <2>1, <2>2
<1>4. ASSUME NEW c \in Caller, SendResponse(c) PROVE AnswerIsReal'
  <2>1. CASE Fail(c)
    BY <1>1, <2>1 DEF Fail
  <2>2. CASE ~Fail(c)
    <3>1. PICK d : d = entry[LINDiagResponseID].Data
      OBVIOUS
    <3>2. PICK m : m = unpackDiag(d)
      OBVIOUS
    <3>3. Sourced(d) /\ UNCHANGED asked
      BY <1>4, <2>2, <3>1 DEF SendResponse, CanSend, ResponseInv
    <3>4. Real(m)
      BY <3>2, <3>3 DEF Sourced, Real
    <3>5. answer' = [answer EXCEPT ![c] = IF m = ErrInvalidFrame THEN <<>> ELSE <<m>>]
      BY <1>4, <2>2, <3>1, <3>2 DEF SendResponse
    <3>6. /\ answer'[c] = IF m = ErrInvalidFrame THEN <<>> ELSE <<m>>
          /\ \A e \in Caller : e # c => answer'[e] = answer[e]
      BY <3>5 DEF CallInv
    <3>7. \A i \in DOMAIN answer'[c] : answer'[c][i] = m
      BY <3>6
    <3>8. \A e \in Caller : \A i \in DOMAIN answer'[e] : Real(answer'[e][i])
      BY <3>4, <3>6, <3>7 DEF AnswerIsReal, Real
    <3> QED  BY <3>3, <3>8 DEF AnswerIsReal, Real
  <2> QED  BY <2>1, <2>2
<1>5. CASE Answer \/ Interfere \/ CloseBus \/ UNCHANGED vars
  BY <1>1, <1>5 DEF Answer, Interfere, CloseBus, vars, client
<1> QED  BY <1>2, <1>3, <1>4, <1>5 DEF Next, Finished

(* The broadcasts of a call carry frames that ValidateFrame accepts, but   *)
(* for what came from elsewhere.                                           *)
LEMMA ValidStep ==
  CallInv /\ RequestInv /\ ResponseInv /\ WireInv /\ PackedIsValid /\ [Next]_vars => PackedIsValid'
<1> SUFFICES ASSUME CallInv, RequestInv, ResponseInv, WireInv, PackedIsValid, [Next]_vars
             PROVE  PackedIsValid'
  OBVIOUS
<1>1. \A c \in Caller : \A i \in DOMAIN wire[c] : Proper(wire[c][i])
  BY DEF PackedIsValid, Proper
<1>2. via' = via
  BY DEF Next, Begin, PublishRequest, SendRequest, SendResponse, Answer, Interfere, CloseBus,
         Finished, vars, bus
<1>3. SUFFICES \A c \in Caller : \A i \in DOMAIN wire'[c] : Proper(wire'[c][i])
  BY <1>2 DEF PackedIsValid, Proper, ValidateFrame
<1>4. CASE UNCHANGED wire
  BY <1>1, <1>4
<1>5. ASSUME NEW c \in Caller, Begin(c)
      PROVE  \A d \in Caller : \A i \in DOMAIN wire'[d] : Proper(wire'[d][i])
  <2>1. wire'[c] = <<>> /\ \A d \in Caller : d # c => wire'[d] = wire[d]
    BY <1>5 DEF Begin, CallInv
  <2> QED  BY <1>1, <2>1
<1>6. ASSUME NEW c \in Caller, NEW f \in WireFrame, wire' = [wire EXCEPT ![c] = Append(@, f)],
             Proper(f)
      PROVE  \A d \in Caller : \A i \in DOMAIN wire'[d] : Proper(wire'[d][i])
  <2>1. /\ wire'[c][Len(wire[c]) + 1] = f
        /\ \A i \in DOMAIN wire[c] : wire'[c][i] = wire[c][i]
        /\ DOMAIN wire'[c] = DOMAIN wire[c] \cup {Len(wire[c]) + 1}
        /\ \A d \in Caller : d # c => wire'[d] = wire[d]
    BY <1>6, Adds
  <2>2. \A i \in DOMAIN wire'[c] : Proper(wire'[c][i])
    BY <1>1, <1>6, <2>1
  <2> QED  BY <1>1, <2>1, <2>2
<1>7. ASSUME NEW c \in Caller, SendRequest(c)
      PROVE  \A d \in Caller : \A i \in DOMAIN wire'[d] : Proper(wire'[d][i])
  <2>1. CASE Fail(c)
    BY <1>4, <2>1 DEF Fail
  <2>2. CASE ~Fail(c)
    <3>1. CanSend(LINDiagRequestID) /\ Broadcast(c, LINDiagRequestID)
      BY <1>7, <2>2 DEF SendRequest, Ask
    <3>2. PICK f : f = OnWire(LINDiagRequestID)
      OBVIOUS
    <3>3. f \in WireFrame /\ Proper(f)
      BY <3>1, <3>2, RequestFrame DEF CanSend, Proper
    <3> QED  BY <1>6, <3>1, <3>2, <3>3 DEF Broadcast
  <2> QED  BY <2>1, <2>2
<1>8. ASSUME NEW c \in Caller, SendResponse(c)
      PROVE  \A d \in Caller : \A i \in DOMAIN wire'[d] : Proper(wire'[d][i])
  <2>1. CASE Fail(c)
    BY <1>4, <2>1 DEF Fail
  <2>2. CASE ~Fail(c)
    <3>1. CanSend(LINDiagResponseID) /\ Broadcast(c, LINDiagResponseID)
      BY <1>8, <2>2 DEF SendResponse
    <3>2. PICK f : f = OnWire(LINDiagResponseID)
      OBVIOUS
    <3>3. f \in WireFrame /\ Proper(f)
      BY <3>1, <3>2, ResponseFrame DEF CanSend
    <3> QED  BY <1>6, <3>1, <3>2, <3>3 DEF Broadcast
  <2> QED  BY <2>1, <2>2
<1>9. ASSUME NEW c \in Caller, PublishRequest(c) PROVE UNCHANGED wire
  BY <1>9 DEF PublishRequest, Fail
<1>10. CASE Answer \/ Interfere \/ CloseBus \/ UNCHANGED vars
  BY <1>4, <1>10 DEF Answer, Interfere, CloseBus, vars
<1> QED  BY <1>4, <1>5, <1>7, <1>8, <1>9, <1>10 DEF Next, Finished

-----------------------------------------------------------------------------
(* The invariant holds initially and every step preserves it.              *)
LEMMA Invariance == Spec => []IInv
<1>1. Init => IInv
  <2> SUFFICES ASSUME Init PROVE IInv
    OBVIOUS
  <2>1. \A c \in Caller : pc[c] = "idle" /\ wire[c] = <<>> /\ answer[c] = <<>>
    BY DEF Init
  <2>2. entry[LINDiagRequestID] = Vacant /\ entry[LINDiagResponseID] = Vacant
    BY DEF Init
  <2>3. CallInv
    BY DEF Init, CallInv, Labels
  <2>4. RequestInv
    BY <2>2 DEF Init, RequestInv
  <2>5. ResponseInv
    BY <2>2 DEF ResponseInv
  <2>6. WireInv
    <3>1. <<>> \in Seq(WireFrame) /\ Len(<<>>) <= 2
      OBVIOUS
    <3> QED  BY <2>1, <3>1 DEF WireInv, WireOK
  <2>7. AnswerIsReal /\ PackedIsValid
    BY <2>1 DEF AnswerIsReal, PackedIsValid
  <2> QED  BY <2>3, <2>4, <2>5, <2>6, <2>7 DEF IInv
<1>2. IInv /\ [Next]_vars => IInv'
  BY CallStep, RequestStep, ResponseStep, WireStep, AnswerStep, ValidStep DEF IInv
<1> QED  BY <1>1, <1>2, PTL DEF Spec

(* A caller sends one response header, after a request header of its own   *)
(* that carried a request registered since it registered its own, whatever *)
(* else is registered, withdrawn or closed between its three bus calls     *)
(* (REQ-MASTER-014).                                                       *)
THEOREM RequestBeforeResponse == Spec => []AskedFirst
<1>1. IInv => AskedFirst
  <2> SUFFICES ASSUME IInv, NEW c \in Caller, NEW i \in DOMAIN wire[c],
                      wire[c][i].ID = LINDiagResponseID
               PROVE  i = 2 /\ wire[c][1] \in put[c]
    BY DEF AskedFirst
  <2>1. WireOK(c)
    BY DEF IInv, WireInv
  <2>2. wire[c] # <<>> /\ i \in 1..2
    BY <2>1 DEF WireOK
  <2>3. wire[c][1] \in put[c] /\ wire[c][1].ID = LINDiagRequestID
    BY <2>1, <2>2 DEF WireOK
  <2>4. i # 1
    BY <2>3 DEF LINDiagRequestID, LINDiagResponseID
  <2> QED  BY <2>2, <2>3, <2>4
<1> QED  BY <1>1, Invariance, PTL

(* What Diagnostics returns is the target's reply to a request that was    *)
(* broadcast, or what another node put on 0x3D: the two codecs and a full  *)
(* channel in between invent nothing.                                      *)
THEOREM AnswersReal == Spec => []AnswerIsReal
<1>1. IInv => AnswerIsReal
  BY DEF IInv
<1> QED  BY <1>1, Invariance, PTL

(* Whatever other nodes register with whatever checksum, each request of   *)
(* Diagnostics passes ValidateFrame on the wire, and so does each response *)
(* that the target packs with ToFrame and registers with PublishFrame.     *)
THEOREM PackedFramesValid == Spec => []PackedIsValid
<1>1. IInv => PackedIsValid
  BY DEF IInv
<1> QED  BY <1>1, Invariance, PTL

-----------------------------------------------------------------------------
(* The bytes a payload is read from, one by one.                           *)
LEMMA UnpackedBytes ==
  ASSUME NEW d \in Seq(Byte), unpackDiag(d) # ErrInvalidFrame, NEW m, m = unpackDiag(d)
  PROVE  /\ Len(d) = 8 /\ m.NAD = d[1] /\ m.SID = d[3]
         /\ Len(m.Data) \in 0..5 /\ Len(m.Data) + 1 = d[2]
         /\ \A i \in 1..Len(m.Data) : m.Data[i] = d[i + 3]
<1>1. Len(d) = 8 /\ d[2] # 0 /\ ~(d[2] > 6)
  BY DEF unpackDiag, LINMaxDataLen, DiagDataLen
<1>2. d[2] \in Byte /\ \A i \in 4..8 : d[i] \in Byte
  <2>1. 2 \in 1..8 /\ \A i \in 4..8 : i \in 1..8
    OBVIOUS
  <2> QED  BY <1>1, <2>1, EightBytes
<1>3. PICK n \in 1..6 : n = d[2]
  <2>1. \A x \in Byte : x # 0 /\ ~(x > 6) => x \in 1..6
    BY DEF Byte
  <2> QED  BY <1>1, <1>2, <2>1
<1>4. PICK k \in Int : k = 2 + n
  OBVIOUS
<1>5. PICK e : e = SubSeq(d, 4, k)
  OBVIOUS
<1>6. m = [NAD |-> d[1], SID |-> d[3], Data |-> e]
  BY <1>1, <1>3, <1>4, <1>5 DEF unpackDiag, LINMaxDataLen, DiagDataLen
<1>7. /\ Len(e) = IF 4 <= k THEN k - 4 + 1 ELSE 0
      /\ \A i \in 1..(k - 4 + 1) : e[i] = d[4 + i - 1]
  <2>1. \A i \in 4..k : d[i] \in Byte
    BY <1>2, <1>4
  <2> QED  BY <2>1, <1>5, SubSeqProperties
<1>8. Len(e) = n - 1 /\ \A i \in 1..(n - 1) : e[i] = d[i + 3]
  BY <1>4, <1>7, SMTT(30)
<1>9. m.NAD = d[1] /\ m.SID = d[3] /\ m.Data = e
  BY <1>6
<1>10. Len(m.Data) = n - 1 /\ \A i \in 1..(n - 1) : m.Data[i] = d[i + 3]
  BY <1>8, <1>9, Zenon
<1>11. n - 1 \in 0..5 /\ (n - 1) + 1 = n
  OBVIOUS
<1> QED  BY <1>1, <1>3, <1>9, <1>10, <1>11, Zenon

(* REQ-SEC-005, for every payload: what unpackDiag accepts, packed again,  *)
(* is the payload up to the padding.                                       *)
LEMMA UnpackThenPack ==
  ASSUME NEW d \in Seq(Byte), unpackDiag(d) # ErrInvalidFrame, NEW m, m = unpackDiag(d)
  PROVE  /\ packDiag(m) # ErrInvalidFrame
         /\ SubSeq(packDiag(m), 1, 3 + Len(m.Data)) = SubSeq(d, 1, 3 + Len(m.Data))
<1>1. Fits(m)
  BY UnpackFits
<1>2. PICK p, e : p = packDiag(m) /\ e = m.Data
  OBVIOUS
<1>3. PICK l \in 0..5 : l = Len(e)
  BY <1>2, UnpackedBytes
<1>4. /\ Len(d) = 8 /\ m.NAD = d[1] /\ m.SID = d[3] /\ l + 1 = d[2]
      /\ \A i \in 1..l : e[i] = d[i + 3]
  BY <1>2, <1>3, UnpackedBytes
<1>5. /\ p \in Seq(Byte) /\ Len(p) = 8 /\ p[1] = m.NAD /\ p[2] = l + 1 /\ p[3] = m.SID
      /\ \A i \in 1..l : p[i + 3] = e[i]
  BY <1>1, <1>2, <1>3, PackedBytes
<1>6. \A i \in 1..(3 + l) : p[i] = d[i]
  <2>1. p[1] = d[1] /\ p[2] = d[2] /\ p[3] = d[3] /\ \A j \in 1..l : p[j + 3] = d[j + 3]
    BY <1>4, <1>5
  <2>2. \A i \in 1..(3 + l) : i = 1 \/ i = 2 \/ i = 3 \/ (i - 3 \in 1..l /\ (i - 3) + 3 = i)
    OBVIOUS
  <2> QED  BY <2>1, <2>2
<1>7. PICK k \in Int : k = 3 + l /\ k \in 3..8
  OBVIOUS
<1>8. PICK s, t : s = SubSeq(p, 1, k) /\ t = SubSeq(d, 1, k)
  OBVIOUS
<1>9. \A i \in 1..k : p[i] \in Byte /\ d[i] \in Byte
  <2>1. \A i \in 1..k : i \in 1..8
    BY <1>7
  <2> QED  BY <1>4, <1>5, <2>1, EightBytes
<1>10. /\ s \in Seq(Byte) /\ Len(s) = k /\ \A i \in 1..k : s[i] = p[i]
       /\ t \in Seq(Byte) /\ Len(t) = k /\ \A i \in 1..k : t[i] = d[i]
  <2>1. /\ s \in Seq(Byte) /\ Len(s) = IF 1 <= k THEN k - 1 + 1 ELSE 0
        /\ \A i \in 1..(k - 1 + 1) : s[i] = p[1 + i - 1]
    BY <1>8, <1>9, SubSeqProperties
  <2>2. /\ t \in Seq(Byte) /\ Len(t) = IF 1 <= k THEN k - 1 + 1 ELSE 0
        /\ \A i \in 1..(k - 1 + 1) : t[i] = d[1 + i - 1]
    BY <1>8, <1>9, SubSeqProperties
  <2>3. k - 1 + 1 = k /\ 1 <= k /\ \A i \in 1..k : 1 + i - 1 = i
    BY <1>7
  <2> QED  BY <2>1, <2>2, <2>3
<1>11. s = t
  <2>1. \A i \in 1..k : s[i] = t[i]
    BY <1>6, <1>7, <1>10
  <2> QED  BY <1>10, <2>1, SeqEqual
<1>12. p # ErrInvalidFrame
  BY <1>1, <1>2, PackThenUnpack
<1> QED  BY <1>2, <1>3, <1>7, <1>8, <1>11, <1>12

-----------------------------------------------------------------------------
(* The inputs of CodecChecks for this codec.                               *)
DiagBytes ==
  "codec" \in DOMAIN in /\ (in.codec = "diag" => in \in [codec : {"diag"}, data : Seq(Byte)])

(* An empty payload is one of bytes.                                       *)
LEMMA DiagBytesStart == InputInit => DiagBytes
<1>1. \A x \in [codec : {"diag"}, data : {<<>>}] : x \in [codec : {"diag"}, data : Seq(Byte)]
  <2>1. <<>> \in Seq(Byte)
    OBVIOUS
  <2> QED  BY <2>1, Zenon
<1> SUFFICES ASSUME InputInit PROVE DiagBytes
  OBVIOUS
<1>2. CASE in \in [codec : {"diag"}, data : {<<>>}]
  BY <1>1, <1>2 DEF DiagBytes
<1>3. CASE in \in [codec : {"frame"}, id : 0..LINMaxID, ct : LINChecksumType, data : {<<>>}]
  BY <1>3 DEF DiagBytes
<1>4. CASE in \in [codec : {"ldf"}, Length : {1, 2}, Signals : {<<>>},
                   signals : UNION {[D -> Values] : D \in SUBSET {"a", "b"}}]
  BY <1>4 DEF DiagBytes
<1>5. CASE in \in [codec : {"e2e"}, cfg : Identities, seq : Counters, data : {<<>>}]
  BY <1>5 DEF DiagBytes
<1>6. CASE in \in [codec : {"msg"}, ID : {<<>>}, checksum : {<<>>}, Payload : Payloads,
                   checksum_type : {"classic", "enhanced", "none"}]
  BY <1>6 DEF DiagBytes
<1>7. CASE in \in [codec : {"args"}, args : {<<>>}]
  BY <1>7 DEF DiagBytes
<1> QED  BY <1>2, <1>3, <1>4, <1>5, <1>6, <1>7 DEF InputInit

(* And stays one as it grows.                                              *)
LEMMA DiagBytesStep == DiagBytes /\ [Grow \/ Full]_in => DiagBytes'
<1> SUFFICES ASSUME DiagBytes, [Grow \/ Full]_in PROVE DiagBytes'
  OBVIOUS
<1>1. ASSUME NEW k, NEW v, k # "codec", in' = [in EXCEPT ![k] = v],
             in.codec = "diag" => in' \in [codec : {"diag"}, data : Seq(Byte)]
      PROVE  DiagBytes'
  <2>1. DOMAIN in' = DOMAIN in /\ in'.codec = in.codec
    BY <1>1 DEF DiagBytes
  <2> QED  BY <1>1, <2>1 DEF DiagBytes
<1>2. CASE AddByte("diag", PCIBytes, MaxDiag)
  <2>1. PICK b \in Byte : in.codec = "diag" /\ in' = [in EXCEPT !.data = Append(@, b)]
    BY <1>2, CodecAssumption DEF AddByte
  <2>2. PICK q : q = Append(in.data, b)
    OBVIOUS
  <2>3. q \in Seq(Byte) /\ in \in [codec : {"diag"}, data : Seq(Byte)]
    BY <2>1, <2>2 DEF DiagBytes
  <2>4. in' \in [codec : {"diag"}, data : Seq(Byte)]
    BY <2>1, <2>2, <2>3
  <2> QED  BY <2>4 DEF DiagBytes
<1>3. CASE AddByte("frame", CarryBytes, MaxPayload) \/ AddByte("e2e", CarryBytes, MaxProtected)
  <2>1. PICK v : in.codec # "diag" /\ in' = [in EXCEPT !.data = v]
    BY <1>3 DEF AddByte
  <2> QED  BY <1>1, <2>1
<1>4. CASE AddRef
  <2>1. PICK v : in.codec # "diag" /\ in' = [in EXCEPT !.Signals = v]
    BY <1>4 DEF AddRef
  <2> QED  BY <1>1, <2>1
<1>5. CASE AddDigit
  <2>1. PICK v : in.codec # "diag" /\ (in' = [in EXCEPT !.ID = v] \/ in' = [in EXCEPT !.checksum = v])
    BY <1>5 DEF AddDigit
  <2> QED  BY <1>1, <2>1
<1>6. CASE AddArg
  <2>1. PICK v : in.codec # "diag" /\ in' = [in EXCEPT !.args = v]
    BY <1>6 DEF AddArg
  <2> QED  BY <1>1, <2>1
<1>7. CASE UNCHANGED in
  BY <1>7 DEF DiagBytes
<1> QED  BY <1>2, <1>3, <1>4, <1>5, <1>6, <1>7 DEF Grow, Full

(* packDiag and unpackDiag, for payloads of any bytes and any length: what *)
(* is packed is unpacked, what does not fit is refused, a packed message   *)
(* is a valid frame on both identifiers, and REQ-SEC-005 for raw payloads. *)
THEOREM PacksUnpack == InputSpec => []PackUnpack
<1>1. DiagBytes => PackUnpack
  <2> SUFFICES ASSUME DiagBytes, in.codec = "diag" PROVE PackUnpack
    BY DEF PackUnpack
  <2>1. in.data \in Seq(Byte)
    BY DEF DiagBytes
  <2>2. PICK m : m = Message
    OBVIOUS
  <2>3. m \in DiagMessage /\ m.Data = in.data
    <3>1. 125 \in Byte /\ 178 \in Byte
      BY DEF Byte
    <3> QED  BY <2>1, <2>2, <3>1 DEF Message, DiagMessage
  <2>4. IF Len(in.data) <= DiagDataLen THEN unpackDiag(packDiag(m)) = m ELSE packDiag(m) = ErrInvalidFrame
    BY <2>3, DiagRoundTrip
  <2>5. ASSUME Len(in.data) <= DiagDataLen, NEW id \in {LINDiagRequestID, LINDiagResponseID}
        PROVE  ValidateFrame(ToFrame(id, m))
    <3>1. Fits(m)
      BY <2>3, <2>5 DEF Fits
    <3>2. Len(packDiag(m)) = 8
      BY <3>1, PackedBytes
    <3> QED  BY <2>5, <3>2 DEF ValidateFrame, ToFrame, LINDiagRequestID, LINDiagResponseID, LINMaxID, LINMaxDataLen
  <2>6. ASSUME NEW r, r = unpackDiag(in.data), r # ErrInvalidFrame
        PROVE  /\ packDiag(r) # ErrInvalidFrame
               /\ SubSeq(packDiag(r), 1, 3 + Len(r.Data)) = SubSeq(in.data, 1, 3 + Len(r.Data))
    BY <2>1, <2>6, UnpackThenPack
  <2> QED  BY <2>2, <2>4, <2>5, <2>6, Zenon DEF PackUnpack
<1> QED  BY <1>1, DiagBytesStart, DiagBytesStep, PTL DEF InputSpec
=============================================================================
