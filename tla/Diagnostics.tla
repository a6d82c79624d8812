---------------------------- MODULE Diagnostics -----------------------------
(***************************************************************************)
(* Diagnostic exchanges: calls of master.Node.Diagnostics                  *)
(* (master/master.go) by one or more goroutines against a target node on   *)
(* the other side of the bus.  The bus is what they see of it: one         *)
(* registration per diagnostic identifier, a channel the target subscribed *)
(* to, Close.  Each bus call is atomic, as BusContract has it; between two *)
(* of them anything may happen.                                            *)
(*                                                                         *)
(* The target is the application's: it answers each request it receives in *)
(* its own time, registering its response on 0x3D with PublishFrame or     *)
(* with slave.Node.SetResponse, which publishes the bytes alone.           *)
(***************************************************************************)
EXTENDS DiagFrame

CONSTANTS
  Caller,     \* the goroutines that call Diagnostics
  Requests,   \* the requests the application makes
  Extra,      \* another node may register or withdraw raw frames on 0x3D
  MaxCalls,   \* bound: Diagnostics calls of each goroutine
  ChanSize,   \* capacity of the target's channel
  Vacant      \* no response is registered

ASSUME DiagnosticsAssumption ==
  /\ Requests \subseteq DiagMessage
  /\ Extra \subseteq {d \in Seq(Byte) : Len(d) \in 1..LINMaxDataLen}  \* what PublishFrame lets in
  /\ MaxCalls \in Nat /\ ChanSize \in Nat \ {0}

VARIABLES
  entry,      \* the bus registrations of 0x3C and 0x3D
  busClosed,
  inbox,      \* the target's subscription to 0x3C
  via,        \* how the target registers its responses
  pc, req,    \* Diagnostics: where each caller is, with which request
  calls,
  answer,     \* what it returned: <<m>>, or <<>> for an error and while it runs
  wire,       \* history: the frames broadcast in the caller's last call, in order
  put,        \* history: the requests registered since the caller registered its own
  asked       \* history: every request ever broadcast

bus    == <<entry, busClosed, inbox, via>>
client == <<pc, req, calls, answer>>
vars   == <<bus, client, wire, put, asked>>

Init ==
  /\ entry = [id \in {LINDiagRequestID, LINDiagResponseID} |-> Vacant]
  /\ busClosed = FALSE /\ inbox = <<>>
  /\ via \in {"PublishFrame", "SetResponse"}
  /\ pc = [c \in Caller |-> "idle"]
  /\ req \in [Caller -> Requests]
  /\ calls = [c \in Caller |-> 0]
  /\ answer = [c \in Caller |-> <<>>]
  /\ wire = [c \in Caller |-> <<>>]
  /\ put = [c \in Caller |-> {}]
  /\ asked = {}

Register(id, e) == entry' = [entry EXCEPT ![id] = e]
Raw(data, ct)   == [Data |-> data, ChecksumType |-> ct]
Goto(c, label)  == pc' = [pc EXCEPT ![c] = label]

(* A bus call that fails ends the exchange.                                *)
Fail(c) == Goto(c, "idle") /\ UNCHANGED <<entry, inbox, answer, wire, put, asked>>

(* req.ToFrame refuses data that does not fit.                             *)
Begin(c) ==
  /\ pc[c] = "idle" /\ calls[c] < MaxCalls
  /\ calls' = [calls EXCEPT ![c] = @ + 1]
  /\ \E m \in Requests :
       /\ req' = [req EXCEPT ![c] = m]
       /\ Goto(c, IF packDiag(m) = ErrInvalidFrame THEN "idle" ELSE "publish")
  /\ answer' = [answer EXCEPT ![c] = <<>>]
  /\ wire' = [wire EXCEPT ![c] = <<>>]
  /\ put' = [put EXCEPT ![c] = {}]
  /\ UNCHANGED <<bus, asked>>

(* PublishFrame on 0x3C, over whatever another caller has put there.       *)
PublishRequest(c) ==
  /\ pc[c] = "publish"
  /\ \/ busClosed /\ Fail(c)
     \/ /\ ~busClosed
        /\ LET f == ToFrame(LINDiagRequestID, req[c])
           IN  /\ Register(LINDiagRequestID, Raw(f.Data, f.ChecksumType))
               /\ put' = [d \in Caller |-> IF d = c \/ pc[d] = "request"
                                           THEN put[d] \cup {f} ELSE put[d]]
        /\ Goto(c, "request")
        /\ UNCHANGED <<inbox, answer, wire, asked>>
  /\ UNCHANGED <<busClosed, via, req, calls>>

(* The frame SendHeader makes of a registration.                           *)
OnWire(id) == [ID |-> id, Data |-> entry[id].Data, ChecksumType |-> entry[id].ChecksumType]
CanSend(id) == ~busClosed /\ entry[id] # Vacant

Broadcast(c, id) == wire' = [wire EXCEPT ![c] = Append(@, OnWire(id))]

(* The broadcast of a request: the target's channel takes it if it can.    *)
Ask(c) ==
  /\ Broadcast(c, LINDiagRequestID)
  /\ asked' = asked \cup {entry[LINDiagRequestID].Data}
  /\ inbox' = IF Len(inbox) < ChanSize
              THEN Append(inbox, OnWire(LINDiagRequestID)) ELSE inbox

CarryOn(c) ==  \* mutant of SendRequest: its error is not looked at
  /\ pc[c] = "request"
  /\ IF CanSend(LINDiagRequestID) THEN Ask(c) ELSE UNCHANGED <<wire, asked, inbox>>
  /\ Goto(c, "response")
  /\ UNCHANGED <<entry, busClosed, via, req, calls, answer, put>>

(* SendHeader on 0x3C.                                                     *)
SendRequest(c) ==
  /\ pc[c] = "request"
  /\ \/ ~CanSend(LINDiagRequestID) /\ Fail(c)
     \/ /\ CanSend(LINDiagRequestID)
        /\ Ask(c)
        /\ Goto(c, "response")
        /\ UNCHANGED <<entry, answer, put>>
  /\ UNCHANGED <<busClosed, via, req, calls>>

(* SendHeader on 0x3D and ParseSlaveResponseFrame.                         *)
SendResponse(c) ==
  /\ pc[c] = "response"
  /\ \/ ~CanSend(LINDiagResponseID) /\ Fail(c)
     \/ /\ CanSend(LINDiagResponseID)
        /\ Broadcast(c, LINDiagResponseID)
        /\ answer' = LET m == unpackDiag(entry[LINDiagResponseID].Data)
                     IN  [answer EXCEPT ![c] = IF m = ErrInvalidFrame THEN <<>> ELSE <<m>>]
        /\ Goto(c, "idle")
        /\ UNCHANGED <<entry, inbox, put, asked>>
  /\ UNCHANGED <<busClosed, via, req, calls>>

-----------------------------------------------------------------------------
(* The target's answer: RSID is SID + 0x40, the data is echoed.            *)
Reply(m) == [m EXCEPT !.SID = (@ + 64) % 256]

(* SetResponse publishes with the enhanced checksum, on 0x3D too.          *)
Answer ==
  /\ inbox # <<>>
  /\ inbox' = Tail(inbox)
  /\ LET m == unpackDiag(Head(inbox).Data)
     IN  IF m = ErrInvalidFrame \/ busClosed THEN UNCHANGED entry
         ELSE LET f == ToFrame(LINDiagResponseID, Reply(m))
              IN  Register(LINDiagResponseID,
                           Raw(f.Data, IF via = "PublishFrame" THEN f.ChecksumType
                                       ELSE "enhanced"))
  /\ UNCHANGED <<busClosed, via, client, wire, put, asked>>

(* Others on the bus: a raw response with either checksum, which           *)
(* PublishFrame passes on as it is, or a withdrawal.                       *)
Interfere ==
  /\ ~busClosed
  /\ \/ \E d \in Extra, ct \in LINChecksumType : Register(LINDiagResponseID, Raw(d, ct))
     \/ \E id \in DOMAIN entry : Register(id, Vacant)
  /\ UNCHANGED <<busClosed, inbox, via, client, wire, put, asked>>

CloseBus ==
  /\ ~busClosed
  /\ busClosed' = TRUE
  /\ UNCHANGED <<entry, inbox, via, client, wire, put, asked>>

Finished ==
  /\ \A c \in Caller : pc[c] = "idle" /\ calls[c] = MaxCalls
  /\ inbox = <<>> /\ busClosed
  /\ UNCHANGED vars

Next ==
  \/ \E c \in Caller : Begin(c) \/ PublishRequest(c) \/ SendRequest(c) \/ SendResponse(c)
  \/ Answer \/ Interfere \/ CloseBus \/ Finished

Spec == Init /\ [][Next]_vars

-----------------------------------------------------------------------------
(* REQ-MASTER-014: a caller sends the response header once, and only after *)
(* a request header of its own has put a request on the wire, whatever is  *)
(* withdrawn or closed between the three bus calls.  That request is the   *)
(* caller's own, unless another caller has put its request in its place    *)
(* since.                                                                  *)
AskedFirst ==
  \A c \in Caller : \A i \in DOMAIN wire[c] : wire[c][i].ID = LINDiagResponseID =>
    i = 2 /\ wire[c][1] \in put[c]

(* A message that Diagnostics returns is what the target packed for some   *)
(* request it was asked, maybe an earlier one or another caller's, or what *)
(* another node put there: nothing is lost or invented by the two codecs   *)
(* in between.                                                             *)
AnswerIsReal ==
  \A c \in Caller : \A i \in DOMAIN answer[c] :
    \/ \E d \in asked : unpackDiag(d) # ErrInvalidFrame /\ answer[c][i] = Reply(unpackDiag(d))
    \/ \E d \in Extra : answer[c][i] = unpackDiag(d)

(* What ToFrame has made is still a frame that ValidateFrame accepts when  *)
(* it is on the wire, the classic checksum included, whatever others       *)
(* register in between: every request of Diagnostics, and every response   *)
(* that the target registers with PublishFrame, which preserves the        *)
(* checksum (REQ-MASTER-014, virtual/bus.go 152-153).  Raw frames of other *)
(* nodes may be enhanced.                                                  *)
PackedIsValid ==
  \A c \in Caller : \A i \in DOMAIN wire[c] :
    (wire[c][i].ID = LINDiagRequestID \/ (via = "PublishFrame" /\ wire[c][i].Data \notin Extra))
      => ValidateFrame(wire[c][i])
=============================================================================
