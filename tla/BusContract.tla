---------------------------- MODULE BusContract ----------------------------
(***************************************************************************)
(* What lin.Bus and lin.MasterBus promise their clients, without locks,    *)
(* buffers or counters: a register of responses, exchanges that carry what *)
(* is registered when the header goes out, and streams of frames.  A       *)
(* stream may miss a frame (delivery never blocks the bus); it never gets  *)
(* one it did not ask for, one twice, one of a sender out of that sender's *)
(* order, or one after the bus is closed.                                  *)
(***************************************************************************)
EXTENDS LinFrame

CONSTANTS
  Entry,    \* the responses that may be registered
  NoEntry   \* no response is registered

VARIABLES
  reg,      \* identifier -> registered response
  open,     \* Close has not been called
  flight,   \* frames of the exchanges under way
  streams   \* what each subscription asked for, was sent, and whether it ended

cvars == <<reg, open, flight, streams>>

Init ==
  /\ reg = [id \in 0..LINMaxID |-> NoEntry]
  /\ open = TRUE
  /\ flight = {}
  /\ streams = <<>>

(* Publish and PublishFrame: one identifier gets or loses its response.    *)
Register ==
  /\ open
  /\ reg' # reg
  /\ reg' \in [0..LINMaxID -> Entry \cup {NoEntry}]
  /\ \E id \in 0..LINMaxID : \A other \in 0..LINMaxID \ {id} : reg'[other] = reg[other]
  /\ UNCHANGED <<open, flight, streams>>

(* f comes after every frame of its sender in q.                           *)
Newer(f, q) ==
  \A i \in DOMAIN q : q[i].src[1] = f.src[1] => q[i].src[2] < f.src[2]

(* SendHeader: the response registered now becomes a frame in flight.      *)
Exchange ==
  /\ open
  /\ \E f \in flight' \ flight :
       /\ flight' = flight \cup {f}
       /\ reg[f.ID] = [data |-> f.Data, ct |-> f.ChecksumType]
       /\ \A g \in flight : g.src[1] # f.src[1]
       /\ \A s \in DOMAIN streams : Newer(f, streams[s].taken)
  /\ UNCHANGED <<reg, open, streams>>

(* The frame reaches one of the streams whose filters select it.           *)
Deliver(f, s) ==
  /\ open
  /\ streams[s].filters = {} \/ \E flt \in streams[s].filters : Matches(flt, f.ID)
  /\ Newer(f, streams[s].taken)
  /\ streams' = [streams EXCEPT ![s].taken = Append(@, f)]
  /\ UNCHANGED <<reg, open, flight>>

(* SendHeader returns the frame.                                           *)
Complete(f) ==
  /\ flight' = flight \ {f}
  /\ UNCHANGED <<reg, open, streams>>

(* Subscribe.                                                              *)
Join ==
  /\ open
  /\ Len(streams') = Len(streams) + 1
  /\ \E filters \in {streams'[Len(streams')].filters} :
       streams' = Append(streams, [filters |-> filters, taken |-> <<>>, ended |-> FALSE])
  /\ UNCHANGED <<reg, open, flight>>

(* Close: every stream ends, and keeps what it was sent.                   *)
Shut ==
  /\ open
  /\ ~open'
  /\ streams' = [s \in DOMAIN streams |-> [streams[s] EXCEPT !.ended = TRUE]]
  /\ UNCHANGED <<reg, flight>>

Next ==
  \/ Register \/ Exchange \/ Join \/ Shut
  \/ \E f \in flight : Complete(f) \/ \E s \in DOMAIN streams : Deliver(f, s)

Spec == Init /\ [][Next]_cvars
=============================================================================
