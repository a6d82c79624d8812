---------------------------- MODULE MCVirtualBus ----------------------------
(* Instances of VirtualBus for TLC: which goroutine makes which calls.     *)
EXTENDS VirtualBus

CONSTANTS g1, g2, g3

Put(id, data, ct) == [op |-> "Publish", id |-> id, data |-> data, ct |-> ct]
Head1(id)         == [op |-> "SendHeader", id |-> id]
Sub(filters)      == [op |-> "Subscribe", filters |-> filters]
Table(entries)    == [op |-> "SetSchedule", entries |-> entries]
Just(op)          == [op |-> op]

Two  == {[ID |-> 2, All |-> FALSE], [ID |-> 3, All |-> FALSE]}
Many == {[ID |-> 1, All |-> FALSE], [ID |-> 3, All |-> FALSE]}

(* Two senders and a subscriber on a full and on a filtered channel, with  *)
(* a closer: broadcasts overlap each other, Subscribe and both closes.     *)
TrafficMenu ==
  g1 :> {Put(1, <<7>>, "classic"), Head1(1)} @@
  g2 :> {Sub(Many), Sub(Two), Head1(1), Just("Metrics")} @@
  g3 :> {Sub({}), Just("Close"), Just("CloseWithDrain")}

(* Every argument check and kind of registration, its withdrawal, and the  *)
(* way to a close over channels that are full and that nobody reads.       *)
CallsMenu ==
  g1 :> {Put(3, <<1, 2, 3, 4, 5, 6, 7, 8>>, "classic"), Put(3, <<>>, "enhanced"),
         Put(3, [i \in 1..9 |-> i], "classic"), Put(64, Nil, "enhanced"),
         Put(3, Nil, "enhanced"), Head1(3)} @@
  g2 :> {Sub({[ID |-> 0, All |-> TRUE]}), Head1(64), Table(<<3, 63>>), Just("Health"),
         Just("Close"), Just("CloseWithDrain")}

(* A registered sender against one draining closer.                        *)
DrainMenu ==
  g1 :> {Put(1, <<7>>, "enhanced"), Head1(1)} @@
  g2 :> {Sub({}), Just("CloseWithDrain")}
=============================================================================
