----------------------------- MODULE SlaveNode ------------------------------
(***************************************************************************)
(* The slave node of slave/slave.go over a bus whose Publish is atomic (as *)
(* VirtualBus shows it).  SetResponse writes twice: the bus registration,  *)
(* under the bus's lock, and then the node's own list of identifiers,      *)
(* under the node's lock.  Between the two any other goroutine may run.    *)
(***************************************************************************)
EXTENDS LinFrame, FiniteSets

CONSTANTS
  Proc,      \* the goroutines that call SetResponse
  Owns,      \* Owns[p]: the identifiers goroutine p calls it for
  MaxCalls   \* bound: calls made by each goroutine

ASSUME SlaveAssumption == Owns \in [Proc -> SUBSET Byte] /\ MaxCalls \in Nat

VARIABLES
  registered,  \* the identifiers with a non-nil response on the bus
  busClosed,   \* the bus has been closed
  ids,         \* Node.ids
  pc, id, data, calls  \* each goroutine: where it is, with which arguments

vars == <<registered, busClosed, ids, pc, id, data, calls>>

(* A payload is what Publish distinguishes.                                *)
Data == {"nil", "bytes", "empty", "tooLong"}

Init ==
  /\ registered = {}
  /\ busClosed = FALSE
  /\ ids = <<>>
  /\ pc = [p \in Proc |-> "idle"]
  /\ id = [p \in Proc |-> 0]
  /\ data = [p \in Proc |-> "nil"]
  /\ calls = [p \in Proc |-> 0]

Goto(p, label) == pc' = [pc EXCEPT ![p] = label]

(* SetResponse is called; an identifier out of range is turned away.       *)
SetResponse(p) ==
  /\ pc[p] = "idle"
  /\ calls[p] < MaxCalls
  /\ calls' = [calls EXCEPT ![p] = @ + 1]
  /\ \E i \in Owns[p], d \in Data :
       /\ id' = [id EXCEPT ![p] = i]
       /\ data' = [data EXCEPT ![p] = d]
       /\ Goto(p, IF i > LINMaxID THEN "idle" ELSE "publish")
  /\ UNCHANGED <<registered, busClosed, ids>>

PublishErrorLost(p) ==  \* mutant of Publish: its error is not looked at
  /\ pc[p] = "publish"
  /\ registered' = IF busClosed \/ data[p] \in {"empty", "tooLong"} THEN registered
                   ELSE IF data[p] = "nil" THEN registered \ {id[p]}
                   ELSE registered \cup {id[p]}
  /\ Goto(p, "list")
  /\ UNCHANGED <<busClosed, ids, id, data, calls>>

(* bus.Publish: an error ends the call before the list is touched.         *)
Publish(p) ==
  /\ pc[p] = "publish"
  /\ \/ /\ busClosed \/ data[p] \in {"empty", "tooLong"}
        /\ Goto(p, "idle")
        /\ UNCHANGED registered
     \/ /\ ~busClosed /\ data[p] \in {"nil", "bytes"}
        /\ registered' = IF data[p] = "nil" THEN registered \ {id[p]}
                         ELSE registered \cup {id[p]}
        /\ Goto(p, "list")
  /\ UNCHANGED <<busClosed, ids, id, data, calls>>

containsID(q, i) == \E k \in DOMAIN q : q[k] = i

(* removeID: the loop over the list, in place; out[n] is what it has kept  *)
(* of the first n identifiers.                                             *)
removeID(q, i) ==
  LET out[n \in 0..Len(q)] ==
        IF n = 0 THEN <<>>
        ELSE IF q[n] # i THEN Append(out[n - 1], q[n]) ELSE out[n - 1]
  IN  out[Len(q)]

(* The list follows, under mu.                                             *)
UpdateList(p) ==
  /\ pc[p] = "list"
  /\ ids' = IF data[p] = "nil" THEN removeID(ids, id[p])
            ELSE IF containsID(ids, id[p]) THEN ids ELSE Append(ids, id[p])
  /\ Goto(p, "idle")
  /\ UNCHANGED <<registered, busClosed, id, data, calls>>

(* Somebody closes the bus.                                                *)
CloseBus ==
  /\ ~busClosed
  /\ busClosed' = TRUE
  /\ UNCHANGED <<registered, ids, pc, id, data, calls>>

Finished ==
  /\ \A p \in Proc : pc[p] = "idle" /\ calls[p] = MaxCalls
  /\ busClosed
  /\ UNCHANGED vars

Next ==
  \/ \E p \in Proc : SetResponse(p) \/ Publish(p) \/ UpdateList(p)
  \/ CloseBus
  \/ Finished

Spec == Init /\ [][Next]_vars

-----------------------------------------------------------------------------
RegisteredIDs == ToSet(ids)

(* The identifiers some goroutine is between its two writes on.            *)
InFlight == {id[p] : p \in {q \in Proc : pc[q] = "list"}}

(* REQ-SLAVE-005, as far as two locks allow: RegisteredIDs is exactly the  *)
(* set of identifiers with a non-nil response, but for those whose         *)
(* SetResponse is under way, also after failed calls and after Close, and  *)
(* the list names none of them twice.                                      *)
ListMatchesBus ==
  /\ (RegisteredIDs \ InFlight) = (registered \ InFlight)
  /\ IsInjective(ids)
=============================================================================
