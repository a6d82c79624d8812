----------------------------- MODULE MasterNode -----------------------------
(***************************************************************************)
(* The master node of master/master.go: the Run loop over the schedule     *)
(* table, its sporadic slots and its cancellation, with the application    *)
(* (SetPending, SetSporadicGroup, SetSchedule, cancel) and the bus moving  *)
(* at any step.  The bus is what Run sees of it: SendHeader gives the      *)
(* registered response, or an error when there is none or it is closed.    *)
(***************************************************************************)
EXTENDS LinFrame, FiniteSets

CONSTANTS
  Id,        \* the frame identifiers in tables and groups
  Live,      \* those the application publishes and marks
  Tables,    \* the schedule tables it may install: sequences of [ID, DelayMs]
  Groups,    \* the sporadic groups it may declare: [slot, candidates]
  MaxVer,    \* bound: updates published per identifier
  MaxRuns    \* bound: calls of Run

Slot == [ID : Id, DelayMs : Nat]

ASSUME MasterAssumption ==
  /\ Id \subseteq Byte /\ Live \subseteq Id
  /\ Tables \subseteq Seq(Slot)
  /\ Groups \subseteq [slot : Id, candidates : Seq(Id)]
  /\ MaxVer \in Nat /\ MaxRuns \in Nat

VARIABLES
  schedule,   \* Node.schedule
  pending,    \* Node.pending: the identifiers marked true
  sporadic,   \* Node.sporadic: slot -> candidates, <<>> when there are none
  pc, k, cur, \* Run: where it is, the slot it serves, the header it sends
  ctxDone,    \* the context of Run has been cancelled
  runs,       \* how often Run was called
  onBus,      \* the identifiers with a registered response
  busClosed,
  ver,        \* history: version of the data last published for an identifier
  marked,     \* history: version current at its last SetPending
  sent,       \* history: newest version a header has carried
  failed,     \* history: newest marked version whose header ended in OnError
  late        \* history: headers sent by Run since its context was cancelled, 2 for more

app     == <<schedule, sporadic>>
run     == <<pc, k, cur, ctxDone, runs>>
busVars == <<onBus, busClosed, ver>>
vars    == <<app, pending, run, busVars, marked, sent, failed, late>>

Init ==
  /\ schedule = <<>>
  /\ pending = {}
  /\ sporadic = [i \in Id |-> <<>>]
  /\ pc = "off" /\ k = 1 /\ cur = 0 /\ ctxDone = FALSE /\ runs = 0
  /\ onBus = {} /\ busClosed = FALSE
  /\ ver = [i \in Id |-> 0]
  /\ marked = [i \in Id |-> 0]
  /\ sent = [i \in Id |-> 0]
  /\ failed = [i \in Id |-> 0]
  /\ late = 0

-----------------------------------------------------------------------------
validateSchedule(t) == \A i \in DOMAIN t : t[i].ID <= LINMaxID

(* SetSchedule, which must not be called while Run is active; a table with *)
(* an identifier out of range is refused.                                  *)
SetSchedule ==
  /\ pc = "off"
  /\ \E t \in Tables :
       schedule' = IF validateSchedule(t) THEN t ELSE schedule
  /\ UNCHANGED <<sporadic, pending, run, busVars, marked, sent, failed, late>>

(* SetSporadicGroup at any time; no candidates removes the group.          *)
SetSporadicGroup ==
  /\ \E g \in Groups :
       sporadic' = IF /\ g.slot <= LINMaxID
                      /\ \A i \in DOMAIN g.candidates : g.candidates[i] <= LINMaxID
                   THEN [sporadic EXCEPT ![g.slot] = g.candidates]
                   ELSE sporadic
  /\ UNCHANGED <<schedule, pending, run, busVars, marked, sent, failed, late>>

SetPending(i) ==
  /\ pending' = pending \cup {i}
  /\ marked' = [marked EXCEPT ![i] = ver[i]]
  /\ UNCHANGED <<app, run, busVars, sent, failed, late>>

(* The slave side: new data for an identifier, its withdrawal, Close.      *)
PublishUpdate(i) ==
  /\ ver[i] < MaxVer
  /\ ~busClosed
  /\ ver' = [ver EXCEPT ![i] = @ + 1]
  /\ onBus' = onBus \cup {i}
  /\ UNCHANGED <<app, pending, run, busClosed, marked, sent, failed, late>>

Withdraw(i) ==
  /\ ~busClosed
  /\ onBus' = onBus \ {i}
  /\ UNCHANGED <<app, pending, run, busClosed, ver, marked, sent, failed, late>>

CloseBus ==
  /\ ~busClosed
  /\ busClosed' = TRUE
  /\ UNCHANGED <<app, pending, run, onBus, ver, marked, sent, failed, late>>

Cancel ==
  /\ pc # "off" /\ ~ctxDone
  /\ ctxDone' = TRUE
  /\ UNCHANGED <<app, pending, pc, k, cur, runs, busVars, marked, sent, failed, late>>

-----------------------------------------------------------------------------
(* Run is called with a fresh context; an empty schedule is an error.      *)
Start ==
  /\ pc = "off" /\ runs < MaxRuns
  /\ runs' = runs + 1
  /\ pc' = IF schedule = <<>> THEN "off" ELSE "check"
  /\ k' = 1
  /\ ctxDone' = FALSE
  /\ late' = 0
  /\ UNCHANGED <<app, pending, cur, busVars, marked, sent, failed>>

(* The test of the context at the head of a slot.                          *)
NoCheck == pc = "check" /\ pc' = "select"  \* mutant of CheckCtx
             /\ UNCHANGED <<app, pending, k, cur, ctxDone, runs, busVars, marked, sent, failed, late>>
CheckCtx ==
  /\ pc = "check"
  /\ pc' = IF ctxDone THEN "off" ELSE "select"
  /\ UNCHANGED <<app, pending, k, cur, ctxDone, runs, busVars, marked, sent, failed, late>>

Candidates == sporadic[schedule[k].ID]

(* The candidate that wins: pending, and none before it is.                *)
WinsLast(i) ==  \* mutant of Wins: the lowest priority first
  \E n \in DOMAIN Candidates :
    /\ Candidates[n] = i /\ i \in pending
    /\ \A m \in (n + 1)..Len(Candidates) : Candidates[m] \notin pending

Wins(i) ==
  \E n \in DOMAIN Candidates :
    /\ Candidates[n] = i /\ i \in pending
    /\ \A m \in 1..(n - 1) : Candidates[m] \notin pending

ClearGroup(i) == pending' = pending \ ToSet(Candidates)  \* mutant of Clear
Clear(i) == pending' = pending \ {i}

(* selectSporadic under mu: an ordinary slot, the winner of a sporadic     *)
(* one with its flag cleared, or a slot to be skipped.                     *)
SelectSporadic ==
  /\ pc = "select"
  /\ \/ /\ Candidates = <<>>
        /\ cur' = schedule[k].ID
        /\ pc' = "send"
        /\ UNCHANGED pending
     \/ \E i \in Id :
        /\ Wins(i)
        /\ Clear(i)
        /\ cur' = i
        /\ pc' = "send"
     \/ /\ Candidates # <<>>
        /\ \A n \in DOMAIN Candidates : Candidates[n] \notin pending
        /\ pc' = "sleep"
        /\ UNCHANGED <<pending, cur>>
  /\ UNCHANGED <<app, k, ctxDone, runs, busVars, marked, sent, failed, late>>

(* bus.SendHeader and the callback for its outcome.                        *)
SendHeader ==
  /\ pc = "send"
  /\ IF cur \in onBus /\ ~busClosed
     THEN sent' = [sent EXCEPT ![cur] = ver[cur]] /\ UNCHANGED failed
     ELSE failed' = [failed EXCEPT ![cur] = marked[cur]] /\ UNCHANGED sent
  /\ late' = IF ctxDone /\ late < 2 THEN late + 1 ELSE late
  /\ pc' = "sleep"
  /\ UNCHANGED <<app, pending, k, cur, ctxDone, runs, busVars, marked>>

SleepNoWrap ==  \* mutant of SleepTimer: the table is not started over
  /\ pc = "sleep"
  /\ k' = k + 1
  /\ pc' = "check"
  /\ UNCHANGED <<app, pending, cur, ctxDone, runs, busVars, marked, sent, failed, late>>

(* The slot's delay: none, or a select between its timer and ctx.Done,     *)
(* which may pick either when both are ready.  Then the next slot.         *)
SleepTimer ==
  /\ pc = "sleep"
  /\ k' = (k % Len(schedule)) + 1
  /\ pc' = "check"
  /\ UNCHANGED <<app, pending, cur, ctxDone, runs, busVars, marked, sent, failed, late>>

SleepCancelled ==
  /\ pc = "sleep"
  /\ schedule[k].DelayMs > 0 /\ ctxDone
  /\ pc' = "off"
  /\ UNCHANGED <<app, pending, k, cur, ctxDone, runs, busVars, marked, sent, failed, late>>

Run == CheckCtx \/ SelectSporadic \/ SendHeader \/ SleepTimer \/ SleepCancelled

Next ==
  \/ SetSchedule \/ SetSporadicGroup \/ Cancel \/ Start \/ Run \/ CloseBus
  \/ \E i \in Live : SetPending(i) \/ PublishUpdate(i) \/ Withdraw(i)

Spec == Init /\ [][Next]_vars

(* The goroutine of Run is scheduled and its timers fire; the bus answers. *)
FairSpec == Spec /\ WF_vars(Run)

-----------------------------------------------------------------------------
Version == [Id -> 0..MaxVer]

(* The types of the node and of the history; a running loop has a slot.    *)
TypeOK ==
  /\ schedule \in Seq(Slot)
  /\ pending \in SUBSET Id
  /\ sporadic \in [Id -> Seq(Id)]
  /\ pc \in {"off", "check", "select", "send", "sleep"}
  /\ k \in Nat \ {0} /\ cur \in Id \cup {0}
  /\ ctxDone \in BOOLEAN /\ runs \in Nat
  /\ onBus \in SUBSET Id /\ busClosed \in BOOLEAN
  /\ ver \in Version /\ marked \in Version /\ sent \in Version /\ failed \in Version
  /\ late \in Nat
  /\ pc # "off" => k \in DOMAIN schedule
  /\ pc = "send" => cur \in Id

(* No marked update is forgotten: data the application published and then  *)
(* marked with SetPending is still pending, or on its way in the current   *)
(* header, or has been carried by a header, or was reported to OnError.    *)
(* The flag is cleared before SendHeader reads the response, so a mark set *)
(* meanwhile survives, whatever cancel, restart and regrouping do.         *)
UpdateAccounted ==
  \A i \in Id :
    \/ marked[i] <= sent[i] \/ marked[i] <= failed[i]
    \/ i \in pending
    \/ pc = "send" /\ cur = i

(* Once its context is cancelled Run sends at most the one header it had   *)
(* already chosen.                                                         *)
QuietAfterCancel == late <= 1

(* REQ-MASTER-008: a cancelled Run returns.                                *)
CancelStops == ctxDone /\ pc # "off" ~> pc = "off"

(* REQ-MASTER-015: an update that is pending with the highest priority of  *)
(* a scheduled sporadic slot is not passed over for ever, however often    *)
(* candidates of lower priority are marked and whatever Run is doing when  *)
(* the mark comes.                                                         *)
TopPending(i) ==
  /\ pc # "off"
  /\ \E s \in DOMAIN schedule :
       LET q == sporadic[schedule[s].ID]
       IN  \E n \in DOMAIN q : /\ q[n] = i /\ i \in pending
                               /\ \A m \in 1..(n - 1) : q[m] \notin pending

TopPendingServed == \A i \in Live : []<>(~TopPending(i))
=============================================================================
