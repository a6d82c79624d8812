-------------------------- MODULE MasterNodeProofs --------------------------
(***************************************************************************)
(* The master node keeps account of every marked update and falls silent   *)
(* after cancellation, for any identifiers, tables, groups and bounds.     *)
(***************************************************************************)
EXTENDS MasterNode, TLAPS

(* A mark never runs ahead of the data that was published.                 *)
MarkedPublished == \A i \in Id : marked[i] <= ver[i]

(* Until it is cancelled Run owes nothing, and it enters a slot only then. *)
QuietInv ==
  /\ ~ctxDone => late = 0
  /\ pc \in {"select", "send"} => late = 0
  /\ late <= 1

IInv == TypeOK /\ MarkedPublished /\ UpdateAccounted /\ QuietInv

-----------------------------------------------------------------------------
(* The slot Run serves, and the ones it turns to next, are in the table.   *)
LEMMA SlotInTable ==
  ASSUME NEW q \in Seq(Slot), NEW n \in DOMAIN q
  PROVE  /\ q[n] \in Slot /\ q[n].ID \in Id
         /\ q # <<>>
         /\ (n % Len(q)) + 1 \in DOMAIN q
         /\ (n % Len(q)) + 1 \in Nat \ {0}
<1>1. q[n] \in Slot /\ Len(q) \in Nat /\ n \in 1..Len(q)
  OBVIOUS
<1>2. n % Len(q) \in 0..(Len(q) - 1)
  BY <1>1
<1> QED  BY <1>1, <1>2 DEF Slot

(* Entering one element into a function on the identifiers.                *)
LEMMA VersionUpdate ==
  ASSUME NEW f \in Version, NEW i \in Id, NEW v \in 0..MaxVer
  PROVE  /\ [f EXCEPT ![i] = v] \in Version
         /\ [f EXCEPT ![i] = v][i] = v
         /\ \A j \in Id : j # i => [f EXCEPT ![i] = v][j] = f[j]
  BY DEF Version

(* The initial state satisfies the invariant.                              *)
LEMMA InitInv == Init => IInv
<1> SUFFICES ASSUME Init PROVE IInv
  OBVIOUS
<1>1. \A i \in Id : ver[i] = 0 /\ marked[i] = 0 /\ sent[i] = 0
  BY DEF Init
<1>2. TypeOK
  <2>1. MaxVer \in Nat /\ [i \in Id |-> 0] \in Version
    BY MasterAssumption DEF Version
  <2>2. ver \in Version /\ marked \in Version /\ sent \in Version /\ failed \in Version
    BY <2>1 DEF Init
  <2>3. schedule \in Seq(Slot) /\ sporadic \in [Id -> Seq(Id)]
    BY DEF Init
  <2>4. k \in Nat \ {0} /\ runs \in Nat /\ late \in Nat
    BY DEF Init
  <2>5. ctxDone \in BOOLEAN /\ busClosed \in BOOLEAN /\ pending \in SUBSET Id /\ onBus \in SUBSET Id
    BY Zenon DEF Init
  <2>6. pc = "off" /\ cur \in Id \cup {0} /\ "off" # "send"
    BY DEF Init
  <2> QED  BY <2>2, <2>3, <2>4, <2>5, <2>6, Zenon DEF TypeOK
<1>3. MarkedPublished
  BY <1>1 DEF MarkedPublished
<1>4. UpdateAccounted
  BY <1>1 DEF UpdateAccounted
<1>5. QuietInv
  BY DEF Init, QuietInv
<1> QED  BY <1>2, <1>3, <1>4, <1>5 DEF IInv

-----------------------------------------------------------------------------
(* Every step keeps the types.                                             *)
LEMMA StepType == TypeOK /\ [Next]_vars => TypeOK'
<1> SUFFICES ASSUME TypeOK, [Next]_vars PROVE TypeOK'
  OBVIOUS
<1> USE DEF TypeOK
<1>1. CASE SetSchedule
  BY <1>1, MasterAssumption DEF SetSchedule, run, busVars
<1>2. CASE SetSporadicGroup
  <2>1. sporadic' \in [Id -> Seq(Id)]
    BY <1>2, MasterAssumption DEF SetSporadicGroup
  <2> QED  BY <1>2, <2>1 DEF SetSporadicGroup, run, busVars
<1>3. ASSUME NEW i \in Live, SetPending(i) PROVE TypeOK'
  <2>1. i \in Id /\ ver[i] \in 0..MaxVer
    BY MasterAssumption DEF Version
  <2>2. marked' \in Version
    BY <1>3, <2>1, VersionUpdate DEF SetPending
  <2> QED  BY <1>3, <2>1, <2>2 DEF SetPending, app, run, busVars
<1>4. ASSUME NEW i \in Live, PublishUpdate(i) PROVE TypeOK'
  <2>1. i \in Id /\ ver[i] \in 0..MaxVer /\ ver[i] + 1 \in 0..MaxVer
    BY <1>4, MasterAssumption, SMTT(30) DEF Version, PublishUpdate
  <2>2. ver' \in Version
    BY <1>4, <2>1, VersionUpdate DEF PublishUpdate
  <2> QED  BY <1>4, <2>1, <2>2 DEF PublishUpdate, app, run
<1>5. ASSUME NEW i \in Live, Withdraw(i) PROVE TypeOK'
  BY <1>5 DEF Withdraw, app, run
<1>6. CASE CloseBus
  BY <1>6 DEF CloseBus, app, run
<1>7. CASE Cancel
  BY <1>7 DEF Cancel, app, busVars
<1>8. CASE Start
  <2>1. schedule # <<>> => 1 \in DOMAIN schedule
    OBVIOUS
  <2>2. pc' \in {"off", "check"} /\ (pc' # "off" => k' \in DOMAIN schedule')
    BY <1>8, <2>1 DEF Start, app
  <2>3. k' \in Nat \ {0} /\ runs' \in Nat /\ late' \in Nat /\ pc' # "send"
    BY <1>8, <2>2 DEF Start
  <2>4. ctxDone' \in BOOLEAN
    BY <1>8, Zenon DEF Start
  <2>5. UNCHANGED <<schedule, sporadic, pending, cur, onBus, busClosed, ver, marked, sent, failed>>
    BY <1>8 DEF Start, app, busVars
  <2> QED  BY <2>2, <2>3, <2>4, <2>5, Zenon
<1>9. CASE CheckCtx
  BY <1>9 DEF CheckCtx, app, busVars
<1>10. CASE SelectSporadic
  <2>1. schedule[k].ID \in Id
    BY <1>10, SlotInTable DEF SelectSporadic
  <2> QED  BY <1>10, <2>1 DEF SelectSporadic, Clear, app, busVars
<1>11. CASE SendHeader
  <2>1. cur \in Id /\ ver[cur] \in 0..MaxVer /\ marked[cur] \in 0..MaxVer
    BY <1>11 DEF SendHeader, Version
  <2>2. sent' \in Version /\ failed' \in Version
    BY <1>11, <2>1, VersionUpdate DEF SendHeader
  <2>3. late' \in Nat
    BY <1>11 DEF SendHeader
  <2> QED  BY <1>11, <2>2, <2>3 DEF SendHeader, app, busVars
<1>12. CASE SleepTimer
  <2>1. k' \in DOMAIN schedule /\ k' \in Nat \ {0}
    BY <1>12, SlotInTable DEF SleepTimer
  <2> QED  BY <1>12, <2>1 DEF SleepTimer, app, busVars
<1>13. CASE SleepCancelled
  BY <1>13 DEF SleepCancelled, app, busVars
<1>14. CASE UNCHANGED vars
  BY <1>14 DEF vars, app, run, busVars
<1> QED  BY <1>1, <1>2, <1>3, <1>4, <1>5, <1>6, <1>7, <1>8, <1>9, <1>10, <1>11, <1>12,
            <1>13, <1>14 DEF Next, Run

-----------------------------------------------------------------------------
(* Marks stay behind the data they announce.                               *)
LEMMA StepMarked == TypeOK /\ MarkedPublished /\ [Next]_vars => MarkedPublished'
<1> SUFFICES ASSUME TypeOK, MarkedPublished, [Next]_vars PROVE MarkedPublished'
  OBVIOUS
<1>1. \A i \in Id : ver[i] \in 0..MaxVer /\ marked[i] \in 0..MaxVer
  BY DEF TypeOK, Version
<1>2. ASSUME NEW i \in Live, SetPending(i) PROVE MarkedPublished'
  BY <1>1, <1>2, MasterAssumption DEF SetPending, MarkedPublished, TypeOK, Version, busVars
<1>3. ASSUME NEW i \in Live, PublishUpdate(i) PROVE MarkedPublished'
  BY <1>1, <1>3, MasterAssumption DEF PublishUpdate, MarkedPublished, TypeOK, Version
<1>4. ASSUME UNCHANGED <<ver, marked>> PROVE MarkedPublished'
  BY <1>4 DEF MarkedPublished
<1> QED  BY <1>2, <1>3, <1>4
           DEF Next, Run, SetSchedule, SetSporadicGroup, Withdraw, CloseBus, Cancel, Start,
               CheckCtx, SelectSporadic, SendHeader, SleepTimer, SleepCancelled, vars, busVars

(* Every step accounts for every marked update.                            *)
LEMMA StepAccounted ==
  TypeOK /\ MarkedPublished /\ UpdateAccounted /\ [Next]_vars => UpdateAccounted'
<1> SUFFICES ASSUME TypeOK, MarkedPublished, UpdateAccounted, [Next]_vars,
                    NEW j \in Id
             PROVE  (\/ marked[j] <= sent[j] \/ marked[j] <= failed[j]
                     \/ j \in pending \/ (pc = "send" /\ cur = j))'
  BY DEF UpdateAccounted
<1> DEFINE P == marked[j] <= sent[j] \/ marked[j] <= failed[j]
<1>0. P \/ j \in pending \/ (pc = "send" /\ cur = j)
  BY DEF UpdateAccounted
<1>1. ASSUME NEW i \in Live, SetPending(i) PROVE P' \/ j \in pending' \/ (pc' = "send" /\ cur' = j)
  BY <1>0, <1>1 DEF SetPending, run, TypeOK, Version
<1>2. CASE SelectSporadic
  BY <1>0, <1>2 DEF SelectSporadic, Clear
<1>3. CASE SendHeader
  <2>1. CASE cur = j
    <3>1. marked[j] \in 0..MaxVer /\ marked[j] <= ver[j] /\ marked' = marked
      BY <1>3 DEF MarkedPublished, TypeOK, Version, SendHeader
    <3>2. sent'[j] = ver[j] \/ failed'[j] = marked[j]
      BY <1>3, <2>1 DEF SendHeader, TypeOK, Version
    <3> QED  BY <3>1, <3>2
  <2>2. CASE cur # j
    BY <1>0, <1>3, <2>2 DEF SendHeader, TypeOK, Version
  <2> QED  BY <2>1, <2>2
<1>4. ASSUME UNCHANGED <<marked, sent, failed, pending>>, pc # "send" \/ UNCHANGED <<pc, cur>>
      PROVE  P' \/ j \in pending' \/ (pc' = "send" /\ cur' = j)
  BY <1>0, <1>4
<1> QED  BY <1>1, <1>2, <1>3, <1>4
           DEF Next, Run, SetSchedule, SetSporadicGroup, PublishUpdate, Withdraw, CloseBus,
               Cancel, Start, CheckCtx, SleepTimer, SleepCancelled, vars, run

(* After cancellation at most the header already chosen is sent.           *)
LEMMA StepQuiet == TypeOK /\ QuietInv /\ [Next]_vars => QuietInv'
<1> SUFFICES ASSUME TypeOK, QuietInv, [Next]_vars PROVE QuietInv'
  OBVIOUS
<1>1. CASE Run
  BY <1>1 DEF Run, CheckCtx, SelectSporadic, SendHeader, SleepTimer, SleepCancelled,
              QuietInv, TypeOK
<1>2. CASE Start \/ Cancel
  BY <1>2 DEF Start, Cancel, QuietInv, TypeOK
<1>3. CASE UNCHANGED <<pc, ctxDone, late>>
  BY <1>3 DEF QuietInv
<1> QED  BY <1>1, <1>2, <1>3
           DEF Next, SetSchedule, SetSporadicGroup, SetPending, PublishUpdate, Withdraw,
               CloseBus, vars, run

-----------------------------------------------------------------------------
(* The invariant holds in every reachable state.                           *)
THEOREM Invariance == Spec => []IInv
<1>1. Init => IInv
  BY InitInv
<1>2. IInv /\ [Next]_vars => IInv'
  BY StepType, StepMarked, StepAccounted, StepQuiet DEF IInv
<1> QED  BY <1>1, <1>2, PTL DEF Spec

(* Every variable keeps its type and a running loop has a slot.            *)
THEOREM TypeCorrect == Spec => []TypeOK
  BY Invariance, PTL DEF IInv

(* No update marked with SetPending is ever forgotten.                     *)
THEOREM Accounted == Spec => []UpdateAccounted
  BY Invariance, PTL DEF IInv

(* A cancelled Run sends at most one more header.                          *)
THEOREM Quiet == Spec => []QuietAfterCancel
<1>1. IInv => QuietAfterCancel
  BY DEF IInv, QuietInv, QuietAfterCancel
<1> QED  BY <1>1, Invariance, PTL
=============================================================================
