--------------------------- MODULE SlaveNodeProofs --------------------------
(***************************************************************************)
(* The list of identifiers of slave/slave.go follows the registrations on  *)
(* the bus, for any number of goroutines and calls, as long as no two      *)
(* goroutines set the response of the same identifier.  (SlaveShared shows *)
(* that without this the two come apart.)                                  *)
(***************************************************************************)
EXTENDS SlaveNode, WellFoundedInduction, TLAPS

(* Each identifier has one goroutine that sets its response.               *)
DisjointOwners == \A p, q \in Proc : p # q => Owns[p] \cap Owns[q] = {}

-----------------------------------------------------------------------------
(* Induction over the natural numbers, for a set: a number missing from it *)
(* would have a least one.                                                 *)
LEMMA SetInduction ==
  ASSUME NEW S, 0 \in S, \A n \in Nat : n \in S => n + 1 \in S
  PROVE  Nat \subseteq S
<1> DEFINE T == Nat \ S
           R == {ss \in Nat \X Nat : ss[1] < ss[2]}
<1>1. SUFFICES ASSUME T # {} PROVE FALSE
  OBVIOUS
<1>2. IsWellFoundedOn(R, Nat)
  BY NatLessThanWellFounded DEF OpToRel
<1>3. \E x \in T : \A y \in T : ~(<<y, x>> \in R)
  <2>1. T \subseteq Nat
    OBVIOUS
  <2> HIDE DEF R, T
  <2> QED  BY <1>1, <1>2, <2>1, WFMin
<1>4. PICK x \in T : \A y \in T : ~(<<y, x>> \in R)
  BY <1>3
<1>5. \A y \in T : ~(y < x)
  BY <1>4
<1> QED  BY <1>4, <1>5

(* What the loop of removeID has kept after n rounds, as an equation.      *)
IsLoop(out, q, i, m) ==
  out = [n \in 0..m |-> IF n = 0 THEN <<>>
                        ELSE IF q[n] # i THEN Append(out[n - 1], q[n]) ELSE out[n - 1]]

(* The loop runs to the end of the list.                                   *)
LEMMA LoopExists ==
  ASSUME NEW q, NEW i
  PROVE  \A m \in Nat : \E out : IsLoop(out, q, i, m)
<1> DEFINE S == {m \in Nat : \E out : IsLoop(out, q, i, m)}
<1>1. 0 \in S
  <2> DEFINE f == [n \in 0..0 |-> <<>>]
  <2>1. IsLoop(f, q, i, 0)
    BY DEF IsLoop
  <2> QED  BY <2>1
<1>2. ASSUME NEW m \in Nat, m \in S PROVE m + 1 \in S
  <2>1. PICK f : IsLoop(f, q, i, m)
    BY <1>2
  <2> DEFINE x == IF q[m + 1] # i THEN Append(f[m], q[m + 1]) ELSE f[m]
             g == [n \in 0..(m + 1) |-> IF n = m + 1 THEN x ELSE f[n]]
  <2>2. \A n \in 0..(m + 1) :
          g[n] = IF n = 0 THEN <<>>
                 ELSE IF q[n] # i THEN Append(g[n - 1], q[n]) ELSE g[n - 1]
    <3> SUFFICES ASSUME NEW n \in 0..(m + 1)
                 PROVE  g[n] = IF n = 0 THEN <<>>
                               ELSE IF q[n] # i THEN Append(g[n - 1], q[n]) ELSE g[n - 1]
      OBVIOUS
    <3>1. CASE n = m + 1
      <4>1. n # 0 /\ n - 1 = m /\ g[n] = x /\ g[m] = f[m]
        BY <3>1
      <4> QED  BY <3>1, <4>1
    <3>2. CASE n # m + 1
      <4>1. n \in 0..m /\ g[n] = f[n] /\ (n # 0 => g[n - 1] = f[n - 1])
        BY <3>2
      <4>2. f[n] = IF n = 0 THEN <<>>
                   ELSE IF q[n] # i THEN Append(f[n - 1], q[n]) ELSE f[n - 1]
        BY <2>1, <4>1 DEF IsLoop
      <4> QED  BY <4>1, <4>2
    <3> QED  BY <3>1, <3>2
  <2>3. IsLoop(g, q, i, m + 1)
    <3>1. \E h : h = g
      OBVIOUS
    <3>2. PICK h : h = g
      BY <3>1
    <3>3. h = [n \in 0..(m + 1) |-> h[n]]
      BY <3>2
    <3> HIDE DEF g
    <3> QED  BY <2>2, <3>2, <3>3 DEF IsLoop
  <2> QED  BY <2>3
<1> HIDE DEF S
<1>3. Nat \subseteq S
  BY <1>1, <1>2, SetInduction
<1> QED  BY <1>3 DEF S

(* Its rounds, one by one.                                                 *)
LEMMA LoopRound ==
  ASSUME NEW out, NEW q, NEW i, NEW m \in Nat, IsLoop(out, q, i, m)
  PROVE  /\ out[0] = <<>>
         /\ \A n \in Nat : n + 1 <= m =>
              out[n + 1] = IF q[n + 1] # i THEN Append(out[n], q[n + 1]) ELSE out[n]
<1>1. \A n \in 0..m : out[n] = IF n = 0 THEN <<>>
                              ELSE IF q[n] # i THEN Append(out[n - 1], q[n]) ELSE out[n - 1]
  BY DEF IsLoop
<1>2. ASSUME NEW n \in Nat, n + 1 <= m
      PROVE  out[n + 1] = IF q[n + 1] # i THEN Append(out[n], q[n + 1]) ELSE out[n]
  <2>1. n + 1 \in 0..m /\ n + 1 # 0 /\ (n + 1) - 1 = n
    BY <1>2
  <2> QED  BY <1>1, <2>1
<1> QED  BY <1>1, <1>2

(* removeID takes the identifier out, keeps the others and repeats none.   *)
LEMMA RemoveID ==
  ASSUME NEW q \in Seq(Byte), NEW i, IsInjective(q)
  PROVE  /\ removeID(q, i) \in Seq(Byte)
         /\ ToSet(removeID(q, i)) = ToSet(q) \ {i}
         /\ IsInjective(removeID(q, i))
<1>1. PICK out : IsLoop(out, q, i, Len(q)) /\ removeID(q, i) = out[Len(q)]
  <2>1. \E out : IsLoop(out, q, i, Len(q))
    BY LoopExists, SMTT(30)
  <2>2. PICK out : out = CHOOSE f : IsLoop(f, q, i, Len(q))
    OBVIOUS
  <2>3. IsLoop(out, q, i, Len(q))
    BY <2>1, <2>2
  <2>4. removeID(q, i) = out[Len(q)]
    BY <2>2, Zenon DEF removeID, IsLoop
  <2> QED  BY <2>3, <2>4
<1> DEFINE Good(n) == /\ out[n] \in Seq(Byte)
                      /\ ToSet(out[n]) = {q[k] : k \in 1..n} \ {i}
                      /\ IsInjective(out[n])
           S == {n \in Nat : n <= Len(q) => Good(n)}
<1>2. 0 \in S
  <2>1. out[0] = <<>>
    BY <1>1, LoopRound
  <2>2. ToSet(<<>>) = {} /\ IsInjective(<<>>) /\ <<>> \in Seq(Byte)
    BY DEF ToSet, IsInjective
  <2>3. {q[k] : k \in 1..0} = {}
    OBVIOUS
  <2> QED  BY <2>1, <2>2, <2>3
<1>3. ASSUME NEW n \in Nat, n \in S PROVE n + 1 \in S
  <2> SUFFICES ASSUME n + 1 <= Len(q) PROVE Good(n + 1)
    OBVIOUS
  <2>1. Good(n) /\ n + 1 \in 0..Len(q) /\ n + 1 \in DOMAIN q
    BY <1>3
  <2>2. out[n + 1] = IF q[n + 1] # i THEN Append(out[n], q[n + 1]) ELSE out[n]
    BY <1>1, <2>1, LoopRound
  <2>3. {q[k] : k \in 1..(n + 1)} = {q[k] : k \in 1..n} \cup {q[n + 1]}
    BY <2>1
  <2>4. PICK s, v : s = out[n] /\ v = q[n + 1]
    OBVIOUS
  <2>5. s \in Seq(Byte) /\ v \in Byte
    BY <2>1, <2>4
  <2>6. CASE v = i
    BY <2>1, <2>2, <2>3, <2>4, <2>6
  <2>7. CASE v # i
    <3>1. out[n + 1] = Append(s, v)
      BY <2>2, <2>4, <2>7
    <3>2. /\ Append(s, v) \in Seq(Byte)
          /\ Len(Append(s, v)) = Len(s) + 1
          /\ Append(s, v)[Len(s) + 1] = v
          /\ \A k \in 1..Len(s) : Append(s, v)[k] = s[k]
      BY <2>5
    <3>3. ToSet(Append(s, v)) = ToSet(s) \cup {v}
      BY <3>2, <2>5 DEF ToSet
    <3>4. v \notin ToSet(s)
      <4>1. \A k \in 1..n : q[k] # q[n + 1]
        BY <2>1 DEF IsInjective
      <4> QED  BY <4>1, <2>1, <2>4
    <3>5. IsInjective(Append(s, v))
      BY <3>2, <3>4, <2>1, <2>4, <2>5 DEF IsInjective, ToSet
    <3> QED  BY <3>1, <3>2, <3>3, <3>5, <2>1, <2>3, <2>4, <2>7
  <2> QED  BY <2>6, <2>7
<1>4. Len(q) \in S
  <2> HIDE DEF S
  <2>1. Nat \subseteq S
    BY <1>2, <1>3, SetInduction
  <2> QED  BY <2>1
<1>5. Good(Len(q))
  BY <1>4
<1>6. {q[k] : k \in 1..Len(q)} = ToSet(q)
  BY DEF ToSet
<1> QED  BY <1>1, <1>5, <1>6

-----------------------------------------------------------------------------
(* A goroutine works on an identifier of its own.                          *)
CallInv ==
  /\ ids \in Seq(Byte) /\ IsInjective(ids)
  /\ pc \in [Proc -> {"idle", "publish", "list"}]
  /\ id \in [Proc -> Byte]
  /\ data \in [Proc -> Data]
  /\ \A p \in Proc : pc[p] # "idle" => id[p] \in Owns[p]

(* Between the two writes the first one stands: nobody else has registered *)
(* or withdrawn the identifier since.                                      *)
WrittenInv ==
  \A p \in Proc : pc[p] = "list" =>
    /\ data[p] \in {"nil", "bytes"}
    /\ id[p] \in registered <=> data[p] = "bytes"

(* Wherever no goroutine is between the two writes, list and bus agree.    *)
MatchInv ==
  \A i : (\A p \in Proc : pc[p] = "list" => id[p] # i) =>
           (i \in ToSet(ids) <=> i \in registered)

IInv == CallInv /\ WrittenInv /\ MatchInv

(* Initially nothing is registered and nothing is listed.                  *)
LEMMA InitInv == Init => IInv
<1> SUFFICES ASSUME Init PROVE IInv
  OBVIOUS
<1>1. ids = <<>> /\ registered = {} /\ \A p \in Proc : pc[p] = "idle"
  BY DEF Init
<1>2. ids \in Seq(Byte) /\ IsInjective(ids) /\ ToSet(ids) = {}
  BY <1>1 DEF IsInjective, ToSet
<1>3. pc \in [Proc -> {"idle", "publish", "list"}] /\ id \in [Proc -> Byte] /\ data \in [Proc -> Data]
  BY DEF Init, Byte, Data
<1>4. "idle" # "list"
  OBVIOUS
<1> QED  BY <1>1, <1>2, <1>3, <1>4 DEF IInv, CallInv, WrittenInv, MatchInv

(* Where goroutine p goes, and where the others stay.                      *)
LEMMA Moves ==
  ASSUME NEW p \in Proc, NEW label \in {"idle", "publish", "list"}, Goto(p, label),
         pc \in [Proc -> {"idle", "publish", "list"}]
  PROVE  /\ pc' \in [Proc -> {"idle", "publish", "list"}]
         /\ pc'[p] = label
         /\ \A q \in Proc : q # p => pc'[q] = pc[q]
  BY DEF Goto

(* Calling SetResponse changes nothing yet.                                *)
LEMMA CallStep ==
  ASSUME IInv, NEW p \in Proc, SetResponse(p)
  PROVE  IInv'
<1> USE DEF IInv, CallInv
<1>1. PICK i \in Owns[p], d \in Data :
        /\ id' = [id EXCEPT ![p] = i]
        /\ data' = [data EXCEPT ![p] = d]
        /\ Goto(p, IF i > LINMaxID THEN "idle" ELSE "publish")
  BY DEF SetResponse
<1>2. i \in Byte /\ pc[p] = "idle" /\ UNCHANGED <<registered, ids>>
  BY SlaveAssumption DEF SetResponse
<1>3. PICK label \in {"idle", "publish"} : Goto(p, label)
  BY <1>1
<1>4. /\ pc' \in [Proc -> {"idle", "publish", "list"}]
      /\ pc'[p] # "list"
      /\ \A q \in Proc : q # p => pc'[q] = pc[q]
  BY <1>3, Moves
<1>5. /\ id' \in [Proc -> Byte] /\ data' \in [Proc -> Data] /\ id'[p] = i
      /\ \A q \in Proc : q # p => id'[q] = id[q] /\ data'[q] = data[q]
  BY <1>1, <1>2
<1>6. CallInv'
  <2>1. \A q \in Proc : pc'[q] # "idle" => id'[q] \in Owns[q]
    BY <1>4, <1>5, <1>1
  <2> QED  BY <1>2, <1>4, <1>5, <2>1 DEF IsInjective
<1>7. WrittenInv'
  BY <1>2, <1>4, <1>5 DEF WrittenInv
<1>8. MatchInv'
  <2>1. SUFFICES ASSUME NEW j, \A q \in Proc : pc'[q] = "list" => id'[q] # j
                 PROVE  j \in ToSet(ids') <=> j \in registered'
    BY DEF MatchInv, ToSet
  <2>2. \A q \in Proc : pc[q] = "list" => id[q] # j
    BY <2>1, <1>2, <1>4, <1>5
  <2> QED  BY <2>2, <1>2 DEF MatchInv
<1> QED  BY <1>6, <1>7, <1>8

(* Publish registers or withdraws, and the identifier is in flight.        *)
LEMMA PublishStep ==
  ASSUME IInv, DisjointOwners, NEW p \in Proc, Publish(p)
  PROVE  IInv'
<1> USE DEF IInv, CallInv
<1>1. pc[p] = "publish" /\ UNCHANGED <<ids, id, data>> /\ id[p] \in Owns[p]
  BY DEF Publish
<1>2. PICK label \in {"idle", "list"} :
        /\ Goto(p, label)
        /\ label = "idle" => registered' = registered
        /\ label = "list" =>
             /\ data[p] \in {"nil", "bytes"}
             /\ registered' = IF data[p] = "nil" THEN registered \ {id[p]}
                              ELSE registered \cup {id[p]}
  BY DEF Publish
<1>3. /\ pc' \in [Proc -> {"idle", "publish", "list"}]
      /\ pc'[p] = label
      /\ \A q \in Proc : q # p => pc'[q] = pc[q]
  BY <1>2, Moves
<1>4. CallInv'
  BY <1>1, <1>3 DEF IsInjective
<1>5. \A j : j # id[p] => (j \in registered' <=> j \in registered)
  BY <1>2
<1>6. WrittenInv'
  <2>1. ASSUME NEW q \in Proc, q # p, pc[q] = "list" PROVE id[q] # id[p]
    BY <2>1, <1>1 DEF DisjointOwners
  <2>2. pc'[p] = "list" => /\ data'[p] \in {"nil", "bytes"}
                           /\ id'[p] \in registered' <=> data'[p] = "bytes"
    BY <1>1, <1>2, <1>3
  <2> QED  BY <2>1, <2>2, <1>1, <1>3, <1>5 DEF WrittenInv
<1>7. MatchInv'
  <2>1. SUFFICES ASSUME NEW j, \A q \in Proc : pc'[q] = "list" => id'[q] # j
                 PROVE  j \in ToSet(ids') <=> j \in registered'
    BY DEF MatchInv, ToSet
  <2>2. \A q \in Proc : pc[q] = "list" => id[q] # j
    BY <2>1, <1>1, <1>3
  <2>3. j \in registered' <=> j \in registered
    BY <2>1, <1>1, <1>2, <1>3, <1>5
  <2> QED  BY <2>2, <2>3, <1>1 DEF MatchInv
<1> QED  BY <1>4, <1>6, <1>7

(* The list follows what was registered.                                   *)
LEMMA ListStep ==
  ASSUME IInv, DisjointOwners, NEW p \in Proc, UpdateList(p)
  PROVE  IInv'
<1> USE DEF IInv, CallInv
<1>1. pc[p] = "list" /\ UNCHANGED <<registered, id, data>> /\ Goto(p, "idle") /\ id[p] \in Byte
  BY DEF UpdateList
<1>2. /\ pc' \in [Proc -> {"idle", "publish", "list"}]
      /\ pc'[p] = "idle"
      /\ \A q \in Proc : q # p => pc'[q] = pc[q]
  BY <1>1, Moves
<1>3. /\ ids' \in Seq(Byte) /\ IsInjective(ids')
      /\ ToSet(ids') = IF data[p] = "nil" THEN ToSet(ids) \ {id[p]} ELSE ToSet(ids) \cup {id[p]}
  <2>1. PICK i : i = id[p]
    OBVIOUS
  <2>2. CASE data[p] = "nil"
    <3>1. ids' = removeID(ids, i)
      BY <2>1, <2>2 DEF UpdateList
    <3> QED  BY <2>1, <2>2, <3>1, RemoveID
  <2>3. CASE data[p] # "nil" /\ containsID(ids, i)
    <3>1. ids' = ids /\ i \in ToSet(ids)
      BY <2>1, <2>3 DEF UpdateList, containsID, ToSet
    <3> QED  BY <2>1, <2>3, <3>1
  <2>4. CASE data[p] # "nil" /\ ~containsID(ids, i)
    <3>1. ids' = Append(ids, i)
      BY <2>1, <2>4 DEF UpdateList
    <3>2. /\ ids' \in Seq(Byte) /\ Len(ids') = Len(ids) + 1 /\ ids'[Len(ids) + 1] = i
          /\ \A n \in 1..Len(ids) : ids'[n] = ids[n]
      BY <3>1, <2>1, <1>1
    <3>3. ToSet(ids') = ToSet(ids) \cup {i}
      BY <3>2 DEF ToSet
    <3>4. \A n \in 1..Len(ids) : ids[n] # i
      BY <2>4 DEF containsID
    <3>5. IsInjective(ids')
      BY <3>2, <3>4 DEF IsInjective
    <3> QED  BY <2>1, <2>4, <3>2, <3>3, <3>5
  <2> QED  BY <2>2, <2>3, <2>4
<1>4. CallInv'
  BY <1>1, <1>2, <1>3
<1>5. WrittenInv'
  BY <1>1, <1>2 DEF WrittenInv
<1>6. MatchInv'
  <2>1. SUFFICES ASSUME NEW j, \A q \in Proc : pc'[q] = "list" => id'[q] # j
                 PROVE  j \in ToSet(ids') <=> j \in registered'
    BY DEF MatchInv, ToSet
  <2>2. CASE j = id[p]
    BY <2>2, <1>1, <1>3 DEF WrittenInv
  <2>3. CASE j # id[p]
    <3>1. \A q \in Proc : pc[q] = "list" => id[q] # j
      BY <2>1, <2>3, <1>1, <1>2
    <3> QED  BY <2>3, <3>1, <1>1, <1>3 DEF MatchInv
  <2> QED  BY <2>2, <2>3
<1> QED  BY <1>4, <1>5, <1>6

(* The list and the bus agree on every identifier whose SetResponse is not *)
(* under way, and the list repeats none: slave.Node's two locks suffice    *)
(* when each identifier is set by one goroutine, also after refused calls  *)
(* and after the bus is closed.                                            *)
THEOREM ListFollowsBus ==
  ASSUME DisjointOwners
  PROVE  Spec => []ListMatchesBus
<1>1. Init => IInv
  BY InitInv
<1>2. IInv /\ [Next]_vars => IInv'
  <2> SUFFICES ASSUME IInv, [Next]_vars PROVE IInv'
    OBVIOUS
  <2>1. CASE UNCHANGED <<registered, ids, pc, id, data>>
    BY <2>1 DEF IInv, CallInv, WrittenInv, MatchInv, IsInjective, ToSet
  <2> QED  BY <2>1, CallStep, PublishStep, ListStep, DisjointOwners
           DEF Next, CloseBus, Finished, vars
<1>3. IInv => ListMatchesBus
  <2> SUFFICES ASSUME IInv PROVE ListMatchesBus
    OBVIOUS
  <2>1. \A i : i \in InFlight <=> \E p \in Proc : pc[p] = "list" /\ id[p] = i
    BY DEF InFlight
  <2>2. \A i : i \notin InFlight => (i \in RegisteredIDs <=> i \in registered)
    BY <2>1 DEF IInv, MatchInv, RegisteredIDs
  <2> QED  BY <2>2 DEF IInv, CallInv, ListMatchesBus
<1> QED  BY <1>1, <1>2, <1>3, PTL DEF Spec
=============================================================================
