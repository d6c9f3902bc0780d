-------------------------- MODULE SlotEngineProofs --------------------------
(***************************************************************************)
(* The slot engine for any requests, conversations, slots, budget, queue   *)
(* bound and faults: slots, grants, snapshots, waiters and answers are     *)
(* accounted for, a waiter keeps its age and a session its conversation.   *)
(***************************************************************************)
EXTENDS SlotEngine, FiniteSetTheorems, TLAPS

\* The provers tried on a leaf that names none, in this order.
USE SMT, Zenon, SMTT(20), SMTT(30)

----------------------------------------------------------------------------
(* How the total of a ledger of finitely many amounts changes with them *)

Units(f) == UNION {{k} \X (1..f[k]) : k \in DOMAIN f}

\* There are finitely many units, so that they can be counted.
LEMMA TotalType ==
    ASSUME NEW K, IsFiniteSet(K), NEW g \in [K -> Nat]
    PROVE  IsFiniteSet(Units(g)) /\ Total(g) = Cardinality(Units(g)) /\ Total(g) \in Nat
<1> DEFINE B(k) == {k} \X (1..g[k])
           f == [k \in K |-> B(k)]
           T == {B(k) : k \in K}
<1>1. \A k \in K : IsFiniteSet(B(k))
  <2> SUFFICES ASSUME NEW k \in K PROVE IsFiniteSet(B(k))
    OBVIOUS
  <2>1. IsFiniteSet(1..g[k])
    BY FS_Interval
  <2> QED
    BY <2>1, FS_Singleton, FS_Product
<1>2. f \in Surjection(K, T)
  BY DEF Surjection
<1>3. IsFiniteSet(T)
  BY <1>2, FS_Surjection
<1>4. Units(g) = UNION T
  BY DEF Units
<1>5. IsFiniteSet(Units(g))
  BY <1>1, <1>3, <1>4, FS_UNION
<1> QED
  BY <1>5, FS_CardinalityType DEF Total, Units

\* A larger amount adds its new units.
LEMMA TotalGrows ==
    ASSUME NEW K, IsFiniteSet(K), NEW g \in [K -> Nat], NEW k \in K, NEW n \in Nat, n >= g[k],
           NEW h, h = [g EXCEPT ![k] = n]
    PROVE  Total(h) = Total(g) + n - g[k]
<1> DEFINE G == Units(g)
           H == Units(h)
           D == {k} \X ((g[k] + 1)..n)
<1>1. /\ IsFiniteSet(G) /\ Cardinality(G) \in Nat
      /\ Total(g) = Cardinality(G) /\ Total(h) = Cardinality(H)
  <2>1. h \in [K -> Nat]
    OBVIOUS
  <2> QED
    BY <2>1, TotalType
<1>2. IsFiniteSet((g[k] + 1)..n) /\ Cardinality((g[k] + 1)..n) = n - g[k]
  <2>1. g[k] + 1 \in Int /\ n \in Int
    OBVIOUS
  <2>2. /\ IsFiniteSet((g[k] + 1)..n)
        /\ Cardinality((g[k] + 1)..n) = IF g[k] + 1 > n THEN 0 ELSE n - (g[k] + 1) + 1
    BY <2>1, FS_Interval
  <2> QED
    BY <2>2
<1>3. IsFiniteSet({k}) /\ Cardinality({k}) = 1
  BY FS_Singleton
<1>4. IsFiniteSet(D) /\ Cardinality(D) = 1 * (n - g[k])
  BY <1>2, <1>3, FS_Product
<1>5. H = G \cup D
  <2>1. ASSUME NEW x \in H PROVE x \in G \cup D
    <3>1. PICK i \in K : x \in {i} \X (1..h[i])
      BY <2>1 DEF Units
    <3>2. CASE i = k
      BY <3>1, <3>2 DEF Units
    <3>3. CASE i # k
      BY <3>1, <3>3 DEF Units
    <3> QED
      BY <3>2, <3>3
  <2>2. ASSUME NEW x \in G PROVE x \in H
    <3>1. PICK i \in K : x \in {i} \X (1..g[i])
      BY <2>2 DEF Units
    <3>2. x \in {i} \X (1..h[i])
      BY <3>1
    <3> QED
      BY <3>2 DEF Units
  <2>3. ASSUME NEW x \in D PROVE x \in H
    <3>1. x \in {k} \X (1..h[k])
      BY <2>3
    <3> QED
      BY <3>1 DEF Units
  <2> QED
    BY <2>1, <2>2, <2>3
<1>6. G \cap D = {}
  <2> SUFFICES ASSUME NEW x \in G, x \in D PROVE FALSE
    OBVIOUS
  <2>1. PICK i \in K : x \in {i} \X (1..g[i])
    BY DEF Units
  <2> QED
    BY <2>1
<1>7. Cardinality(G \cap D) = 0
  BY <1>6, FS_EmptySet
<1> HIDE DEF G, H, D
<1>8. Cardinality(G \cup D) = Cardinality(G) + Cardinality(D) - Cardinality(G \cap D)
  BY <1>1, <1>4, FS_Union
<1> QED
  BY <1>1, <1>4, <1>5, <1>7, <1>8

\* Replacing one amount changes the total by the difference.
LEMMA TotalUpdate ==
    ASSUME NEW K, IsFiniteSet(K), NEW g \in [K -> Nat], NEW h \in [K -> Nat], NEW k \in K,
           \A j \in K \ {k} : h[j] = g[j]
    PROVE  Total(h) \in Nat /\ Total(g) \in Nat /\ Total(h) + g[k] = Total(g) + h[k]
<1>1. g[k] \in Nat /\ h[k] \in Nat
  OBVIOUS
<1>2. Total(h) \in Nat /\ Total(g) \in Nat
  BY TotalType
<1>3. CASE h[k] >= g[k]
  <2>1. h = [g EXCEPT ![k] = h[k]]
    OBVIOUS
  <2>2. Total(h) = Total(g) + h[k] - g[k]
    BY <1>1, <1>3, <2>1, TotalGrows
  <2> QED
    BY <1>1, <1>2, <2>2
<1>4. CASE h[k] < g[k]
  <2>1. g = [h EXCEPT ![k] = g[k]] /\ g[k] >= h[k]
    BY <1>1, <1>4
  <2>2. Total(g) = Total(h) + g[k] - h[k]
    BY <1>1, <2>1, TotalGrows
  <2> QED
    BY <1>1, <1>2, <2>2
<1> QED
  BY <1>1, <1>2, <1>3, <1>4

\* Smaller amounts have no larger total.
LEMMA TotalShrinks ==
    ASSUME NEW K, IsFiniteSet(K), NEW g \in [K -> Nat], NEW h \in [K -> Nat], \A k \in K : h[k] <= g[k]
    PROVE  Total(h) <= Total(g)
<1> DEFINE G == Units(g)
           H == Units(h)
<1>1. IsFiniteSet(G) /\ Total(g) = Cardinality(G) /\ Total(h) = Cardinality(H)
  BY TotalType
<1>2. ASSUME NEW x \in H PROVE x \in G
  <2>1. PICK k \in K : x \in {k} \X (1..h[k])
    BY <1>2 DEF Units
  <2>2. x \in {k} \X (1..g[k])
    BY <2>1
  <2> QED
    BY <2>2 DEF Units
<1>3. H \in SUBSET G
  BY <1>2
<1> HIDE DEF G, H
<1> QED
  BY <1>1, <1>3, FS_Subset

\* Nothing adds up to nothing.
LEMMA TotalZero ==
    ASSUME NEW K, NEW g \in [K -> Nat], \A k \in K : g[k] = 0
    PROVE  Total(g) = 0
<1>1. \A k \in K : 1..g[k] = {}
  OBVIOUS
<1>2. UNION {{k} \X (1..g[k]) : k \in DOMAIN g} = {}
  BY <1>1
<1> QED
  BY <1>2, FS_EmptySet DEF Total

----------------------------------------------------------------------------
(* The inductive invariant *)

AdmitPCs == {"sweep", "match", "restore", "turn", "turn_pages", "cold", "place", "place_pages"}
BoundPCs == {"restore", "turn", "turn_pages", "place", "place_pages"}
LoopPCs == {"recv", "sleep", "expire", "drain", "drained", "step", "down"}
Replies == {"rejected", "dropped", "done"}

\* A slot is free, reserved or held, and only one of them.
Owned ==
    /\ \A i, j \in Ids : sess[i].slot # NoSlot /\ sess[i].slot = sess[j].slot => i = j
    /\ \A i \in Ids : sess[i].slot # NoSlot => sess[i].slot \notin free /\ sess[i].slot # target
    /\ target \notin free
    /\ \A s \in Slots : s \in free \/ s = target \/ \E i \in Ids : sess[i].slot = s

\* Residency, slot and grant go together, and an id not yet minted has none.
SessionOK(i) ==
    /\ sess[i].residency = "Resident" <=> sess[i].slot # NoSlot
    /\ sess[i].admitted <=> sess[i].slot # NoSlot
    /\ adm[i] = (IF sess[i].admitted THEN sess[i].ctx ELSE 0)
    /\ sess[i].residency # "None" => sess[i].ctx > 0
    /\ sess[i].residency = "None" => sess[i] = NoSession
    /\ i >= next_id => sess[i] = NoSession

WithinBudget == used_bytes = 0 \/ used_bytes < Budget

TableInv ==
    /\ sess \in [Ids -> Session] /\ next_id \in 1..(Cardinality(Requests) + 1)
    /\ free \subseteq Slots /\ adm \in [Ids -> Nat] /\ swap \subseteq Ids
    /\ target \in Slots \cup {NoSlot}
    /\ Owned /\ (\A i \in Ids : SessionOK(i)) /\ WithinBudget /\ SnapshotsOwned

\* What runs on a slot belongs to the session that holds it.
FlightInv ==
    /\ inflight \in [Slots -> [req : Requests \cup {NoReq}, session : Ids \cup {NoId}]]
    /\ \A s \in Slots : inflight[s].req = NoReq <=> inflight[s].session = NoId
    /\ \A s \in Slots : inflight[s].session # NoId => sess[inflight[s].session].slot = s
    /\ fair = Busy

\* The session may be given to the request in admission.
Joins(i) == sess[i].convo = <<>> \/ sess[i].convo[1] = Conv[cur]

\* Where admit is, and what it holds there.
PhaseInv ==
    /\ pc \in AdmitPCs \cup LoopPCs /\ cur \in Requests \cup {NoReq}
    /\ existing \in Ids \cup {NoId} /\ cold_reuse \in Ids \cup {NoId}
    /\ cur # NoReq <=> pc \in AdmitPCs
    /\ existing # NoId <=> pc \in BoundPCs
    /\ target # NoSlot <=> pc = "restore"
    /\ cold_reuse # NoId => pc \in {"cold", "place", "place_pages"}
    /\ repark_age # 0 => cur # NoReq
    /\ existing # NoId => existing \notin Busy /\ Joins(existing)
    /\ pc = "restore" => sess[existing].residency = "Swapped"
    /\ existing # NoId /\ pc # "restore" => sess[existing].residency = "Resident"
    /\ cold_reuse # NoId /\ pc = "cold" =>
          sess[cold_reuse].residency = "Cold" /\ Joins(cold_reuse)

QueueInv ==
    /\ wait_queue \in Seq(Requests) /\ parked \in [Requests -> Nat] /\ stamps \in Nat
    /\ repark_age \in Nat /\ WaitersExact

\* A request is in one place, from its submission on.
InFlight(r) == \E s \in Slots : inflight[s].req = r

AnswersInv ==
    /\ submitted \subseteq Requests /\ gone \subseteq submitted
    /\ answers \in [Requests -> Seq(Replies)]
    /\ \A s, t \in Slots : inflight[s].req # NoReq /\ inflight[s].req = inflight[t].req => s = t
    /\ \A r \in Requests :
        /\ cur = r => r \notin Waiting /\ ~InFlight(r) /\ Len(answers[r]) = 0
        /\ r \in Waiting => ~InFlight(r) /\ Len(answers[r]) = 0
        /\ InFlight(r) => Len(answers[r]) = 0
        /\ Len(answers[r]) <= 1
        /\ r \in submitted <=> cur = r \/ r \in Waiting \/ InFlight(r) \/ Len(answers[r]) = 1

EngineInv == TableInv /\ FlightInv /\ PhaseInv /\ QueueInv /\ AnswersInv

-----------------------------------------------------------------------------
(* The helpers *)

\* There are finitely many session ids, and no id is NoId.
LEMMA IdsAreNumbers ==
    /\ Cardinality(Requests) \in Nat /\ IsFiniteSet(Ids) /\ Ids \subseteq Nat \ {0}
    /\ NoId \notin Ids /\ NoSlot \notin Slots
<1>1. Cardinality(Requests) \in Nat
  BY EngineAssumption, FS_CardinalityType
<1>2. IsFiniteSet(Ids)
  BY <1>1, FS_Interval DEF Ids
<1> QED
  BY <1>1, <1>2, EngineAssumption DEF Ids, NoId, NoSlot

\* Used bytes stay within the budget when grants are given back.
LEMMA BudgetShrinks ==
    ASSUME adm \in [Ids -> Nat], adm' \in [Ids -> Nat], \A i \in Ids : adm'[i] <= adm[i],
           WithinBudget
    PROVE  WithinBudget'
<1>1. Total(adm) \in Nat /\ Total(adm') \in Nat
  BY Zenon, IdsAreNumbers, TotalType
<1>2. Total(adm') <= Total(adm)
  BY Zenon, IdsAreNumbers, TotalShrinks
<1>3. (\A i \in Ids : adm[i] = 0) => (\A i \in Ids : adm'[i] = 0)
  OBVIOUS
<1> QED
  BY <1>1, <1>2, <1>3, EngineAssumption DEF WithinBudget, used_bytes

\* One grant is replaced.
LEMMA GrantReplaced ==
    ASSUME adm \in [Ids -> Nat], adm' \in [Ids -> Nat], NEW k \in Ids,
           \A j \in Ids \ {k} : adm'[j] = adm[j]
    PROVE  Total(adm) \in Nat /\ Total(adm') \in Nat /\ Total(adm') + adm[k] = Total(adm) + adm'[k]
<1>1. IsFiniteSet(Ids)
  BY IdsAreNumbers
<1>2. PICK g \in [Ids -> Nat] : g = adm
  OBVIOUS
<1>3. PICK h \in [Ids -> Nat] : h = adm'
  OBVIOUS
<1>4. \A j \in Ids \ {k} : h[j] = g[j]
  BY <1>2, <1>3
<1>5. Total(h) \in Nat /\ Total(g) \in Nat /\ Total(h) + g[k] = Total(g) + h[k]
  BY <1>1, <1>4, TotalUpdate
<1> QED
  BY <1>2, <1>3, <1>5

\* ... and when one grant grows by what fits.
LEMMA BudgetGrows ==
    ASSUME adm \in [Ids -> Nat], NEW k \in Ids, NEW n \in Nat, n > 0,
           adm' = [adm EXCEPT ![k] = n], WithinBudget,
           \/ adm[k] = 0 /\ Fits(n)
           \/ adm[k] > 0 /\ ResizeFits(k, n)
    PROVE  WithinBudget'
<1> DEFINE g == Total(adm)
           h == Total(adm')
           zero == \A i \in Ids : adm[i] = 0
<1>1. g \in Nat /\ h \in Nat /\ adm' \in [Ids -> Nat] /\ h + adm[k] = g + n
  <2>1. adm' \in [Ids -> Nat] /\ adm'[k] = n /\ \A j \in Ids \ {k} : adm'[j] = adm[j]
    OBVIOUS
  <2>2. g \in Nat /\ h \in Nat /\ h + adm[k] = g + adm'[k]
    BY Zenon, <2>1, GrantReplaced
  <2> QED
    BY <2>1, <2>2
<1>2. ~(\A i \in Ids : adm'[i] = 0)
  OBVIOUS
<1>3. CASE n >= adm[k]
  <2>1. h + adm[k] = g + n
    BY <1>1
  <2>2. zero => g = 0
    BY TotalZero
  <2>3. zero => adm[k] = 0
    OBVIOUS
  <2>4. used_bytes = (IF zero THEN 0 ELSE Weights + g) /\ used_bytes' = Weights + h
    BY <1>2 DEF used_bytes
  <2>5. n > adm[k] => n - adm[k] + (IF zero THEN Weights ELSE 0) < available
    BY <2>3 DEF Fits, ResizeFits
  <2>6. adm[k] \in Nat
    OBVIOUS
  <2> HIDE DEF g, h, zero
  <2>7. CASE n = adm[k]
    BY <1>1, <2>1, <2>3, <2>4, <2>6, <2>7, EngineAssumption DEF WithinBudget
  <2>8. CASE n > adm[k]
    BY <1>1, <2>1, <2>2, <2>3, <2>4, <2>5, <2>6, <2>8, EngineAssumption DEF WithinBudget, available
  <2> QED
    BY <1>3, <2>6, <2>7, <2>8
<1>4. CASE n < adm[k]
  BY <1>1, <1>4, BudgetShrinks
<1> QED
  BY <1>3, <1>4

-----------------------------------------------------------------------------
(* The wait queue *)

Once(q) == \A a, b \in DOMAIN q : q[a] = q[b] => a = b
InLine(q) == {q[a] : a \in DOMAIN q}

\* The waiters that stay are the ones that are not taken out, once each.
LEMMA WithoutSome ==
    ASSUME NEW q \in Seq(Requests), Once(q), NEW R
    PROVE  /\ Without(q, R) \in Seq(Requests) /\ Once(Without(q, R))
           /\ InLine(Without(q, R)) = InLine(q) \ R
           /\ Len(Without(q, R)) <= Len(q)
           /\ InLine(q) \cap R # {} => Len(Without(q, R)) < Len(q)
<1> DEFINE keep == {a \in DOMAIN q : q[a] \notin R}
           m == Cardinality(keep)
           below(a) == {b \in keep : b <= a}
           rank == [a \in keep |-> Cardinality(below(a))]
           at(n) == CHOOSE a \in keep : Cardinality({b \in keep : b <= a}) = n
           w == [n \in 1..m |-> q[at(n)]]
<1>1. Len(q) \in Nat /\ DOMAIN q = 1..Len(q) /\ \A a \in DOMAIN q : q[a] \in Requests
  OBVIOUS
<1>2. IsFiniteSet(DOMAIN q) /\ Cardinality(DOMAIN q) = Len(q)
  BY <1>1, FS_Interval
<1>3. /\ IsFiniteSet(keep) /\ m \in Nat /\ m <= Len(q)
      /\ m = Len(q) => keep = DOMAIN q
  BY <1>2, FS_Subset, FS_CardinalityType
<1>4. ASSUME NEW a \in keep PROVE IsFiniteSet(below(a)) /\ rank[a] \in 1..m
  <2>1. below(a) \in SUBSET keep /\ a \in below(a)
    BY <1>1
  <2>2. IsFiniteSet(below(a)) /\ Cardinality(below(a)) <= m /\ Cardinality(below(a)) \in Nat
    BY <1>3, <2>1, FS_Subset, FS_CardinalityType
  <2>3. Cardinality(below(a)) # 0
    BY Zenon, <2>1, <2>2, FS_EmptySet
  <2> QED
    BY <1>3, <2>2, <2>3
<1>5. ASSUME NEW a \in keep, NEW b \in keep, a < b PROVE rank[a] < rank[b]
  <2>1. below(a) \in SUBSET below(b) /\ below(a) # below(b)
    BY <1>1, <1>5
  <2>2. /\ Cardinality(below(a)) <= Cardinality(below(b))
        /\ Cardinality(below(b)) = Cardinality(below(a)) => below(b) = below(a)
    BY Zenon, <1>4, <2>1, FS_Subset
  <2>3. rank[a] = Cardinality(below(a)) /\ rank[b] = Cardinality(below(b))
    OBVIOUS
  <2>4. rank[a] \in 1..m /\ rank[b] \in 1..m
    BY Zenon, <1>4
  <2> HIDE DEF rank, m
  <2>5. rank[a] \in Nat /\ rank[b] \in Nat
    BY <1>3, <2>4
  <2> QED
    BY <2>1, <2>2, <2>3, <2>5
<1>6. rank \in [keep -> 1..m] /\ \A a, b \in keep : rank[a] = rank[b] => a = b
  <2>1. \A a \in keep : rank[a] \in 1..m
    BY Zenon, <1>4
  <2>2. \A a, b \in keep : a < b => rank[a] < rank[b]
    BY <1>5
  <2>3. \A a \in keep : a \in Nat
    BY <1>1
  <2>4. rank = [a \in keep |-> rank[a]]
    OBVIOUS
  <2> HIDE DEF m, rank
  <2>5. \A a \in keep : rank[a] \in Nat
    BY <1>3, <2>1
  <2>6. ASSUME NEW a \in keep, NEW b \in keep, rank[a] = rank[b] PROVE a = b
    BY <2>2, <2>3, <2>5, <2>6
  <2> QED
    BY <2>1, <2>4, <2>6
<1>7. rank \in Surjection(keep, 1..m)
  <2>1. rank \in Injection(keep, 1..m)
    BY Zenon, <1>6 DEF Injection, IsInjective
  <2>2. IsFiniteSet(1..m) /\ Cardinality(1..m) = m
    BY <1>3, FS_Interval
  <2> QED
    BY <2>1, <2>2, FS_Injection
<1>8. ASSUME NEW n \in 1..m PROVE at(n) \in keep /\ rank[at(n)] = n
  <2>1. PICK a \in keep : rank[a] = n
    BY Zenon, <1>7 DEF Surjection
  <2> QED
    BY <2>1
<1>9. ASSUME NEW a \in keep PROVE at(rank[a]) = a
  BY <1>4, <1>6, <1>8
<1>10. Without(q, R) = w
  BY DEF Without
<1>11. DOMAIN w = 1..m /\ \A n \in 1..m : w[n] = q[at(n)]
  OBVIOUS
<1> HIDE DEF m, rank, at, w, below
<1>12. w \in Seq(Requests) /\ Len(w) = m
  <2>1. \A n \in 1..m : w[n] \in Requests
    BY <1>1, <1>8, <1>11
  <2>2. w \in [1..m -> Requests]
    BY <1>11, <2>1 DEF w
  <2> QED
    BY <1>3, <2>2
<1>13. Once(w)
  BY <1>8, <1>11 DEF Once
<1>14. InLine(w) = InLine(q) \ R
  <2>1. ASSUME NEW n \in 1..m PROVE w[n] \in InLine(q) \ R
    BY <1>8, <1>11 DEF InLine
  <2>2. ASSUME NEW a \in DOMAIN q, q[a] \notin R PROVE q[a] \in InLine(w)
    <3>1. a \in keep
      BY <2>2
    <3>2. rank[a] \in 1..m /\ w[rank[a]] = q[a]
      BY <1>4, <1>9, <1>11, <3>1
    <3> QED
      BY <1>11, <3>2 DEF InLine
  <2> QED
    BY <1>11, <2>1, <2>2 DEF InLine
<1>15. InLine(q) \cap R # {} => m < Len(q)
  <2> SUFFICES ASSUME NEW r \in InLine(q), r \in R PROVE m < Len(q)
    OBVIOUS
  <2>1. PICK a \in DOMAIN q : q[a] = r
    BY DEF InLine
  <2>2. keep # DOMAIN q
    BY <2>1
  <2> HIDE DEF keep
  <2>3. m # Len(q)
    BY <1>3, <2>2
  <2>4. m \in Nat /\ Len(q) \in Nat /\ m <= Len(q)
    BY Zenon, <1>1, <1>3
  <2> QED
    BY <2>3, <2>4
<1> QED
  BY <1>3, <1>10, <1>12, <1>13, <1>14, <1>15

-----------------------------------------------------------------------------
(* What is done to the session table *)

\* The slot acquire picks is a free one.
LEMMA FirstFree ==
    ASSUME free \subseteq Slots, free # {}
    PROVE  Min(free) \in free
<1> DEFINE R == {ss \in Nat \X Nat : ss[1] < ss[2]}
<1>1. free \subseteq Nat
  BY EngineAssumption
<1>2. IsWellFoundedOn(R, Nat)
  BY NatLessThanWellFounded DEF OpToRel
<1>3. PICK s \in free : \A t \in free : ~(<<t, s>> \in R)
  BY Zenon, <1>1, <1>2, WFMin
<1>4. \A t \in free : s <= t
  <2>1. \A a, b \in Nat : a < b => <<a, b>> \in R
    OBVIOUS
  <2>2. \A t \in free : t \in Nat /\ s \in Nat /\ ~(t < s)
    BY Zenon, <1>1, <1>3, <2>1
  <2> QED
    BY <2>2
<1> QED
  BY <1>4 DEF Min

\* Sessions that give their slots back leave every slot with one owner.
LEMMA SlotsGivenBack ==
    ASSUME TableInv, NEW S \in SUBSET Ids, free' = Freed(S), target' = target,
           \A i \in Ids : sess'[i].slot = IF i \in S THEN NoSlot ELSE sess[i].slot
    PROVE  Owned' /\ free' \subseteq Slots
<1>1. \A i \in Ids : sess[i].slot \in Slots \cup {NoSlot}
  BY DEF TableInv, Session
<1>2. \A s : s \in free' <=> s \in free \/ \E i \in S : s = sess[i].slot /\ s # NoSlot
  BY DEF Freed
<1>3. free' \subseteq Slots
  BY <1>1, <1>2 DEF TableInv
<1>4. \A i, j \in Ids : sess'[i].slot # NoSlot /\ sess'[i].slot = sess'[j].slot => i = j
  BY DEF TableInv, Owned
<1>5. \A i \in Ids : sess'[i].slot # NoSlot => sess'[i].slot \notin free' /\ sess'[i].slot # target'
  BY <1>2 DEF TableInv, Owned
<1>6. target' \notin free'
  BY <1>2 DEF TableInv, Owned
<1>7. \A s \in Slots : s \in free' \/ s = target' \/ \E i \in Ids : sess'[i].slot = s
  BY <1>2, IdsAreNumbers DEF TableInv, Owned
<1> QED
  BY <1>3, <1>4, <1>5, <1>6, <1>7 DEF Owned

\* Grants given back are within the budget.
LEMMA GrantsGivenBack ==
    ASSUME TableInv, NEW S \in SUBSET Ids, adm' = Released(S)
    PROVE  /\ adm' \in [Ids -> Nat] /\ WithinBudget'
           /\ \A i \in Ids : adm'[i] = IF i \in S /\ sess[i].admitted THEN 0 ELSE adm[i]
<1>1. /\ adm' \in [Ids -> Nat]
      /\ \A i \in Ids : adm'[i] = IF i \in S /\ sess[i].admitted THEN 0 ELSE adm[i]
  BY DEF TableInv, Released
<1>2. adm \in [Ids -> Nat] /\ \A i \in Ids : adm'[i] <= adm[i]
  BY <1>1 DEF TableInv
<1> QED
  BY <1>1, <1>2, BudgetShrinks DEF TableInv

\* close, reset, the sweep, a failed step and fail_all_active.
LEMMA CloseKeeps ==
    ASSUME TableInv, NEW S \in SUBSET Ids, CloseAll(S), UNCHANGED <<next_id, target>>,
           swap' \subseteq swap, \A i \in S : i \notin swap'
    PROVE  /\ TableInv'
           /\ \A i \in Ids : sess'[i] = IF i \in S THEN NoSession ELSE sess[i]
<1>1. \A i \in Ids : sess'[i] = IF i \in S THEN NoSession ELSE sess[i]
  BY DEF CloseAll
<1>2. NoSession \in Session /\ NoSession.slot = NoSlot
  BY DEF NoSession, Session
<1>3. sess' \in [Ids -> Session]
  BY <1>1, <1>2 DEF TableInv, CloseAll
<1>4. \A i \in Ids : sess'[i].slot = IF i \in S THEN NoSlot ELSE sess[i].slot
  BY <1>1, <1>2
<1>5. Owned' /\ free' \subseteq Slots
  BY <1>4, SlotsGivenBack DEF CloseAll
<1>6. /\ adm' \in [Ids -> Nat] /\ WithinBudget'
      /\ \A i \in Ids : adm'[i] = IF i \in S /\ sess[i].admitted THEN 0 ELSE adm[i]
  BY GrantsGivenBack DEF CloseAll
<1>7. ASSUME NEW i \in Ids PROVE SessionOK(i)'
  <2>1. CASE i \in S
    <3>1. adm'[i] = 0
      BY <1>6, <2>1 DEF TableInv, SessionOK
    <3>2. sess'[i] = NoSession
      BY <1>1, <2>1
    <3> QED
      BY <3>1, <3>2 DEF SessionOK, NoSession
  <2>2. CASE i \notin S
    BY <1>1, <1>6, <2>2 DEF TableInv, SessionOK
  <2> QED
    BY <2>1, <2>2
<1>8. swap' \subseteq Ids /\ SnapshotsOwned'
  BY <1>1 DEF TableInv, SnapshotsOwned
<1> QED
  BY <1>1, <1>3, <1>5, <1>6, <1>7, <1>8 DEF TableInv

\* mark_swapped and mark_cold.
LEMMA ParkedSession ==
    ASSUME sess \in [Ids -> Session], NEW v \in Ids, NEW residency \in {"Swapped", "Cold"}
    PROVE  /\ Parked(v, residency) \in [Ids -> Session]
           /\ \A i \in Ids : i # v => Parked(v, residency)[i] = sess[i]
           /\ Parked(v, residency)[v].slot = NoSlot /\ ~Parked(v, residency)[v].admitted
           /\ Parked(v, residency)[v].residency = residency
           /\ Parked(v, residency)[v].convo = sess[v].convo
           /\ Parked(v, residency)[v].ctx = sess[v].ctx
<1> DEFINE x == sess[v]
           y == [x EXCEPT !.slot = NoSlot, !.admitted = FALSE, !.residency = residency]
<1>1. x \in Session
  OBVIOUS
<1>2. /\ y \in Session /\ y.slot = NoSlot /\ ~y.admitted /\ y.residency = residency
      /\ y.convo = x.convo /\ y.ctx = x.ctx
  BY Zenon, <1>1 DEF Session
<1>3. Parked(v, residency) = [sess EXCEPT ![v] = y]
  BY Zenon DEF Parked
<1> HIDE DEF y
<1> QED
  BY <1>2, <1>3

LEMMA EvictKeeps ==
    ASSUME TableInv, NEW v \in Ids, sess[v].slot # NoSlot, evict(v), UNCHANGED <<next_id, target>>
    PROVE  /\ TableInv'
           /\ \A i \in Ids : i # v => sess'[i] = sess[i]
           /\ sess'[v].convo = sess[v].convo
<1>1. PICK residency \in {"Swapped", "Cold"} :
          /\ sess' = Parked(v, residency) /\ free' = Freed({v}) /\ adm' = Released({v})
          /\ \A i \in swap' : (i \in swap /\ i # v) \/ (i = v /\ residency = "Swapped")
  <2>1. v \notin swap
    BY DEF TableInv, SnapshotsOwned, SessionOK
  <2>2. PICK lost : \/ mark_swapped(v) /\ swap' = (swap \ lost) \cup {v}
                    \/ mark_cold(v) /\ swap' = swap \ lost
    BY DEF evict
  <2>3. CASE mark_swapped(v) /\ swap' = (swap \ lost) \cup {v}
    BY <2>1, <2>3 DEF mark_swapped
  <2>4. CASE mark_cold(v) /\ swap' = swap \ lost
    BY <2>1, <2>4 DEF mark_cold
  <2> QED
    BY <2>2, <2>3, <2>4
<1>2. sess \in [Ids -> Session]
  BY DEF TableInv
<1>3. /\ sess' \in [Ids -> Session]
      /\ \A i \in Ids : i # v => sess'[i] = sess[i]
      /\ sess'[v].slot = NoSlot /\ ~sess'[v].admitted
      /\ sess'[v].residency = residency
      /\ sess'[v].convo = sess[v].convo /\ sess'[v].ctx = sess[v].ctx
  BY <1>1, <1>2, ParkedSession
<1>4. \A i \in Ids : sess'[i].slot = IF i \in {v} THEN NoSlot ELSE sess[i].slot
  BY <1>3
<1>5. Owned' /\ free' \subseteq Slots
  BY Zenon, <1>1, <1>4, SlotsGivenBack
<1>6. /\ adm' \in [Ids -> Nat] /\ WithinBudget'
      /\ \A i \in Ids : adm'[i] = IF i \in {v} /\ sess[i].admitted THEN 0 ELSE adm[i]
  BY Zenon, <1>1, GrantsGivenBack
<1>7. ASSUME NEW i \in Ids PROVE SessionOK(i)'
  <2>1. CASE i = v
    <3>1. sess[v].admitted /\ sess[v] # NoSession /\ sess[v].ctx > 0
      BY DEF TableInv, SessionOK, NoSession
    <3>2. ~(v >= next_id)
      BY <3>1 DEF TableInv, SessionOK
    <3> QED
      BY <1>1, <1>3, <1>6, <2>1, <3>1, <3>2 DEF SessionOK
  <2>2. CASE i # v
    BY <1>3, <1>6, <2>2 DEF TableInv, SessionOK
  <2> QED
    BY <2>1, <2>2
<1>8. swap' \subseteq Ids /\ SnapshotsOwned'
  BY <1>1, <1>3 DEF TableInv, SnapshotsOwned
<1> QED
  BY <1>3, <1>5, <1>6, <1>7, <1>8 DEF TableInv

LEMMA TableSame ==
    ASSUME TableInv, UNCHANGED <<sess, free, adm, swap, next_id, target>>
    PROVE  TableInv'
  BY DEF TableInv, Owned, SessionOK, WithinBudget, used_bytes, SnapshotsOwned

-----------------------------------------------------------------------------
(* What is done to the requests in flight *)

\* A slot is idle when it has no session.
LEMMA IdleSlots ==
    ASSUME FlightInv, NEW s \in Slots
    PROVE  /\ inflight[s] = Idle <=> inflight[s].session = NoId
           /\ inflight[s] = Idle <=> inflight[s].req = NoReq
           /\ inflight[s].session # NoId => inflight[s].session \in Ids /\ inflight[s].session \in Busy
           /\ inflight[s].req # NoReq => inflight[s].req \in Requests
<1>1. inflight[s] \in [req : Requests \cup {NoReq}, session : Ids \cup {NoId}]
  BY DEF FlightInv
<1>2. inflight[s].req = NoReq <=> inflight[s].session = NoId
  BY DEF FlightInv
<1> QED
  BY <1>1, <1>2 DEF Idle, Busy

\* Sessions that generate keep their slots, whatever happens to the others.
LEMMA FlightSame ==
    ASSUME FlightInv, inflight' = inflight, fair' = fair,
           \A i \in Busy : sess'[i].slot = sess[i].slot
    PROVE  FlightInv'
<1>1. Busy' = Busy
  BY DEF Busy
<1>2. \A s \in Slots : inflight[s].session # NoId => sess'[inflight[s].session].slot = s
  BY IdleSlots DEF FlightInv
<1> QED
  BY <1>1, <1>2 DEF FlightInv

\* The requests on the slots of E end.
LEMMA FlightEnds ==
    ASSUME FlightInv, NEW E \in SUBSET Slots, NEW X,
           inflight' = [s \in Slots |-> IF s \in E THEN Idle ELSE inflight[s]],
           fair' = fair \ X, \A s \in Slots : inflight[s].session # NoId =>
                                  (s \in E <=> inflight[s].session \in X),
           \A i \in Busy \ X : sess'[i].slot = sess[i].slot
    PROVE  FlightInv'
<1>1. \A s \in Slots : inflight'[s] = IF s \in E THEN Idle ELSE inflight[s]
  OBVIOUS
<1>2. Idle \in [req : Requests \cup {NoReq}, session : Ids \cup {NoId}]
      /\ Idle.req = NoReq /\ Idle.session = NoId
  BY DEF Idle
<1>3. inflight' \in [Slots -> [req : Requests \cup {NoReq}, session : Ids \cup {NoId}]]
  BY <1>2 DEF FlightInv
<1>4. \A s \in Slots : inflight'[s].req = NoReq <=> inflight'[s].session = NoId
  BY <1>1, <1>2 DEF FlightInv
<1>5. \A s \in Slots : inflight'[s].session # NoId => sess'[inflight'[s].session].slot = s
  BY <1>1, <1>2, IdleSlots DEF FlightInv
<1>6. fair' = Busy'
  <2>1. \A i : i \in Busy' <=> i # NoId /\ \E s \in Slots : inflight'[s].session = i
    BY DEF Busy
  <2>2. \A i : i \in Busy <=> i # NoId /\ \E s \in Slots : inflight[s].session = i
    BY DEF Busy
  <2>3. fair = Busy
    BY DEF FlightInv
  <2>4. ASSUME NEW i PROVE i \in Busy' <=> i \in Busy \ X
    BY <1>1, <1>2, <2>1, <2>2
  <2> QED
    BY <2>3, <2>4
<1> QED
  BY <1>3, <1>4, <1>5, <1>6 DEF FlightInv

\* The request in admission starts on the slot of an idle session.
LEMMA FlightBegins ==
    ASSUME FlightInv, NEW i \in Ids, i \notin Busy, NEW s \in Slots, sess[i].slot = s,
           cur \in Requests, NoId \notin Ids,
           \A j, k \in Ids : sess[j].slot = s /\ sess[k].slot = s => j = k,
           inflight' = [inflight EXCEPT ![s] = [req |-> cur, session |-> i]],
           fair' = fair \cup {i}, \A j \in Ids : sess'[j].slot = sess[j].slot
    PROVE  FlightInv' /\ inflight[s] = Idle
<1>1. inflight[s].session = NoId
  <2> SUFFICES ASSUME inflight[s].session # NoId PROVE FALSE
    OBVIOUS
  <2>1. inflight[s].session \in Ids /\ inflight[s].session \in Busy
    BY IdleSlots
  <2>2. sess[inflight[s].session].slot = s
    BY DEF FlightInv
  <2> QED
    BY <2>1, <2>2
<1>2. \A t \in Slots : inflight'[t] = IF t = s THEN [req |-> cur, session |-> i] ELSE inflight[t]
  BY DEF FlightInv
<1>3. inflight' \in [Slots -> [req : Requests \cup {NoReq}, session : Ids \cup {NoId}]]
  BY DEF FlightInv
<1>4. cur # NoReq /\ i # NoId
  BY NoReqAssumption
<1>5. \A t \in Slots : inflight'[t].req = NoReq <=> inflight'[t].session = NoId
  BY <1>2, <1>4 DEF FlightInv
<1>6. \A t \in Slots : inflight'[t].session # NoId => sess'[inflight'[t].session].slot = t
  BY <1>2, IdleSlots DEF FlightInv
<1>7. fair' = Busy'
  <2>1. \A j : j \in Busy' <=> j # NoId /\ \E t \in Slots : inflight'[t].session = j
    BY DEF Busy
  <2>2. \A j : j \in Busy <=> j # NoId /\ \E t \in Slots : inflight[t].session = j
    BY DEF Busy
  <2>3. \A j : j \in Busy' <=> j \in Busy \cup {i}
    BY <1>1, <1>2, <1>4, <2>1, <2>2
  <2> QED
    BY <2>3 DEF FlightInv
<1> QED
  BY <1>1, <1>3, <1>5, <1>6, <1>7, IdleSlots DEF FlightInv

-----------------------------------------------------------------------------
(* What is done to the queue *)

LEMMA QueueSame ==
    ASSUME QueueInv, UNCHANGED queue, repark_age' \in {0, repark_age}
    PROVE  QueueInv'
  BY DEF QueueInv, WaitersExact, Waiting, queue

LEMMA ParkKeeps ==
    ASSUME QueueInv, NEW r \in Requests, r \notin Waiting, NEW age \in Nat, Park(r, age),
           repark_age' = 0
    PROVE  QueueInv' /\ parked'[r] # 0 /\ \A q \in Requests \ {r} : parked'[q] = parked[q]
<1>1. /\ wait_queue \in Seq(Requests) /\ Len(wait_queue) \in Nat
      /\ DOMAIN wait_queue = 1..Len(wait_queue)
  BY DEF QueueInv
<1>2. /\ wait_queue' \in Seq(Requests) /\ Len(wait_queue') = Len(wait_queue) + 1
      /\ \A a \in 1..Len(wait_queue) : wait_queue'[a] = wait_queue[a]
      /\ wait_queue'[Len(wait_queue) + 1] = r
  BY <1>1 DEF Park
<1>3. DOMAIN wait_queue' = 1..(Len(wait_queue) + 1)
  BY <1>2
<1>4. /\ parked' \in [Requests -> Nat] /\ stamps' \in Nat /\ parked'[r] # 0
      /\ \A q \in Requests \ {r} : parked'[q] = parked[q]
  BY DEF Park, QueueInv
<1>5. Waiting' = Waiting \cup {r}
  BY <1>4 DEF Waiting
<1>6. \A a \in DOMAIN wait_queue : wait_queue[a] \in Waiting
  BY DEF QueueInv, WaitersExact
<1>7. \A a, b \in DOMAIN wait_queue' : wait_queue'[a] = wait_queue'[b] => a = b
  BY <1>1, <1>2, <1>3, <1>6 DEF QueueInv, WaitersExact
<1>8. {wait_queue'[a] : a \in DOMAIN wait_queue'} = Waiting'
  <2>1. ASSUME NEW a \in DOMAIN wait_queue' PROVE wait_queue'[a] \in Waiting'
    BY <1>1, <1>2, <1>3, <1>5, <1>6
  <2>2. ASSUME NEW q \in Waiting' PROVE \E a \in DOMAIN wait_queue' : wait_queue'[a] = q
    <3>1. CASE q = r
      BY <1>1, <1>2, <1>3, <3>1
    <3>2. CASE q \in Waiting
      <4>1. PICK a \in DOMAIN wait_queue : wait_queue[a] = q
        BY <3>2 DEF QueueInv, WaitersExact
      <4> QED
        BY <1>1, <1>2, <1>3, <4>1
    <3> QED
      BY <1>5, <3>1, <3>2
  <2> QED
    BY <2>1, <2>2
<1>9. Len(wait_queue') <= MAX_WAITERS
  BY <1>1, <1>2, EngineAssumption DEF Park
<1>10. overdue' \subseteq Waiting'
  BY <1>5 DEF Park, QueueInv, WaitersExact
<1> QED
  BY <1>2, <1>4, <1>7, <1>8, <1>9, <1>10 DEF QueueInv, WaitersExact

LEMMA UnparkKeeps ==
    ASSUME QueueInv, NEW R \in SUBSET Requests, Unpark(R),
           \/ repark_age' = 0
           \/ repark_age' \in Nat /\ R \cap Waiting # {}
    PROVE  QueueInv' /\ \A r \in Requests : parked'[r] = IF r \in R THEN 0 ELSE parked[r]
<1>1. wait_queue \in Seq(Requests) /\ Once(wait_queue) /\ InLine(wait_queue) = Waiting
  BY DEF QueueInv, WaitersExact, Once, InLine
<1>2. /\ wait_queue' \in Seq(Requests) /\ Once(wait_queue') /\ InLine(wait_queue') = Waiting \ R
      /\ Len(wait_queue') <= Len(wait_queue)
      /\ Waiting \cap R # {} => Len(wait_queue') < Len(wait_queue)
  BY <1>1, WithoutSome DEF Unpark
<1>3. /\ parked' \in [Requests -> Nat] /\ stamps' \in Nat
      /\ \A r \in Requests : parked'[r] = IF r \in R THEN 0 ELSE parked[r]
  BY DEF Unpark, QueueInv
<1>4. Waiting' = Waiting \ R
  BY <1>3 DEF Waiting
<1>5. Len(wait_queue) \in Nat /\ Len(wait_queue') \in Nat /\ Len(wait_queue) <= MAX_WAITERS
      /\ MAX_WAITERS \in Nat
  BY <1>1, <1>2, EngineAssumption DEF QueueInv, WaitersExact
<1>6. Len(wait_queue') <= MAX_WAITERS /\ (repark_age' # 0 => Len(wait_queue') < MAX_WAITERS)
  BY <1>2, <1>5
<1>7. overdue' \subseteq Waiting'
  BY <1>4 DEF Unpark, QueueInv, WaitersExact
<1>8. repark_age' \in Nat
  OBVIOUS
<1> QED
  BY <1>2, <1>3, <1>4, <1>6, <1>7, <1>8 DEF QueueInv, WaitersExact, Once, InLine

-----------------------------------------------------------------------------
(* What is done to the answers *)

LEMMA AnswersSame ==
    ASSUME AnswersInv, UNCHANGED <<cur, parked, inflight, answers, submitted, gone>>
    PROVE  AnswersInv'
  BY DEF AnswersInv, Waiting, InFlight

\* A reply is one more event for its request, and none for the others.
LEMMA OneReply ==
    ASSUME answers \in [Requests -> Seq(Replies)], NEW r \in Requests, NEW kind \in Replies,
           Answer(r, kind)
    PROVE  /\ answers' \in [Requests -> Seq(Replies)]
           /\ Len(answers'[r]) = Len(answers[r]) + 1
           /\ \A q \in Requests \ {r} : answers'[q] = answers[q]
<1>1. answers[r] \in Seq(Replies)
  OBVIOUS
<1>2. Append(answers[r], kind) \in Seq(Replies)
      /\ Len(Append(answers[r], kind)) = Len(answers[r]) + 1
  BY <1>1
<1> QED
  BY <1>2 DEF Answer

\* The request in admission is answered.
LEMMA CurAnswered ==
    ASSUME AnswersInv, cur \in Requests, NEW kind \in Replies, Answer(cur, kind), cur' = NoReq,
           UNCHANGED <<parked, inflight, submitted, gone>>
    PROVE  AnswersInv'
<1>1. /\ answers' \in [Requests -> Seq(Replies)]
      /\ Len(answers'[cur]) = Len(answers[cur]) + 1
      /\ \A q \in Requests \ {cur} : answers'[q] = answers[q]
  BY OneReply DEF AnswersInv
<1>2. Waiting' = Waiting /\ \A r \in Requests : InFlight(r)' <=> InFlight(r)
  BY DEF Waiting, InFlight
<1>3. ASSUME NEW r \in Requests
      PROVE  /\ cur' # r
             /\ r \in Waiting' => ~InFlight(r)' /\ Len(answers'[r]) = 0
             /\ InFlight(r)' => Len(answers'[r]) = 0
             /\ Len(answers'[r]) <= 1
             /\ r \in submitted' <=> r \in Waiting' \/ InFlight(r)' \/ Len(answers'[r]) = 1
  <2>1. CASE r = cur
    BY <1>1, <1>2, <2>1, NoReqAssumption DEF AnswersInv
  <2>2. CASE r # cur
    BY <1>1, <1>2, <2>2, NoReqAssumption DEF AnswersInv
  <2> QED
    BY <2>1, <2>2
<1> QED
  BY <1>1, <1>3 DEF AnswersInv

\* The request in admission is put on an idle slot.
LEMMA CurPlaced ==
    ASSUME AnswersInv, cur \in Requests, cur' = NoReq, NEW s \in Slots, inflight[s].req = NoReq,
           NEW x, x.req = cur, inflight' = [inflight EXCEPT ![s] = x],
           DOMAIN inflight = Slots, UNCHANGED <<parked, answers, submitted, gone>>
    PROVE  AnswersInv'
<1>1. \A t \in Slots : inflight'[t] = IF t = s THEN x ELSE inflight[t]
  OBVIOUS
<1>2. Waiting' = Waiting
  BY DEF Waiting
<1>3. ASSUME NEW r \in Requests
      PROVE  InFlight(r)' <=> r = cur \/ InFlight(r)
  <2>1. InFlight(r)' <=> \E t \in Slots : inflight'[t].req = r
    BY DEF InFlight
  <2>2. CASE r = cur
    BY <1>1, <2>1, <2>2
  <2>3. CASE r # cur
    BY <1>1, <2>1, <2>3, NoReqAssumption DEF InFlight
  <2> QED
    BY <2>2, <2>3
<1>4. \A t, u \in Slots : inflight'[t].req # NoReq /\ inflight'[t].req = inflight'[u].req => t = u
  BY <1>1 DEF AnswersInv, InFlight
<1>5. ASSUME NEW r \in Requests
      PROVE  /\ cur' # r
             /\ r \in Waiting' => ~InFlight(r)' /\ Len(answers'[r]) = 0
             /\ InFlight(r)' => Len(answers'[r]) = 0
             /\ Len(answers'[r]) <= 1
             /\ r \in submitted' <=> r \in Waiting' \/ InFlight(r)' \/ Len(answers'[r]) = 1
  BY <1>2, <1>3, NoReqAssumption DEF AnswersInv
<1> QED
  BY <1>4, <1>5 DEF AnswersInv

\* The request in admission is parked.
LEMMA CurParked ==
    ASSUME AnswersInv, cur \in Requests, cur' = NoReq, parked'[cur] # 0,
           \A r \in Requests \ {cur} : parked'[r] = parked[r],
           UNCHANGED <<inflight, answers, submitted, gone>>
    PROVE  AnswersInv'
<1>1. Waiting' = Waiting \cup {cur}
  BY DEF Waiting
<1>2. \A r \in Requests : InFlight(r)' <=> InFlight(r)
  BY DEF InFlight
<1> QED
  BY <1>1, <1>2, NoReqAssumption DEF AnswersInv

\* Requests in flight on the slots of E and waiters of W are answered.
LEMMA SomeAnswered ==
    ASSUME FlightInv, AnswersInv, NEW E \in SUBSET Slots, NEW W \in SUBSET Waiting,
           inflight' = [s \in Slots |-> IF s \in E THEN Idle ELSE inflight[s]],
           \A r \in Requests : parked'[r] = IF r \in W THEN 0 ELSE parked[r],
           answers' \in [Requests -> Seq(Replies)],
           \A r \in Requests : Len(answers'[r]) =
              IF r \in W \/ \E s \in E : inflight[s].req = r THEN Len(answers[r]) + 1 ELSE Len(answers[r]),
           UNCHANGED <<cur, submitted, gone>>
    PROVE  AnswersInv'
<1>1. \A s \in Slots : inflight'[s] = IF s \in E THEN Idle ELSE inflight[s]
  OBVIOUS
<1>2. Idle.req = NoReq
  BY DEF Idle
<1>3. \A s, t \in Slots : inflight'[s].req # NoReq /\ inflight'[s].req = inflight'[t].req => s = t
  BY <1>1, <1>2 DEF AnswersInv
<1>4. Waiting' = Waiting \ W
  BY DEF Waiting
<1>5. ASSUME NEW r \in Requests
      PROVE  InFlight(r)' <=> InFlight(r) /\ ~\E s \in E : inflight[s].req = r
  <2>1. InFlight(r)' <=> \E t \in Slots : t \notin E /\ inflight[t].req = r
    BY <1>1, <1>2, NoReqAssumption DEF InFlight
  <2>2. \A s, t \in Slots : inflight[s].req = r /\ inflight[t].req = r => s = t
    BY NoReqAssumption DEF AnswersInv
  <2> QED
    BY <2>1, <2>2 DEF InFlight
<1>6. ASSUME NEW r \in Requests
      PROVE  /\ cur' = r => r \notin Waiting' /\ ~InFlight(r)' /\ Len(answers'[r]) = 0
             /\ r \in Waiting' => ~InFlight(r)' /\ Len(answers'[r]) = 0
             /\ InFlight(r)' => Len(answers'[r]) = 0
             /\ Len(answers'[r]) <= 1
             /\ r \in submitted' <=> cur' = r \/ r \in Waiting' \/ InFlight(r)' \/ Len(answers'[r]) = 1
  <2> DEFINE ends == r \in W \/ \E s \in E : inflight[s].req = r
  <2>1. CASE ends
    <3>1. r \in Waiting \/ InFlight(r)
      BY <2>1 DEF InFlight
    <3>2. r \notin Waiting' /\ ~InFlight(r)'
      BY <1>4, <1>5, <2>1 DEF AnswersInv, InFlight
    <3>3. Len(answers'[r]) = Len(answers[r]) + 1
      BY <2>1
    <3> QED
      BY <3>1, <3>2, <3>3 DEF AnswersInv
  <2>2. CASE ~ends
    <3>1. Len(answers'[r]) = Len(answers[r])
      BY <2>2
    <3>2. (r \in Waiting' <=> r \in Waiting) /\ (InFlight(r)' <=> InFlight(r))
      BY <1>4, <1>5, <2>2
    <3> QED
      BY Zenon, <3>1, <3>2 DEF AnswersInv
  <2> QED
    BY <2>1, <2>2
<1> QED
  BY <1>3, <1>6 DEF AnswersInv

-----------------------------------------------------------------------------
(* Where admit is *)

\* Outside admit nothing is held for a request.
LEMMA LoopPhase ==
    ASSUME PhaseInv, pc \in LoopPCs, pc' \in LoopPCs, UNCHANGED admitting
    PROVE  PhaseInv'
  BY DEF PhaseInv, LoopPCs, AdmitPCs, BoundPCs, admitting

LEMMA ReturnPhase ==
    ASSUME NEW placed \in BOOLEAN, Return(placed)
    PROVE  PhaseInv'
  BY DEF Return, PhaseInv, LoopPCs, AdmitPCs, BoundPCs

-----------------------------------------------------------------------------
(* The actions *)

\* The engine starts with every slot free and nobody known.
LEMMA EngineInit == Init => EngineInv
<1> SUFFICES ASSUME Init PROVE EngineInv
  OBVIOUS
<1>1. NoSession \in Session /\ NoSession.slot = NoSlot
  BY DEF NoSession, Session
<1>2. TableInv
  <2>1. \A i \in Ids : sess[i] = NoSession /\ adm[i] = 0
    BY DEF Init
  <2>2. \A i \in Ids : SessionOK(i)
    <3>1. /\ NoSession.residency = "None" /\ NoSession.slot = NoSlot
          /\ NoSession.admitted = FALSE /\ NoSession.ctx = 0
      BY DEF NoSession
    <3> QED
      BY <2>1, <3>1 DEF SessionOK
  <2>3. Owned
    BY <1>1, <2>1, IdsAreNumbers DEF Owned, Init
  <2>4. WithinBudget
    BY <2>1 DEF WithinBudget, used_bytes
  <2>5. sess \in [Ids -> Session] /\ adm \in [Ids -> Nat]
    BY <1>1 DEF Init
  <2>6. next_id \in 1..(Cardinality(Requests) + 1)
    BY IdsAreNumbers DEF Init
  <2> QED
    BY <2>2, <2>3, <2>4, <2>5, <2>6 DEF TableInv, SnapshotsOwned, Init
<1>3. Busy = {}
  BY DEF Init, Busy, Idle
<1>4. FlightInv
  BY <1>3 DEF FlightInv, Init, Idle
<1>5. PhaseInv
  BY DEF PhaseInv, Init, AdmitPCs, LoopPCs, BoundPCs
<1>6. QueueInv
  BY EngineAssumption DEF QueueInv, Init, WaitersExact, Waiting
<1>7. AnswersInv
  BY NoReqAssumption DEF AnswersInv, Init, Waiting, InFlight, Idle
<1> QED
  BY <1>2, <1>4, <1>5, <1>6, <1>7 DEF EngineInv

\* A session without a slot does not generate.
LEMMA SlotlessIsIdle ==
    ASSUME FlightInv, NEW i \in Ids, sess[i].slot = NoSlot
    PROVE  i \notin Busy
  BY IdsAreNumbers DEF FlightInv, Busy

\* Who is in admission, and what its session is.
LEMMA InAdmission ==
    ASSUME PhaseInv, pc \in AdmitPCs
    PROVE  cur \in Requests /\ (pc \in BoundPCs => existing \in Ids)
  BY DEF PhaseInv

\* Steps that move pc only.
LEMMA OnlyPhase ==
    ASSUME EngineInv, UNCHANGED <<table, ids, swap, active, queue, admitting, submitted, gone, answers>>,
           \/ pc' = pc
           \/ pc \in LoopPCs /\ pc' \in LoopPCs
           \/ pc = "match" /\ pc' = "cold"
    PROVE  EngineInv'
<1> USE DEF EngineInv, table, ids, active, queue, admitting
<1>1. TableInv' /\ FlightInv' /\ QueueInv' /\ AnswersInv'
  BY TableSame, FlightSame, QueueSame, AnswersSame
<1>2. PhaseInv'
  BY DEF PhaseInv, AdmitPCs, LoopPCs, BoundPCs, Joins, Busy
<1> QED
  BY <1>1, <1>2

-----------------------------------------------------------------------------
(* The shared shapes of admit *)

\* The request is refused, its session stays.
LEMMA Refuses ==
    ASSUME EngineInv, pc \in AdmitPCs \ {"restore"}, NEW kind \in Replies, Answer(cur, kind),
           Return(FALSE), UNCHANGED <<table, ids, swap, active, queue, submitted, gone>>
    PROVE  EngineInv'
<1> USE DEF EngineInv, table, ids, active, queue
<1>1. target' = target /\ cur' = NoReq /\ repark_age' = 0 /\ cur \in Requests
  BY InAdmission DEF PhaseInv, Return
<1>2. TableInv' /\ FlightInv' /\ QueueInv'
  BY <1>1, TableSame, FlightSame, QueueSame
<1>3. AnswersInv'
  BY <1>1, CurAnswered
<1>4. PhaseInv'
  BY ZenonT(30), ReturnPhase
<1> QED
  BY <1>2, <1>3, <1>4

\* The request is refused and its resident session closed.
LEMMA RefusesAndCloses ==
    ASSUME EngineInv, pc \in BoundPCs \ {"restore"}, NEW kind \in Replies, Answer(cur, kind),
           close(existing), swap' \in {swap, swap \ {existing}}, Return(FALSE),
           UNCHANGED <<ids, active, queue, submitted, gone>>
    PROVE  EngineInv'
<1> USE DEF EngineInv, ids, active, queue
<1>1. target' = target /\ cur' = NoReq /\ repark_age' = 0 /\ cur \in Requests /\ existing \in Ids
  BY InAdmission DEF PhaseInv, Return, BoundPCs, AdmitPCs
<1>2. existing \notin swap /\ existing \notin Busy
  BY <1>1 DEF PhaseInv, TableInv, SnapshotsOwned
<1>3. PICK i \in Ids : i = existing
  BY <1>1
<1>4. TableInv' /\ \A j \in Ids : sess'[j] = IF j \in {i} THEN NoSession ELSE sess[j]
  BY ZenonT(30), <1>1, <1>2, <1>3, CloseKeeps DEF close
<1>5. FlightInv'
  <2>1. \A j \in Busy : j \in Ids
    BY DEF Busy, FlightInv
  <2> QED
    BY Zenon, <1>2, <1>3, <1>4, <2>1, FlightSame
<1>6. QueueInv'
  BY <1>1, QueueSame
<1>7. AnswersInv'
  BY <1>1, CurAnswered
<1>8. PhaseInv'
  BY Zenon, ReturnPhase
<1> QED
  BY Zenon, <1>4, <1>5, <1>6, <1>7, <1>8

\* An idle session other than the one in admission is evicted.
LEMMA Evicts ==
    ASSUME EngineInv, NEW except, NEW v \in Victims(except), evict(v),
           existing = NoId \/ except = existing, pc' \in {pc, "turn_pages", "place_pages"},
           pc' = "turn_pages" => pc \in {"turn", "turn_pages"},
           pc' = "place_pages" => pc \in {"place", "place_pages"},
           UNCHANGED <<ids, active, queue, admitting, submitted, gone, answers>>
    PROVE  EngineInv'
<1> USE DEF EngineInv, ids, active, queue, admitting
<1>1. v \in Ids /\ sess[v].slot # NoSlot /\ v \notin Busy /\ v # except
  BY DEF Victims, Live
<1>2. TableInv' /\ \A i \in Ids : i # v => sess'[i] = sess[i]
  BY <1>1, EvictKeeps
<1>3. FlightInv'
  <2>1. \A j \in Busy : j \in Ids
    BY DEF Busy, FlightInv
  <2> QED
    BY <1>1, <1>2, <2>1, FlightSame
<1>4. QueueInv' /\ AnswersInv'
  BY QueueSame, AnswersSame
<1>5. PhaseInv'
  <2>1. Busy' = Busy
    BY Zenon DEF Busy
  <2>2. existing # NoId => sess'[existing] = sess[existing]
    BY <1>1, <1>2 DEF PhaseInv
  <2>3. cold_reuse # NoId /\ pc = "cold" => sess'[cold_reuse] = sess[cold_reuse]
    <3> SUFFICES ASSUME cold_reuse # NoId, pc = "cold" PROVE cold_reuse \in Ids /\ cold_reuse # v
      BY Zenon, <1>2
    <3>1. cold_reuse \in Ids /\ sess[cold_reuse].residency = "Cold"
      BY DEF PhaseInv
    <3>2. sess[cold_reuse].slot = NoSlot
      BY <3>1 DEF TableInv, SessionOK
    <3> QED
      BY Zenon, <1>1, <3>1, <3>2
  <2> QED
    BY <2>1, <2>2, <2>3 DEF PhaseInv, AdmitPCs, LoopPCs, BoundPCs, Joins
<1> QED
  BY <1>2, <1>3, <1>4, <1>5

-----------------------------------------------------------------------------
(* admit, action by action *)

\* Only parked sessions are swept.
LEMMA Sweeps ==
    ASSUME EngineInv, pc \in {"recv", "sweep"}, sweep_sessions, pc' \in {pc, "match"},
           pc' = "match" <=> pc = "sweep",
           UNCHANGED <<ids, inflight, left, queue, admitting, submitted, gone, answers>>
    PROVE  EngineInv'
<1> USE DEF EngineInv, ids, queue, admitting
<1>1. PICK n : CloseAll(OldestOf(n)) /\ swap' = swap \ OldestOf(n) /\ fair' = fair \ OldestOf(n)
  BY DEF sweep_sessions
<1>2. PICK S : S = OldestOf(n)
  OBVIOUS
<1>3. S \subseteq Ids /\ \A i \in S : sess[i].residency # "Resident"
  BY Zenon, <1>2 DEF OldestOf, Sweepable, Live
<1>4. \A i \in S : sess[i].slot = NoSlot
  BY Zenon, <1>3 DEF TableInv, SessionOK
<1>5. \A i \in S : i \notin Busy
  BY Zenon, <1>3, <1>4, SlotlessIsIdle
<1>6. TableInv' /\ \A i \in Ids : sess'[i] = IF i \in S THEN NoSession ELSE sess[i]
  BY <1>1, <1>2, <1>3, CloseKeeps
<1>7. FlightInv'
  <2>1. \A j \in Busy : j \in Ids
    BY DEF Busy, FlightInv
  <2>2. fair' = fair
    BY <1>1, <1>2, <1>5 DEF FlightInv
  <2> QED
    BY <1>5, <1>6, <2>1, <2>2, FlightSame
<1>8. QueueInv' /\ AnswersInv'
  BY QueueSame, AnswersSame
<1>9. PhaseInv'
  BY DEF PhaseInv, AdmitPCs, LoopPCs, BoundPCs
<1> QED
  BY Zenon, <1>6, <1>7, <1>8, <1>9

\* What a candidate is: an idle session of the request's conversation.
LEMMA CandidateJoins ==
    ASSUME EngineInv, pc = "match", NEW i \in Candidates(cur)
    PROVE  /\ i \in Ids /\ i \notin Busy /\ Joins(i)
           /\ IF sess[i].slot = NoSlot THEN sess[i].residency = "Swapped"
              ELSE sess[i].residency = "Resident"
<1>1. i \in Ids /\ i \notin Busy /\ sess[i] # NoSession /\ sess[i].residency # "Cold"
  BY DEF Candidates, Live
<1>2. Joins(i)
  BY DEF Candidates, Joins, Convo
<1>3. sess[i] \in Session /\ sess[i].residency # "None"
  BY <1>1 DEF EngineInv, TableInv, SessionOK
<1>4. sess[i].residency \in {"Resident", "Swapped"}
  BY <1>1, <1>3 DEF Session
<1> QED
  BY <1>1, <1>2, <1>4 DEF EngineInv, TableInv, SessionOK

LEMMA MatchResidentKeeps ==
    ASSUME EngineInv, NEW i \in Ids, MatchResident(i)
    PROVE  EngineInv'
<1> USE DEF EngineInv, table, ids, active, queue, clients
<1>1. TableInv' /\ FlightInv' /\ QueueInv' /\ AnswersInv'
  BY TableSame, FlightSame, QueueSame, AnswersSame DEF MatchResident
<1>2. i \notin Busy /\ Joins(i) /\ sess[i].residency = "Resident"
  BY CandidateJoins DEF MatchResident
<1>3. PhaseInv'
  BY <1>2, IdsAreNumbers DEF MatchResident, PhaseInv, AdmitPCs, LoopPCs, BoundPCs, Joins, Busy
<1> QED
  BY <1>1, <1>3

LEMMA MatchSwappedKeeps ==
    ASSUME EngineInv, NEW i \in Ids, MatchSwapped(i)
    PROVE  EngineInv'
<1> USE DEF EngineInv, table, ids, active, queue, clients
<1>1. FlightInv' /\ QueueInv' /\ AnswersInv'
  BY FlightSame, QueueSame, AnswersSame DEF MatchSwapped
<1>2. i \notin Busy /\ Joins(i) /\ sess[i].residency = "Swapped"
  BY Zenon, CandidateJoins DEF MatchSwapped
<1>3. Min(free) \in free /\ target = NoSlot
  BY FirstFree DEF MatchSwapped, TableInv, PhaseInv
<1>4. PICK s : s = Min(free)
  OBVIOUS
<1>5. target' = s /\ free' = free \ {s} /\ s \in free /\ s \in Slots
  BY <1>3, <1>4 DEF MatchSwapped, TableInv
<1>6. Owned'
  BY <1>3, <1>5 DEF MatchSwapped, TableInv, Owned
<1>7. TableInv'
  BY Zenon, <1>5, <1>6 DEF MatchSwapped, TableInv, SessionOK, WithinBudget, used_bytes, SnapshotsOwned
<1>8. PhaseInv'
  <2>1. target' # NoSlot
    BY <1>5, IdsAreNumbers
  <2> QED
    BY Zenon, <1>2, <2>1, IdsAreNumbers DEF MatchSwapped, PhaseInv, AdmitPCs, LoopPCs, BoundPCs, Joins, Busy
<1> QED
  BY <1>1, <1>7, <1>8

\* A session without a slot gets one, and a grant that fits.
LEMMA TakesSlot ==
    ASSUME TableInv, NEW i \in Ids, sess[i].slot = NoSlot, NEW s \in Slots, NEW n \in Nat, n > 0,
           \/ s \in free /\ free' = free \ {s} /\ target' = target
           \/ s = target /\ free' = free /\ target' = NoSlot,
           NEW x \in Session, x.residency = "Resident", x.slot = s, x.admitted, x.ctx = n,
           sess' = [sess EXCEPT ![i] = x], adm' = [adm EXCEPT ![i] = @ + n], Fits(n),
           swap' = swap \ {i}, next_id' \in 1..(Cardinality(Requests) + 1),
           next_id <= next_id', i < next_id'
    PROVE  /\ TableInv'
           /\ \A j \in Ids : sess'[j] = IF j = i THEN x ELSE sess[j]
<1>1. \A j \in Ids : sess'[j] = IF j = i THEN x ELSE sess[j]
  BY DEF TableInv
<1>2. sess' \in [Ids -> Session]
  BY DEF TableInv
<1>3. adm[i] = 0
  BY DEF TableInv, SessionOK
<1>4. adm \in [Ids -> Nat]
  BY DEF TableInv
<1>5. adm' = [adm EXCEPT ![i] = n]
  BY <1>3, <1>4
<1>6. WithinBudget'
  BY Zenon, <1>3, <1>4, <1>5, BudgetGrows DEF TableInv
<1>7. adm' \in [Ids -> Nat] /\ \A j \in Ids : adm'[j] = IF j = i THEN n ELSE adm[j]
  BY <1>4, <1>5
<1>8. s # NoSlot /\ NoSlot \notin Slots
  BY IdsAreNumbers
<1>9. ASSUME NEW j \in Ids PROVE SessionOK(j)'
  <2>1. CASE j = i
    <3>1. sess'[j].ctx = n /\ adm'[j] = n /\ sess'[j].admitted /\ sess'[j].slot = s
          /\ sess'[j].residency = "Resident"
      BY <1>1, <1>7, <2>1
    <3>2. ~(j >= next_id')
      BY <2>1, IdsAreNumbers
    <3> QED
      BY <1>8, <3>1, <3>2 DEF SessionOK
  <2>2. CASE j # i
    <3>1. sess'[j] = sess[j] /\ adm'[j] = adm[j] /\ SessionOK(j)
      BY <1>1, <1>7, <2>2 DEF TableInv
    <3>2. j >= next_id' => j >= next_id
      BY IdsAreNumbers DEF TableInv
    <3> QED
      BY <3>1, <3>2 DEF SessionOK
  <2> QED
    BY <2>1, <2>2
<1>10. \A j \in Ids : sess'[j].slot = IF j = i THEN s ELSE sess[j].slot
  BY <1>1
<1>11. Owned'
  <2>1. CASE s \in free /\ free' = free \ {s} /\ target' = target
    BY <1>8, <1>10, <2>1 DEF TableInv, Owned
  <2>2. CASE s = target /\ free' = free /\ target' = NoSlot
    BY <1>8, <1>10, <2>2 DEF TableInv, Owned
  <2> QED
    BY <2>1, <2>2
<1>12. SnapshotsOwned' /\ swap' \subseteq Ids
  BY <1>1 DEF TableInv, SnapshotsOwned
<1>13. free' \subseteq Slots /\ target' \in Slots \cup {NoSlot}
  BY DEF TableInv
<1> QED
  BY <1>1, <1>2, <1>6, <1>7, <1>9, <1>11, <1>12, <1>13 DEF TableInv

LEMMA RestoreOkKeeps ==
    ASSUME EngineInv, RestoreOk
    PROVE  EngineInv'
<1> USE DEF EngineInv, active, queue, clients
<1>2. PICK i \in Ids : i = existing
  BY InAdmission DEF RestoreOk, AdmitPCs, BoundPCs
<1>3. sess[i].residency = "Swapped" /\ i \notin Busy /\ Joins(i) /\ target \in Slots
  BY <1>2, IdsAreNumbers DEF RestoreOk, PhaseInv, TableInv
<1>4. sess[i].slot = NoSlot /\ sess[i].ctx \in Nat /\ sess[i].ctx > 0 /\ i < next_id /\ sess[i] \in Session
  <2>1. sess[i] \in Session /\ sess[i] # NoSession
    BY <1>3 DEF TableInv, NoSession
  <2>2. sess[i].ctx \in Nat
    BY <2>1 DEF Session
  <2>3. ~(i >= next_id)
    BY <2>1 DEF TableInv, SessionOK
  <2>4. i < next_id
    BY <2>3, IdsAreNumbers DEF TableInv
  <2> QED
    BY <1>3, <2>1, <2>2, <2>4 DEF TableInv, SessionOK
<1> DEFINE y == [sess[i] EXCEPT !.admitted = TRUE, !.slot = target, !.residency = "Resident"]
<1>5. /\ y \in Session /\ y.residency = "Resident" /\ y.slot = target /\ y.admitted
      /\ y.ctx = sess[i].ctx /\ y.convo = sess[i].convo
  BY Zenon, <1>3, <1>4 DEF Session
<1>6. sess' = [sess EXCEPT ![i] = y]
  BY Zenon, <1>2 DEF RestoreOk, TableInv
<1> HIDE DEF y
<1>7. TableInv' /\ \A j \in Ids : sess'[j] = IF j = i THEN y ELSE sess[j]
  <2>1. next_id' = next_id /\ next_id \in 1..(Cardinality(Requests) + 1) /\ next_id <= next_id'
    BY IdsAreNumbers DEF RestoreOk, TableInv
  <2>2. /\ adm' = [adm EXCEPT ![i] = @ + sess[i].ctx] /\ Fits(sess[i].ctx)
        /\ swap' = swap \ {i} /\ free' = free /\ target' = NoSlot
    BY <1>2 DEF RestoreOk
  <2>3. PICK s \in Slots : s = target
    BY <1>3
  <2>4. PICK n \in Nat : n = sess[i].ctx
    BY <1>4
  <2>5. y \in Session /\ y.residency = "Resident" /\ y.slot = s /\ y.admitted /\ y.ctx = n
    BY <1>5, <2>3, <2>4
  <2>6. n > 0 /\ adm' = [adm EXCEPT ![i] = @ + n] /\ Fits(n) /\ i < next_id'
    BY <1>4, <2>1, <2>2, <2>4
  <2> QED
    BY ZenonT(30), <1>4, <1>6, <2>1, <2>2, <2>3, <2>5, <2>6, TakesSlot
<1>8. FlightInv'
  <2>1. \A j \in Busy : j \in Ids
    BY DEF Busy, FlightInv
  <2> QED
    BY Zenon, <1>3, <1>7, <2>1, FlightSame DEF RestoreOk
<1>9. QueueInv' /\ AnswersInv'
  BY QueueSame, AnswersSame DEF RestoreOk
<1>10. PhaseInv'
  <2>1. sess'[i].residency = "Resident" /\ sess'[i].convo = sess[i].convo
    BY <1>5, <1>7
  <2>2. Busy' = Busy /\ existing' = existing /\ cur' = cur /\ cold_reuse' = cold_reuse
        /\ repark_age' = repark_age /\ target' = NoSlot /\ pc = "restore" /\ pc' = "turn"
    BY DEF Busy, RestoreOk
  <2>3. Joins(i)'
    BY <1>3, <2>1, <2>2 DEF Joins
  <2>4. Joins(existing)' /\ existing \notin Busy'
    BY <1>2, <1>3, <2>2, <2>3 DEF Joins
  <2> QED
    BY <1>2, <2>1, <2>2, <2>4 DEF PhaseInv, AdmitPCs, LoopPCs, BoundPCs
<1> QED
  BY <1>7, <1>8, <1>9, <1>10

LEMMA RestoreFailsKeeps ==
    ASSUME EngineInv, RestoreFails
    PROVE  EngineInv'
<1> USE DEF EngineInv, ids, active, queue, clients
<1>2. PICK i \in Ids : i = existing
  BY InAdmission DEF RestoreFails, AdmitPCs, BoundPCs
<1>3. sess[i].residency = "Swapped" /\ i \notin Busy /\ Joins(i) /\ target \in Slots
  BY <1>2, IdsAreNumbers DEF RestoreFails, PhaseInv, TableInv
<1>4. sess[i].slot = NoSlot /\ ~sess[i].admitted
  BY <1>3 DEF TableInv, SessionOK
<1>5. /\ sess' \in [Ids -> Session]
      /\ \A j \in Ids : j # i => sess'[j] = sess[j]
      /\ sess'[i].slot = NoSlot /\ ~sess'[i].admitted
      /\ sess'[i].residency = "Cold"
      /\ sess'[i].convo = sess[i].convo /\ sess'[i].ctx = sess[i].ctx
  BY <1>2, ParkedSession DEF RestoreFails, TableInv
<1>6. /\ free' = free \cup {target} /\ target' = NoSlot /\ adm' = adm /\ next_id' = next_id
      /\ swap' = swap \ {i}
  BY <1>2 DEF RestoreFails
<1>7. \A j \in Ids : sess'[j].slot = sess[j].slot
  BY <1>4, <1>5
<1>8. Owned'
  BY <1>3, <1>6, <1>7, IdsAreNumbers DEF TableInv, Owned
<1>9. ASSUME NEW j \in Ids PROVE SessionOK(j)'
  <2>1. CASE j = i
    <3>1. sess[i] # NoSession /\ SessionOK(i)
      BY <1>3 DEF TableInv, NoSession
    <3> QED
      BY <1>3, <1>4, <1>5, <1>6, <2>1, <3>1 DEF SessionOK
  <2>2. CASE j # i
    BY <1>5, <1>6, <2>2 DEF TableInv, SessionOK
  <2> QED
    BY <2>1, <2>2
<1>10. TableInv'
  <2>1. WithinBudget'
    BY <1>6 DEF TableInv, WithinBudget, used_bytes
  <2>2. SnapshotsOwned' /\ swap' \subseteq Ids
    BY <1>5, <1>6 DEF TableInv, SnapshotsOwned
  <2> QED
    BY <1>3, <1>5, <1>6, <1>8, <1>9, <2>1, <2>2 DEF TableInv
<1>11. FlightInv'
  <2>1. \A j \in Busy : j \in Ids
    BY DEF Busy, FlightInv
  <2> QED
    BY <1>7, <2>1, FlightSame DEF RestoreFails
<1>12. QueueInv' /\ AnswersInv'
  BY QueueSame, AnswersSame DEF RestoreFails
<1>13. PhaseInv'
  <2>1. cold_reuse' = i /\ existing' = NoId /\ pc' = "cold" /\ pc = "restore" /\ cur' = cur
        /\ repark_age' = repark_age /\ target' = NoSlot
    BY <1>2 DEF RestoreFails
  <2>2. Joins(cold_reuse)'
    BY <1>3, <1>5, <2>1 DEF Joins
  <2> QED
    BY <1>5, <2>1, <2>2 DEF PhaseInv, AdmitPCs, LoopPCs, BoundPCs
<1> QED
  BY <1>10, <1>11, <1>12, <1>13

LEMMA OpenKeeps ==
    ASSUME EngineInv, NEW i \in Ids, Open(i)
    PROVE  EngineInv'
<1> USE DEF EngineInv, active, queue, clients
<1>1. cur \in Requests /\ target = NoSlot /\ pc = "cold"
  BY Zenon, InAdmission DEF PhaseInv, Open, Opening, AdmitPCs
<1>2. Grant[cur] \in Nat /\ Grant[cur] > 0 /\ Fits(Grant[cur]) /\ free # {}
  BY <1>1, EngineAssumption DEF Open, Openable
<1>3. PICK s : s = Min(free)
  OBVIOUS
<1>4. s \in free /\ s \in Slots /\ free' = free \ {s}
  BY <1>2, <1>3, FirstFree DEF Open, TableInv
<1>5. PICK n \in Nat : n = Grant[cur]
  BY <1>2
<1>6. /\ sess[i] \in Session /\ sess[i].slot = NoSlot /\ Joins(i)
      /\ sess[i].residency # "Swapped" /\ i <= next_id
  <2>1. CASE cold_reuse # NoId
    <3>1. sess[cold_reuse].residency = "Cold" /\ Joins(cold_reuse)
      BY <1>1, <2>1 DEF PhaseInv
    <3>2. i = cold_reuse
      BY <2>1, <3>1 DEF Open
    <3>3. sess[i] # NoSession
      <4>1. NoSession.residency = "None"
        BY Zenon DEF NoSession
      <4> QED
        BY Zenon, <3>1, <3>2, <4>1
    <3>4. ~(i >= next_id) /\ sess[i].slot = NoSlot
      BY Zenon, <3>1, <3>2, <3>3 DEF TableInv, SessionOK
    <3>5. i <= next_id
      BY <3>4, IdsAreNumbers DEF TableInv
    <3> QED
      BY <3>1, <3>2, <3>4, <3>5 DEF TableInv
  <2>2. CASE cold_reuse = NoId
    <3>1. i = next_id
      BY <2>2 DEF Open
    <3>2. i >= next_id /\ i <= next_id
      BY <3>1, IdsAreNumbers
    <3>3. sess[i] = NoSession
      BY <3>2 DEF TableInv, SessionOK
    <3>4. sess[i].slot = NoSlot /\ sess[i].convo = <<>> /\ sess[i].residency = "None"
      BY <3>3 DEF NoSession
    <3>5. sess[i] \in Session
      BY DEF TableInv
    <3> QED
      BY <3>2, <3>4, <3>5 DEF Joins
  <2> QED
    BY <2>1, <2>2
<1>7. /\ next_id' \in 1..(Cardinality(Requests) + 1) /\ next_id <= next_id' /\ i < next_id'
  <2>1. /\ next_id \in Nat /\ i \in Nat /\ i <= Cardinality(Requests) /\ Cardinality(Requests) \in Nat
        /\ 1 <= next_id /\ next_id <= Cardinality(Requests) + 1
    BY IdsAreNumbers DEF TableInv, Ids
  <2>2. next_id' = IF i = next_id THEN next_id + 1 ELSE next_id
    BY DEF Open
  <2> QED
    BY <1>6, <2>1, <2>2
<1> DEFINE x == [residency |-> "Resident", slot |-> s, admitted |-> TRUE,
                 ctx |-> n, convo |-> sess[i].convo]
<1>8. /\ x \in Session /\ x.residency = "Resident" /\ x.slot = s /\ x.admitted /\ x.ctx = n
      /\ x.convo = sess[i].convo
  BY <1>4, <1>6 DEF Session
<1>9. sess' = [sess EXCEPT ![i] = x]
  BY <1>3, <1>5 DEF Open, Resident
<1> HIDE DEF x
<1>10. TableInv' /\ \A j \in Ids : sess'[j] = IF j = i THEN x ELSE sess[j]
  <2>1. adm' = [adm EXCEPT ![i] = @ + n] /\ n > 0 /\ Fits(n)
    BY <1>2, <1>5 DEF Open
  <2>2. swap' = swap \ {i}
    BY Zenon, <1>6 DEF Open, TableInv, SnapshotsOwned
  <2>3. s \in Slots /\ s \in free /\ free' = free \ {s} /\ target' = target
    BY <1>4 DEF Open
  <2>4. x \in Session /\ x.residency = "Resident" /\ x.slot = s /\ x.admitted /\ x.ctx = n
    BY <1>8
  <2>5. TableInv /\ sess[i].slot = NoSlot
    BY <1>6
  <2> QED
    BY Zenon, <1>7, <1>9, <2>1, <2>2, <2>3, <2>4, <2>5, TakesSlot
<1>11. i \notin Busy
  BY <1>6, SlotlessIsIdle
<1>12. FlightInv'
  <2>1. \A j \in Busy : j \in Ids
    BY DEF Busy, FlightInv
  <2> QED
    BY <1>10, <1>11, <2>1, FlightSame DEF Open
<1>13. QueueInv' /\ AnswersInv'
  BY QueueSame, AnswersSame DEF Open
<1>14. PhaseInv'
  <2>1. sess'[i].residency = "Resident" /\ sess'[i].convo = sess[i].convo
    BY Zenon, <1>8, <1>10
  <2>2. Busy' = Busy /\ existing' = i /\ cur' = cur /\ cold_reuse' = cold_reuse
        /\ repark_age' = repark_age /\ target' = NoSlot /\ pc' = "place"
    BY Zenon, <1>1 DEF Busy, Open
  <2>3. Joins(existing)'
    BY Zenon, <1>6, <2>1, <2>2 DEF Joins
  <2> QED
    BY ZenonT(30), <1>1, <1>11, <2>1, <2>2, <2>3, IdsAreNumbers DEF PhaseInv, AdmitPCs, LoopPCs, BoundPCs
<1> QED
  BY <1>10, <1>12, <1>13, <1>14

\* The request runs on the slot of its session.
LEMMA PlaceKeeps ==
    ASSUME EngineInv, pc \in BoundPCs \ {"restore"}, Place(existing, sess[existing].slot), TableInv',
           \A j \in Ids : sess'[j].slot = sess[j].slot, UNCHANGED <<queue, submitted, gone, answers>>
    PROVE  EngineInv'
<1> USE DEF EngineInv, queue
<1>1. cur \in Requests /\ existing \in Ids
  BY Zenon, InAdmission DEF BoundPCs, AdmitPCs
<1>2. PICK i \in Ids : i = existing
  BY <1>1
<1>3. i \notin Busy /\ sess[i].residency = "Resident"
  BY <1>2, IdsAreNumbers DEF PhaseInv
<1>4. PICK s \in Slots : s = sess[i].slot
  <2>1. sess[i] \in Session /\ sess[i].slot # NoSlot
    BY <1>3 DEF TableInv, SessionOK
  <2>2. sess[i].slot \in Slots
    BY Zenon, <2>1 DEF Session
  <2> QED
    BY <2>2
<1>5. inflight' = [inflight EXCEPT ![s] = [req |-> cur, session |-> i]] /\ fair' = fair \cup {i}
  BY <1>2, <1>4 DEF Place
<1>6. FlightInv' /\ inflight[s] = Idle
  <2>1. \A j, k \in Ids : sess[j].slot = s /\ sess[k].slot = s => j = k
    BY IdsAreNumbers DEF TableInv, Owned
  <2> QED
    BY Zenon, <1>1, <1>3, <1>4, <1>5, <2>1, FlightBegins, IdsAreNumbers
<1>7. QueueInv'
  BY QueueSame DEF Place, Return
<1>8. AnswersInv'
  <2>1. PICK x : x = [req |-> cur, session |-> i]
    BY Zenon
  <2>2. x.req = cur /\ inflight[s].req = NoReq
    <3> HIDE DEF EngineInv, queue
    <3>1. x.req = cur
      BY Zenon, <2>1
    <3>2. inflight[s].req = NoReq
      BY <1>6 DEF Idle
    <3> QED
      BY Zenon, <3>1, <3>2
  <2>3. DOMAIN inflight = Slots /\ cur' = NoReq
    BY Zenon DEF FlightInv, Place, Return
  <2> QED
    BY Zenon, <1>1, <1>5, <2>1, <2>2, <2>3, CurPlaced
<1>9. PhaseInv'
  BY Zenon, ReturnPhase DEF Place
<1> QED
  BY Zenon, <1>6, <1>7, <1>8, <1>9

LEMMA TurnBeginsKeeps ==
    ASSUME EngineInv, TurnBegins
    PROVE  EngineInv'
<1> USE DEF EngineInv
<1>1. pc \in BoundPCs \ {"restore"} /\ cur \in Requests /\ existing \in Ids
  BY InAdmission DEF TurnBegins, Turning, BoundPCs, AdmitPCs
<1>2. PICK i \in Ids : i = existing
  BY <1>1
<1>3. sess[i] \in Session /\ sess[i].residency = "Resident"
  BY <1>1, <1>2, IdsAreNumbers DEF PhaseInv, TableInv
<1>4. PICK n \in Nat : n = Grant[cur] /\ n > 0
  BY <1>1, EngineAssumption
<1>5. PICK c \in Conversations \X Nat : c = Convo(cur)
  BY Zenon, <1>1, EngineAssumption DEF Convo
<1> DEFINE x == [sess[i] EXCEPT !.ctx = n, !.convo = c]
<1>6. /\ x \in Session /\ x.residency = "Resident" /\ x.slot = sess[i].slot
      /\ x.admitted = sess[i].admitted /\ x.ctx = n
  BY Zenon, <1>3 DEF Session
<1>7. sess' = [sess EXCEPT ![i] = x]
  BY Zenon, <1>2, <1>4, <1>5 DEF TurnBegins, TableInv
<1> HIDE DEF x
<1>8. \A j \in Ids : sess'[j] = IF j = i THEN x ELSE sess[j]
  BY <1>7 DEF TableInv
<1>9. sess' \in [Ids -> Session]
  BY <1>6, <1>7 DEF TableInv
<1>10. \A j \in Ids : sess'[j].slot = sess[j].slot
  BY <1>6, <1>8
<1>11. adm' = [adm EXCEPT ![i] = n] /\ adm \in [Ids -> Nat]
  BY <1>2, <1>4 DEF TurnBegins, TableInv
<1>12. adm' \in [Ids -> Nat] /\ \A j \in Ids : adm'[j] = IF j = i THEN n ELSE adm[j]
  BY <1>11
<1>13. WithinBudget'
  <2>1. adm[i] > 0 /\ ResizeFits(i, n)
    BY <1>2, <1>3, <1>4 DEF TurnBegins, TableInv, SessionOK
  <2> QED
    BY Zenon, <1>4, <1>11, <2>1, BudgetGrows DEF TableInv
<1>14. free' = free /\ target' = target /\ swap' = swap /\ next_id' = next_id
  BY <1>1 DEF TurnBegins, Place, Return, PhaseInv
<1>15. Owned'
  BY <1>10, <1>14 DEF TableInv, Owned
<1>16. ASSUME NEW j \in Ids PROVE SessionOK(j)'
  <2>1. CASE j = i
    <3>1. SessionOK(i) /\ sess[i] # NoSession /\ sess'[i] = x /\ adm'[i] = n
      <4>1. SessionOK(i)
        BY Zenon DEF TableInv
      <4> HIDE DEF EngineInv
      <4>2. sess[i] # NoSession
        <5>1. NoSession.residency = "None"
          BY Zenon DEF NoSession
        <5> QED
          BY Zenon, <1>3, <5>1
      <4>3. sess'[i] = x /\ adm'[i] = n
        BY Zenon, <1>8, <1>12
      <4> QED
        BY Zenon, <4>1, <4>2, <4>3
    <3> QED
      BY <1>3, <1>4, <1>6, <1>14, <2>1, <3>1 DEF SessionOK
  <2>2. CASE j # i
    BY <1>8, <1>12, <1>14, <2>2 DEF TableInv, SessionOK
  <2> QED
    BY <2>1, <2>2
<1>17. SnapshotsOwned'
  BY Zenon, <1>3, <1>6, <1>8, <1>14 DEF TableInv, SnapshotsOwned
<1>18. TableInv'
  BY <1>9, <1>12, <1>13, <1>14, <1>15, <1>16, <1>17 DEF TableInv
<1> QED
  BY Zenon, <1>1, <1>10, <1>18, PlaceKeeps DEF TurnBegins

LEMMA PlacesKeeps ==
    ASSUME EngineInv, Places
    PROVE  EngineInv'
<1> USE DEF EngineInv
<1>1. pc \in BoundPCs \ {"restore"} /\ cur \in Requests /\ existing \in Ids
  BY InAdmission DEF Places, Placing, BoundPCs, AdmitPCs
<1>2. PICK i \in Ids : i = existing
  BY <1>1
<1>3. sess[i] \in Session /\ sess[i].residency = "Resident"
  BY <1>1, <1>2, IdsAreNumbers DEF PhaseInv, TableInv
<1>4. PICK c \in Conversations \X Nat : c = Convo(cur)
  BY Zenon, <1>1, EngineAssumption DEF Convo
<1> DEFINE x == [sess[i] EXCEPT !.convo = c]
<1>5. /\ x \in Session /\ x.residency = "Resident" /\ x.slot = sess[i].slot
      /\ x.admitted = sess[i].admitted /\ x.ctx = sess[i].ctx
  BY <1>3 DEF Session
<1>6. sess' = [sess EXCEPT ![i] = x]
  BY <1>2, <1>4 DEF Places, TableInv
<1> HIDE DEF x
<1>7. \A j \in Ids : sess'[j] = IF j = i THEN x ELSE sess[j]
  BY <1>6 DEF TableInv
<1>8. sess' \in [Ids -> Session]
  BY <1>5, <1>6 DEF TableInv
<1>9. \A j \in Ids : sess'[j].slot = sess[j].slot
  BY <1>5, <1>7
<1>10. free' = free /\ target' = target /\ swap' = swap /\ next_id' = next_id /\ adm' = adm
  BY <1>1 DEF Places, Place, Return, PhaseInv, ids
<1>11. Owned'
  BY <1>9, <1>10 DEF TableInv, Owned
<1>12. ASSUME NEW j \in Ids PROVE SessionOK(j)'
  <2>1. CASE j = i
    <3>1. SessionOK(i) /\ sess[i] # NoSession /\ sess'[i] = x
      BY <1>3, <1>7 DEF TableInv, NoSession
    <3> QED
      BY <1>3, <1>5, <1>10, <2>1, <3>1 DEF SessionOK
  <2>2. CASE j # i
    BY <1>7, <1>10, <2>2 DEF TableInv, SessionOK
  <2> QED
    BY <2>1, <2>2
<1>13. SnapshotsOwned' /\ WithinBudget'
  BY <1>3, <1>5, <1>7, <1>10 DEF TableInv, SnapshotsOwned, WithinBudget, used_bytes
<1>14. TableInv'
  BY <1>8, <1>10, <1>11, <1>12, <1>13 DEF TableInv
<1> QED
  BY <1>1, <1>9, <1>14, PlaceKeeps DEF Places

LEMMA OpenWaitsKeeps ==
    ASSUME EngineInv, OpenWaits
    PROVE  EngineInv'
<1> USE DEF EngineInv
<1>1. pc \in AdmitPCs \ {"restore"} /\ cur \in Requests
  BY InAdmission DEF OpenWaits, Opening, AdmitPCs
<1>2. CASE Park(cur, repark_age) /\ UNCHANGED answers
  <2> USE DEF table, ids, active, clients
  <2>1. target' = target /\ cur' = NoReq /\ repark_age' = 0
    BY <1>1 DEF OpenWaits, PhaseInv, Return
  <2>2. TableInv' /\ FlightInv'
    BY <2>1, TableSame, FlightSame DEF OpenWaits
  <2>3. PICK r \in Requests : r = cur
    BY <1>1
  <2>4. PICK age \in Nat : age = repark_age
    BY DEF QueueInv
  <2>5. QueueInv' /\ parked'[r] # 0 /\ \A q \in Requests \ {r} : parked'[q] = parked[q]
    BY <1>2, <2>1, <2>3, <2>4, ParkKeeps DEF AnswersInv
  <2>6. AnswersInv'
    BY <1>1, <1>2, <2>1, <2>3, <2>5, CurParked DEF OpenWaits
  <2>7. PhaseInv'
    BY Zenon, ReturnPhase DEF OpenWaits
  <2> QED
    BY <2>2, <2>5, <2>6, <2>7
<1>3. CASE Answer(cur, "rejected") /\ UNCHANGED queue
  <2>1. "rejected" \in Replies
    BY DEF Replies
  <2> QED
    BY Zenon, <1>1, <1>3, <2>1, Refuses DEF OpenWaits, clients
<1> QED
  BY <1>2, <1>3 DEF OpenWaits

-----------------------------------------------------------------------------
(* Commands *)

\* A request that was not submitted is nowhere.
LEMMA Unknown ==
    ASSUME AnswersInv, NEW r \in Requests, r \notin submitted
    PROVE  cur # r /\ r \notin Waiting /\ ~InFlight(r) /\ Len(answers[r]) = 0
<1>1. answers[r] \in Seq(Replies)
  BY DEF AnswersInv
<1>2. Len(answers[r]) \in Nat
  BY <1>1
<1>3. Len(answers[r]) # 1 /\ Len(answers[r]) <= 1
  BY DEF AnswersInv
<1>4. \A n \in Nat : n # 1 /\ n <= 1 => n = 0
  OBVIOUS
<1>5. Len(answers[r]) = 0
  BY Zenon, <1>2, <1>3, <1>4
<1> QED
  BY <1>5 DEF AnswersInv

LEMMA SubmitKeeps ==
    ASSUME EngineInv, NEW r \in Requests, Submit(r)
    PROVE  EngineInv'
<1> USE DEF EngineInv, table, ids, active, queue
<1>1. TableInv' /\ FlightInv' /\ QueueInv'
  BY TableSame, FlightSame, QueueSame DEF Submit
<1>2. cur = NoReq
  BY DEF Submit, Receiving, PhaseInv, AdmitPCs
<1>3. PhaseInv'
  BY <1>2, NoReqAssumption DEF Submit, Receiving, PhaseInv, AdmitPCs, LoopPCs, BoundPCs
<1>4. AnswersInv'
  <2>1. r \notin Waiting /\ ~InFlight(r) /\ Len(answers[r]) = 0
    BY Unknown DEF Submit
  <2>2. Waiting' = Waiting
    BY DEF Waiting, Submit
  <2>3. \A q \in Requests : InFlight(q)' <=> InFlight(q)
    BY DEF InFlight, Submit
  <2>4. cur' = r /\ submitted' = submitted \cup {r} /\ UNCHANGED <<inflight, answers, gone>>
    BY DEF Submit
  <2>5. ASSUME NEW q \in Requests
        PROVE  /\ cur' = q => q \notin Waiting' /\ ~InFlight(q)' /\ Len(answers'[q]) = 0
               /\ q \in Waiting' => ~InFlight(q)' /\ Len(answers'[q]) = 0
               /\ InFlight(q)' => Len(answers'[q]) = 0
               /\ Len(answers'[q]) <= 1
               /\ q \in submitted' <=> cur' = q \/ q \in Waiting' \/ InFlight(q)' \/ Len(answers'[q]) = 1
    <3>1. InFlight(q)' <=> InFlight(q)
      BY <2>3
    <3> QED
      BY <1>2, <2>1, <2>2, <2>4, <3>1, NoReqAssumption DEF AnswersInv
  <2> QED
    BY <2>4, <2>5 DEF AnswersInv
<1> QED
  BY <1>1, <1>3, <1>4

LEMMA SubmitParksKeeps ==
    ASSUME EngineInv, NEW r \in Requests, SubmitParks(r)
    PROVE  EngineInv'
<1> USE DEF EngineInv, table, ids, active
<1>1. TableInv' /\ FlightInv'
  BY TableSame, FlightSame DEF SubmitParks, admitting
<1>2. PhaseInv'
  BY LoopPhase DEF SubmitParks, Receiving, LoopPCs
<1>3. r \notin Waiting /\ ~InFlight(r) /\ Len(answers[r]) = 0 /\ cur # r
  BY Unknown DEF SubmitParks
<1>4. repark_age' = 0 /\ repark_age = 0 /\ cur' = cur /\ inflight' = inflight /\ gone' = gone
      /\ submitted' = submitted \cup {r}
  BY DEF SubmitParks, admitting, Receiving, PhaseInv, AdmitPCs
<1>5. \A q \in Requests : InFlight(q)' <=> InFlight(q)
  BY <1>4 DEF InFlight
<1>6. CASE Park(r, 0) /\ UNCHANGED answers
  <2>1. QueueInv' /\ parked'[r] # 0 /\ \A q \in Requests \ {r} : parked'[q] = parked[q]
    <3>1. QueueInv /\ r \notin Waiting /\ 0 \in Nat /\ Park(r, 0) /\ repark_age' = 0
      BY <1>3, <1>4, <1>6
    <3> QED
      BY <3>1, ParkKeeps
  <2>2. Waiting' = Waiting \cup {r}
    BY <2>1 DEF Waiting
  <2>3. ASSUME NEW q \in Requests
        PROVE  /\ cur' = q => q \notin Waiting' /\ ~InFlight(q)' /\ Len(answers'[q]) = 0
               /\ q \in Waiting' => ~InFlight(q)' /\ Len(answers'[q]) = 0
               /\ InFlight(q)' => Len(answers'[q]) = 0
               /\ Len(answers'[q]) <= 1
               /\ q \in submitted' <=> cur' = q \/ q \in Waiting' \/ InFlight(q)' \/ Len(answers'[q]) = 1
    <3>1. InFlight(q)' <=> InFlight(q)
      BY <1>5
    <3> QED
      BY <1>3, <1>4, <1>6, <2>2, <3>1 DEF AnswersInv
  <2>4. AnswersInv'
    BY <1>4, <1>6, <2>3 DEF AnswersInv
  <2> QED
    BY <1>1, <1>2, <2>1, <2>4
<1>7. CASE Answer(r, "rejected") /\ UNCHANGED queue
  <2>1. QueueInv'
    BY <1>4, <1>7, QueueSame
  <2>2. /\ answers' \in [Requests -> Seq(Replies)]
        /\ Len(answers'[r]) = Len(answers[r]) + 1
        /\ \A q \in Requests \ {r} : answers'[q] = answers[q]
    <3>1. "rejected" \in Replies
      BY DEF Replies
    <3> QED
      BY <1>7, <3>1, OneReply DEF AnswersInv
  <2>3. Waiting' = Waiting
    BY <1>7 DEF Waiting, queue
  <2>4. ASSUME NEW q \in Requests
        PROVE  /\ cur' = q => q \notin Waiting' /\ ~InFlight(q)' /\ Len(answers'[q]) = 0
               /\ q \in Waiting' => ~InFlight(q)' /\ Len(answers'[q]) = 0
               /\ InFlight(q)' => Len(answers'[q]) = 0
               /\ Len(answers'[q]) <= 1
               /\ q \in submitted' <=> cur' = q \/ q \in Waiting' \/ InFlight(q)' \/ Len(answers'[q]) = 1
    <3>1. InFlight(q)' <=> InFlight(q)
      BY <1>5
    <3>2. CASE q = r
      <4>1. Len(answers'[q]) = 1 /\ q \in submitted'
        BY <1>3, <1>4, <2>2, <3>2
      <4>2. ~InFlight(q)' /\ q \notin Waiting' /\ cur' # q
        BY <1>3, <1>4, <2>3, <3>1, <3>2
      <4> QED
        BY <4>1, <4>2
    <3>3. CASE q # r
      BY <1>4, <2>2, <2>3, <3>1, <3>3 DEF AnswersInv
    <3> QED
      BY <3>2, <3>3
  <2>5. AnswersInv'
    BY <1>4, <2>2, <2>4 DEF AnswersInv
  <2> QED
    BY <1>1, <1>2, <2>1, <2>5
<1> QED
  BY <1>6, <1>7 DEF SubmitParks

\* Waiters of W leave the queue with an answer each.
LEMMA WaitersLeave ==
    ASSUME EngineInv, pc \in LoopPCs, pc' \in LoopPCs, NEW W \in SUBSET Waiting, Unpark(W),
           answers' \in [Requests -> Seq(Replies)],
           \A r \in Requests : Len(answers'[r]) = IF r \in W THEN Len(answers[r]) + 1 ELSE Len(answers[r]),
           UNCHANGED <<table, ids, swap, active, admitting, submitted, gone>>
    PROVE  EngineInv'
<1> USE DEF EngineInv, table, ids, active
<1>1. TableInv' /\ FlightInv'
  BY TableSame, FlightSame DEF admitting
<1>2. PhaseInv'
  BY LoopPhase
<1>3. repark_age' = 0 /\ cur' = cur /\ W \subseteq Requests
  BY DEF admitting, PhaseInv, LoopPCs, AdmitPCs, Waiting
<1>4. QueueInv' /\ \A r \in Requests : parked'[r] = IF r \in W THEN 0 ELSE parked[r]
  BY Zenon, <1>3, UnparkKeeps
<1>5. AnswersInv'
  <2>1. inflight' = [s \in Slots |-> IF s \in {} THEN Idle ELSE inflight[s]]
    BY DEF FlightInv
  <2>2. \A r \in Requests : Len(answers'[r]) =
            IF r \in W \/ \E s \in {} : inflight[s].req = r THEN Len(answers[r]) + 1 ELSE Len(answers[r])
    OBVIOUS
  <2>3. {} \in SUBSET Slots
    OBVIOUS
  <2> QED
    BY ZenonT(30), <1>3, <1>4, <2>1, <2>2, <2>3, SomeAnswered
<1> QED
  BY Zenon, <1>1, <1>2, <1>4, <1>5

LEMMA CancelWaitingKeeps ==
    ASSUME EngineInv, NEW r \in Requests, CancelWaiting(r)
    PROVE  EngineInv'
<1>1. "rejected" \in Replies /\ answers \in [Requests -> Seq(Replies)]
  BY DEF Replies, EngineInv, AnswersInv
<1>2. /\ answers' \in [Requests -> Seq(Replies)]
      /\ Len(answers'[r]) = Len(answers[r]) + 1
      /\ \A q \in Requests \ {r} : answers'[q] = answers[q]
  BY <1>1, OneReply DEF CancelWaiting
<1>3. \A q \in Requests : Len(answers'[q]) = IF q \in {r} THEN Len(answers[q]) + 1 ELSE Len(answers[q])
  BY <1>2
<1>4. {r} \in SUBSET Waiting
  BY DEF CancelWaiting
<1> QED
  BY <1>2, <1>3, <1>4, WaitersLeave DEF CancelWaiting, Receiving, LoopPCs, clients

\* Rejecting all of R is one more event for each of them.
LEMMA ManyReplies ==
    ASSUME answers \in [Requests -> Seq(Replies)], NEW R, RejectAll(R)
    PROVE  /\ answers' \in [Requests -> Seq(Replies)]
           /\ \A r \in Requests : Len(answers'[r]) = IF r \in R THEN Len(answers[r]) + 1 ELSE Len(answers[r])
<1>1. ASSUME NEW r \in Requests
      PROVE  Append(answers[r], "rejected") \in Seq(Replies)
             /\ Len(Append(answers[r], "rejected")) = Len(answers[r]) + 1
  BY DEF Replies
<1> QED
  BY <1>1 DEF RejectAll

LEMMA ExpireKeeps ==
    ASSUME EngineInv, Expire
    PROVE  EngineInv'
<1>1. overdue \in SUBSET Waiting
  BY DEF EngineInv, QueueInv, WaitersExact
<1>2. PICK W \in SUBSET Waiting : W = overdue
  BY <1>1
<1>3. /\ answers' \in [Requests -> Seq(Replies)]
      /\ \A r \in Requests : Len(answers'[r]) = IF r \in W THEN Len(answers[r]) + 1 ELSE Len(answers[r])
  BY <1>2, ManyReplies DEF Expire, EngineInv, AnswersInv
<1> QED
  BY <1>2, <1>3, WaitersLeave DEF Expire, LoopPCs, clients

-----------------------------------------------------------------------------
(* The loop *)

\* The generations on the slots of E end with an answer, their sessions X
\* leave the FairQueue, the sessions of C are closed and the waiters of W answered.
LEMMA GenerationsEnd ==
    ASSUME EngineInv, pc \in LoopPCs, pc' \in LoopPCs, NEW E \in SUBSET Slots, NEW X,
           NEW C \in SUBSET Ids, NEW W \in SUBSET Waiting,
           \A i \in C : i \in Busy => i \in X, CloseAll(C), swap' = swap \ C, fair' = fair \ X,
           inflight' = [s \in Slots |-> IF s \in E THEN Idle ELSE inflight[s]],
           \A s \in Slots : inflight[s].session # NoId => (s \in E <=> inflight[s].session \in X),
           QueueInv', \A r \in Requests : parked'[r] = IF r \in W THEN 0 ELSE parked[r],
           answers' \in [Requests -> Seq(Replies)],
           \A r \in Requests : Len(answers'[r]) =
              IF r \in W \/ \E s \in E : inflight[s].req = r THEN Len(answers[r]) + 1 ELSE Len(answers[r]),
           UNCHANGED <<next_id, admitting, submitted, gone>>
    PROVE  EngineInv'
<1> USE DEF EngineInv
<1>1. TableInv' /\ \A i \in Ids : sess'[i] = IF i \in C THEN NoSession ELSE sess[i]
  BY CloseKeeps DEF admitting
<1>2. \A i \in Busy \ X : sess'[i].slot = sess[i].slot
  <2>1. \A i \in Busy : i \in Ids
    BY DEF Busy, FlightInv
  <2> QED
    BY <1>1, <2>1
<1>3. FlightInv'
  BY Zenon, <1>2, FlightEnds
<1>4. PhaseInv'
  BY LoopPhase
<1>5. AnswersInv'
  BY ZenonT(30), SomeAnswered DEF admitting
<1> QED
  BY <1>1, <1>3, <1>4, <1>5

LEMMA CloseKeepsInv ==
    ASSUME EngineInv, NEW i \in Ids, Close(i)
    PROVE  EngineInv'
<1> DEFINE E == {s \in Slots : inflight[s].session = i}
           none == {}
<1>1. /\ CloseAll({i}) /\ swap' = swap \ {i} /\ fair' = fair \ {i} /\ pc \in LoopPCs /\ pc' \in LoopPCs
      /\ UNCHANGED <<next_id, admitting, submitted, gone>> /\ UNCHANGED queue
  BY DEF Close, close, Receiving, LoopPCs, clients, ids
<1>2. inflight' = [s \in Slots |-> IF s \in E THEN Idle ELSE inflight[s]]
  BY DEF Close
<1>3. QueueInv' /\ \A r \in Requests : parked'[r] = IF r \in none THEN 0 ELSE parked[r]
  BY <1>1, QueueSame DEF EngineInv, admitting, queue
<1>4. ASSUME NEW r \in Requests
      PROVE  (\E s \in Slots : inflight[s] = [req |-> r, session |-> i]) <=> \E s \in E : inflight[s].req = r
  BY DEF EngineInv, FlightInv
<1>5. ASSUME NEW r \in Requests
      PROVE  /\ Append(answers[r], "dropped") \in Seq(Replies)
             /\ Len(Append(answers[r], "dropped")) = Len(answers[r]) + 1
             /\ answers[r] \in Seq(Replies)
  BY DEF Replies, EngineInv, AnswersInv
<1>6. \A r \in Requests : answers'[r] = IF \E s \in E : inflight[s].req = r
                                        THEN Append(answers[r], "dropped") ELSE answers[r]
  BY <1>4 DEF Close
<1>7. answers' \in [Requests -> Seq(Replies)]
  BY <1>5 DEF Close
<1>8. \A r \in Requests : Len(answers'[r]) =
          IF r \in none \/ \E s \in E : inflight[s].req = r THEN Len(answers[r]) + 1 ELSE Len(answers[r])
  BY Zenon, <1>5, <1>6
<1>9. /\ E \in SUBSET Slots /\ none \in SUBSET Waiting /\ {i} \in SUBSET Ids
      /\ \A s \in Slots : inflight[s].session # NoId => (s \in E <=> inflight[s].session \in {i})
      /\ \A j \in {i} : j \in Busy => j \in {i}
  OBVIOUS
<1> HIDE DEF E, none
<1> QED
  BY ZenonT(30), <1>1, <1>2, <1>3, <1>7, <1>8, <1>9, GenerationsEnd

LEMMA ResetKeeps ==
    ASSUME EngineInv, Reset
    PROVE  EngineInv'
<1> USE DEF EngineInv, ids, active, queue
<1>1. TableInv'
  <2>1. PICK S \in SUBSET Ids : S = Live
    BY Zenon DEF Live
  <2> QED
    BY <2>1, CloseKeeps DEF Reset, admitting
<1>2. Busy = {}
  BY DEF Reset, AllIdle, Idle, Busy
<1>3. FlightInv'
  BY <1>2, FlightSame DEF Reset
<1>4. QueueInv' /\ AnswersInv'
  BY QueueSame, AnswersSame DEF Reset, admitting, clients
<1>5. PhaseInv'
  BY LoopPhase DEF Reset, Receiving, LoopPCs
<1> QED
  BY <1>1, <1>3, <1>4, <1>5

LEMMA ShutdownKeeps ==
    ASSUME EngineInv, Shutdown
    PROVE  EngineInv'
<1> DEFINE W == Waiting
           X == Busy
           open == {inflight[s].req : s \in Slots} \ {NoReq}
<1>1. /\ CloseAll(X) /\ swap' = swap \ X /\ fair' = fair \ X /\ pc \in LoopPCs /\ pc' \in LoopPCs
      /\ UNCHANGED <<next_id, admitting, submitted, gone>>
  BY DEF Shutdown, LoopPCs, clients, ids
<1>2. inflight' = [s \in Slots |-> IF s \in Slots THEN Idle ELSE inflight[s]]
  BY DEF Shutdown
<1>3. QueueInv' /\ \A r \in Requests : parked'[r] = IF r \in W THEN 0 ELSE parked[r]
  <2>1. repark_age' = 0 /\ W \in SUBSET Requests
    BY <1>1 DEF admitting, EngineInv, PhaseInv, LoopPCs, AdmitPCs, Waiting
  <2>2. PICK R \in SUBSET Requests : R = W
    BY <2>1
  <2>3. Unpark(R)
    BY Zenon, <2>2 DEF Shutdown
  <2> QED
    BY <2>1, <2>2, <2>3, UnparkKeeps DEF EngineInv
<1>4. /\ answers' \in [Requests -> Seq(Replies)]
      /\ \A r \in Requests : Len(answers'[r]) =
             IF r \in open \cup W THEN Len(answers[r]) + 1 ELSE Len(answers[r])
  <2>1. PICK R : R = open \cup W
    BY Zenon
  <2>2. RejectAll(R)
    BY Zenon, <2>1 DEF Shutdown
  <2> QED
    BY Zenon, <2>1, <2>2, ManyReplies DEF EngineInv, AnswersInv
<1>5. \A r \in Requests : r \in open \cup W <=> r \in W \/ \E s \in Slots : inflight[s].req = r
  BY NoReqAssumption
<1>6. \A r \in Requests : Len(answers'[r]) =
          IF r \in W \/ \E s \in Slots : inflight[s].req = r THEN Len(answers[r]) + 1 ELSE Len(answers[r])
  BY Zenon, <1>4, <1>5
<1>7. /\ X \in SUBSET Ids /\ W \in SUBSET Waiting /\ Slots \in SUBSET Slots
      /\ \A s \in Slots : inflight[s].session # NoId => (s \in Slots <=> inflight[s].session \in X)
      /\ \A j \in X : j \in Busy => j \in X
  BY DEF Busy, EngineInv, FlightInv
<1> HIDE DEF W, X, open
<1> QED
  BY ZenonT(30), <1>1, <1>2, <1>3, <1>4, <1>6, <1>7, GenerationsEnd

LEMMA DrainKeeps ==
    ASSUME EngineInv, Drain
    PROVE  EngineInv'
<1> USE DEF EngineInv, table, ids, active
<1>1. TableInv' /\ FlightInv'
  BY TableSame, FlightSame DEF Drain
<1>2. cur = NoReq
  BY DEF Drain, PhaseInv, AdmitPCs
<1>3. PICK r \in Requests : r = Head(wait_queue) /\ r \in Waiting
  <2>1. wait_queue \in Seq(Requests) /\ wait_queue # <<>>
    BY DEF QueueInv, Drain
  <2>2. Head(wait_queue) = wait_queue[1] /\ 1 \in DOMAIN wait_queue /\ wait_queue[1] \in Requests
    BY <2>1
  <2>3. wait_queue[1] \in Waiting
    BY <2>2 DEF QueueInv, WaitersExact
  <2> QED
    BY <2>2, <2>3
<1>4. /\ cur' = r /\ repark_age' = parked[r] /\ Unpark({r}) /\ pc = "drain" /\ pc' = "sweep"
      /\ UNCHANGED <<inflight, answers, submitted, gone, existing, target, cold_reuse, sess>>
  BY <1>3 DEF Drain, clients
<1>5. QueueInv' /\ \A q \in Requests : parked'[q] = IF q \in {r} THEN 0 ELSE parked[q]
  <2>1. repark_age' \in Nat /\ {r} \cap Waiting # {} /\ {r} \in SUBSET Requests
    BY <1>3, <1>4 DEF QueueInv
  <2> QED
    BY <1>4, <2>1, UnparkKeeps
<1>6. PhaseInv'
  BY Zenon, <1>2, <1>4, NoReqAssumption DEF PhaseInv, AdmitPCs, LoopPCs, BoundPCs
<1>7. AnswersInv'
  <2>1. Waiting' = Waiting \ {r}
    BY <1>5 DEF Waiting
  <2>2. ASSUME NEW q \in Requests
        PROVE  /\ cur' = q => q \notin Waiting' /\ ~InFlight(q)' /\ Len(answers'[q]) = 0
               /\ q \in Waiting' => ~InFlight(q)' /\ Len(answers'[q]) = 0
               /\ InFlight(q)' => Len(answers'[q]) = 0
               /\ Len(answers'[q]) <= 1
               /\ q \in submitted' <=> cur' = q \/ q \in Waiting' \/ InFlight(q)' \/ Len(answers'[q]) = 1
    <3>1. InFlight(q)' <=> InFlight(q)
      BY Zenon, <1>4 DEF InFlight
    <3> QED
      BY Zenon, <1>2, <1>3, <1>4, <2>1, <3>1, NoReqAssumption DEF AnswersInv
  <2> QED
    BY <1>4, <2>2 DEF AnswersInv
<1> QED
  BY <1>1, <1>5, <1>6, <1>7

LEMMA StepKeeps ==
    ASSUME EngineInv, Step
    PROVE  EngineInv'
<1> USE DEF EngineInv
<1>1. PICK fate \in [Slots -> {"idle", "run", "done", "gone", "fail", "incomplete"}] :
          Step!2!(fate)
  BY Zenon DEF Step
<1> DEFINE Of(F) == {s \in Slots : fate[s] \in F}
           Ended == Of({"done", "gone", "fail", "incomplete"})
           Closed == {inflight[s].session : s \in Of({"gone", "fail"})}
           Over == {inflight[s].session : s \in Ended}
           AnswerOf(s) == IF fate[s] \in {"done", "gone"} THEN "done" ELSE "rejected"
           ends(r) == \E s \in Ended : inflight[s].req = r
           none == {}
<1>2. \A s \in Slots : fate[s] \in Fates(s)
  BY Zenon, <1>1
<1>3. /\ inflight' = [s \in Slots |-> IF s \in Ended THEN Idle ELSE inflight[s]]
      /\ fair' = fair \ Over /\ CloseAll(Closed) /\ swap' = swap \ Closed
  BY Zenon, <1>1
<1>4. answers' = [r \in Requests |-> IF ends(r)
                     THEN Append(answers[r], AnswerOf(CHOOSE s \in Ended : inflight[s].req = r))
                     ELSE answers[r]]
  BY Zenon, <1>1
<1>5. /\ pc \in LoopPCs /\ pc' \in LoopPCs /\ UNCHANGED queue
      /\ UNCHANGED <<next_id, admitting, submitted, gone>>
  BY Zenon DEF Step, LoopPCs, clients
<1>6. \A s \in Ended : inflight[s] # Idle
  BY <1>2 DEF Fates
<1>7. \A s \in Ended : inflight[s].session \in Ids /\ inflight[s].session # NoId
  BY <1>6, IdleSlots
<1>8. Closed \in SUBSET Ids /\ Closed \subseteq Over
  BY <1>7
<1>9. \A s \in Slots : inflight[s].session # NoId => (s \in Ended <=> inflight[s].session \in Over)
  <2> SUFFICES ASSUME NEW s \in Slots, inflight[s].session # NoId, NEW t \in Ended,
                      inflight[s].session = inflight[t].session
               PROVE  s = t
    OBVIOUS
  <2> QED
    BY <1>7 DEF FlightInv
<1>10. QueueInv' /\ \A r \in Requests : parked'[r] = IF r \in none THEN 0 ELSE parked[r]
  BY <1>5, QueueSame DEF admitting, queue
<1>11. ASSUME NEW r \in Requests, NEW kind \in Replies
       PROVE  /\ Append(answers[r], kind) \in Seq(Replies)
              /\ Len(Append(answers[r], kind)) = Len(answers[r]) + 1
              /\ answers[r] \in Seq(Replies)
  BY DEF AnswersInv
<1>12. \A s : AnswerOf(s) \in Replies
  BY DEF Replies
<1> HIDE DEF AnswerOf, Ended, Closed, Over
<1>13. ASSUME NEW r \in Requests
       PROVE  /\ answers'[r] \in Seq(Replies)
              /\ Len(answers'[r]) = IF ends(r) THEN Len(answers[r]) + 1 ELSE Len(answers[r])
  <2>1. PICK kind \in Replies : kind = AnswerOf(CHOOSE s \in Ended : inflight[s].req = r)
    BY Zenon, <1>12
  <2>2. answers'[r] = IF ends(r) THEN Append(answers[r], kind) ELSE answers[r]
    BY <1>4, <2>1
  <2> QED
    BY <1>11, <2>2
<1>14. answers' \in [Requests -> Seq(Replies)]
  BY Zenon, <1>4, <1>13
<1>15. \A r \in Requests : Len(answers'[r]) =
          IF r \in none \/ \E s \in Ended : inflight[s].req = r THEN Len(answers[r]) + 1 ELSE Len(answers[r])
  BY <1>13
<1>16. Ended \in SUBSET Slots /\ none \in SUBSET Waiting /\ \A j \in Closed : j \in Busy => j \in Over
  BY <1>8 DEF Ended
<1> HIDE DEF none, EngineInv
<1> QED
  BY ZenonT(30), <1>3, <1>5, <1>8, <1>9, <1>10, <1>14, <1>15, <1>16, GenerationsEnd

LEMMA VanishKeeps ==
    ASSUME EngineInv, NEW r \in Requests, Vanish(r)
    PROVE  EngineInv'
<1> USE DEF EngineInv, table, ids, active, queue, admitting
<1>1. TableInv' /\ FlightInv' /\ QueueInv'
  BY TableSame, FlightSame, QueueSame DEF Vanish
<1>2. PhaseInv'
  BY Zenon DEF Vanish, PhaseInv, Joins, Busy
<1>3. AnswersInv'
  BY Zenon DEF Vanish, AnswersInv, Waiting, InFlight
<1> QED
  BY <1>1, <1>2, <1>3

LEMMA DeadlineKeeps ==
    ASSUME EngineInv, NEW r \in Requests, Deadline(r)
    PROVE  EngineInv'
<1> USE DEF EngineInv, table, ids, active, admitting, clients
<1>1. TableInv' /\ FlightInv' /\ AnswersInv'
  BY TableSame, FlightSame, AnswersSame DEF Deadline
<1>2. PhaseInv'
  BY Zenon DEF Deadline, PhaseInv, Joins, Busy
<1>3. QueueInv'
  <2>1. UNCHANGED <<wait_queue, parked, stamps, repark_age>> /\ r \in Waiting
        /\ overdue' = overdue \cup {r}
    BY Zenon DEF Deadline
  <2>2. Waiting' = Waiting
    BY <2>1 DEF Waiting
  <2> HIDE DEF table, ids, active, admitting, clients
  <2>3. WaitersExact'
    BY Zenon, <2>1, <2>2 DEF QueueInv, WaitersExact
  <2> QED
    BY <2>1, <2>2, <2>3 DEF QueueInv
<1> QED
  BY <1>1, <1>2, <1>3

-----------------------------------------------------------------------------
(* The invariant *)

\* Every command keeps the invariant, ...
LEMMA CommandKeeps ==
    ASSUME EngineInv, Command
    PROVE  EngineInv'
  BY SubmitKeeps, SubmitParksKeeps, CancelWaitingKeeps, CloseKeepsInv, ResetKeeps DEF Command

\* ... every step of admit, ...
LEMMA AdmitKeeps ==
    ASSUME EngineInv, Admit
    PROVE  EngineInv'
<1> USE DEF clients
<1>1. "rejected" \in Replies /\ "dropped" \in Replies
  BY DEF Replies
<1>2. CASE AdmitSweeps
  BY <1>2, Sweeps DEF AdmitSweeps
<1>3. CASE NoMatch
  BY <1>3, OnlyPhase DEF NoMatch
<1>4. CASE \E i \in Ids : MatchResident(i) \/ MatchSwapped(i)
  BY <1>4, MatchResidentKeeps, MatchSwappedKeeps
<1>5. CASE \E i \in Ids : MatchEvicts(i)
  <2>1. PICK v \in Victims(NoId) : evict(v)
    BY <1>5 DEF MatchEvicts
  <2>2. pc = "match" /\ pc' = pc /\ UNCHANGED <<ids, active, queue, admitting, submitted, gone, answers>>
    BY <1>5 DEF MatchEvicts
  <2>3. existing = NoId
    BY <2>2 DEF EngineInv, PhaseInv, BoundPCs
  <2> QED
    BY <2>1, <2>2, <2>3, Evicts
<1>6. CASE \E i \in Ids : MatchNoSlot(i)
  BY <1>6, OnlyPhase DEF MatchNoSlot
<1>7. CASE RestoreOk \/ RestoreFails
  BY <1>7, RestoreOkKeeps, RestoreFailsKeeps
<1>8. CASE TurnFull
  BY Zenon, <1>1, <1>8, RefusesAndCloses DEF TurnFull, Reject, BoundPCs
<1>9. CASE TurnRefused \/ TurnNoPages
  <2>1. pc \in AdmitPCs \ {"restore"} /\ Reject
        /\ UNCHANGED <<table, ids, swap, active, queue, submitted, gone>>
    BY <1>9 DEF TurnRefused, TurnNoPages, Turning, AdmitPCs
  <2> QED
    BY Zenon, <1>1, <2>1, Refuses DEF Reject
<1>10. CASE TurnReclaims \/ PlaceReclaims
  <2>1. PICK v \in Victims(existing) : evict(v)
    BY <1>10 DEF TurnReclaims, PlaceReclaims
  <2>2. /\ UNCHANGED <<ids, active, queue, admitting, submitted, gone, answers>>
        /\ \/ pc \in {"turn", "turn_pages"} /\ pc' = "turn_pages"
           \/ pc \in {"place", "place_pages"} /\ pc' = "place_pages"
    BY <1>10 DEF TurnReclaims, PlaceReclaims, Turning, Placing
  <2> QED
    BY <2>1, <2>2, Evicts
<1>11. CASE TurnFails
  <2>1. PICK kind \in Replies : Answer(cur, kind)
    BY <1>1, <1>11 DEF TurnFails
  <2> QED
    BY Zenon, <1>11, <2>1, RefusesAndCloses DEF TurnFails, Turning, BoundPCs
<1>12. CASE TurnBegins \/ Places
  BY <1>12, TurnBeginsKeeps, PlacesKeeps
<1>13. CASE PromptTooLong \/ OpenNever
  <2>1. pc \in AdmitPCs \ {"restore"} /\ Reject
        /\ UNCHANGED <<table, ids, swap, active, queue, submitted, gone>>
    BY <1>13 DEF PromptTooLong, OpenNever, Opening, AdmitPCs
  <2> QED
    BY Zenon, <1>1, <2>1, Refuses DEF Reject
<1>14. CASE \E i \in Ids : Open(i)
  BY <1>14, OpenKeeps
<1>15. CASE OpenEvicts
  <2>1. PICK v \in Victims(NoId) : evict(v)
    BY <1>15 DEF OpenEvicts
  <2>2. pc = "cold" /\ pc' = pc /\ UNCHANGED <<ids, active, queue, admitting, submitted, gone, answers>>
    BY <1>15 DEF OpenEvicts, Opening
  <2>3. existing = NoId
    BY <2>2 DEF EngineInv, PhaseInv, BoundPCs
  <2> QED
    BY <2>1, <2>2, <2>3, Evicts
<1>16. CASE OpenWaits
  BY <1>16, OpenWaitsKeeps
<1>17. CASE PlaceFails
  <2>1. PICK kind \in Replies : Answer(cur, kind)
    BY <1>1, <1>17 DEF PlaceFails
  <2> QED
    BY Zenon, <1>17, <2>1, RefusesAndCloses DEF PlaceFails, Placing, BoundPCs
<1>18. CASE PlaceSchemaFails
  BY Zenon, <1>1, <1>18, RefusesAndCloses DEF PlaceSchemaFails, Placing, BoundPCs
<1> QED
  BY <1>2, <1>3, <1>4, <1>5, <1>6, <1>7, <1>8, <1>9, <1>10, <1>11, <1>12, <1>13, <1>14, <1>15,
     <1>16, <1>17, <1>18 DEF Admit

\* ... every step of the loop, ...
LEMMA LoopKeeps ==
    ASSUME EngineInv, Loop
    PROVE  EngineInv'
<1>1. CASE RecvDone \/ DrainDone \/ Wake
  <2>1. /\ pc \in LoopPCs /\ pc' \in LoopPCs
        /\ UNCHANGED <<table, ids, swap, active, queue, admitting, submitted, gone, answers>>
    BY <1>1 DEF RecvDone, DrainDone, Wake, LoopPCs, clients
  <2> QED
    BY <2>1, OnlyPhase
<1> QED
  BY <1>1, ExpireKeeps, DrainKeeps, StepKeeps, ShutdownKeeps DEF Loop

\* ... and everything beside it.
LEMMA EngineStep ==
    ASSUME EngineInv, [Next]_vars
    PROVE  EngineInv'
<1>1. CASE IdleSweep
  BY <1>1, Sweeps DEF IdleSweep, clients
<1>2. CASE Environment
  <2>1. CASE Disconnect
    BY <2>1, OnlyPhase DEF Disconnect
  <2> QED
    BY <1>2, <2>1, VanishKeeps, DeadlineKeeps DEF Environment
<1>3. CASE Stopped \/ UNCHANGED vars
  <2>1. UNCHANGED <<pc, table, ids, swap, active, queue, admitting, submitted, gone, answers>>
    BY <1>3 DEF Stopped, vars, clients
  <2> QED
    BY <2>1, OnlyPhase
<1> QED
  BY <1>1, <1>2, <1>3, CommandKeeps, AdmitKeeps, LoopKeeps DEF Next

\* In every state the engine can reach, its bookkeeping is consistent.
THEOREM EngineAlways == Spec => []EngineInv
  BY EngineInit, EngineStep, PTL DEF Spec

\* Session table, admission controller, slot pool, swap store, run_loop's
\* slots and admit's variables hold values of their types.
THEOREM EngineTypes == Spec => []EngineTypeOK
<1>1. EngineInv => EngineTypeOK
  <2> SUFFICES ASSUME EngineInv PROVE EngineTypeOK
    OBVIOUS
  <2>1. fair \subseteq Ids
    BY DEF EngineInv, FlightInv, Busy
  <2>2. overdue \subseteq Requests
    BY DEF EngineInv, QueueInv, WaitersExact, Waiting
  <2> QED
    BY <2>1, <2>2 DEF EngineTypeOK, EngineInv, TableInv, FlightInv, PhaseInv, AnswersInv
<1> QED
  BY <1>1, EngineAlways, PTL

\* Every slot is free, reserved by admit for a restore or held by exactly one
\* session, a request in flight runs on its session's slot, and the FairQueue
\* schedules exactly the requests in flight.
THEOREM SlotsAreExact == Spec => []SlotsExact
<1>1. EngineInv => SlotsExact
  <2> SUFFICES ASSUME EngineInv PROVE SlotsExact
    OBVIOUS
  <2>1. ASSUME NEW s \in Slots
        PROVE  Cardinality({i \in Ids : sess[i].slot = s})
                 + (IF s \in free THEN 1 ELSE 0) + (IF target = s THEN 1 ELSE 0) = 1
    <3> DEFINE H == {i \in Ids : sess[i].slot = s}
    <3>1. s # NoSlot /\ Owned
      BY IdsAreNumbers DEF EngineInv, TableInv
    <3>2. CASE \E i \in Ids : sess[i].slot = s
      <4>1. PICK i \in Ids : sess[i].slot = s
        BY <3>2
      <4>2. H = {i}
        BY <3>1, <4>1 DEF Owned
      <4>3. Cardinality(H) = 1
        BY Zenon, <4>2, FS_Singleton
      <4>4. s \notin free /\ target # s
        BY <3>1, <4>1 DEF Owned
      <4> HIDE DEF H
      <4>5. Cardinality(H) + (IF s \in free THEN 1 ELSE 0) + (IF target = s THEN 1 ELSE 0) = 1
        BY <4>3, <4>4
      <4> QED
        BY <4>5 DEF H
    <3>3. CASE ~\E i \in Ids : sess[i].slot = s
      <4>1. H = {}
        BY <3>3
      <4>2. Cardinality(H) = 0
        BY Zenon, <4>1, FS_EmptySet
      <4>3. (s \in free /\ target # s) \/ (s \notin free /\ target = s)
        BY <3>1, <3>3 DEF Owned
      <4> HIDE DEF H
      <4>4. Cardinality(H) + (IF s \in free THEN 1 ELSE 0) + (IF target = s THEN 1 ELSE 0) = 1
        BY <4>2, <4>3
      <4> QED
        BY <4>4 DEF H
    <3> QED
      BY <3>2, <3>3
  <2>2. ASSUME NEW s \in Slots, inflight[s] # Idle PROVE sess[inflight[s].session].slot = s
    BY <2>2, IdleSlots DEF EngineInv, FlightInv
  <2>3. fair = Busy
    BY DEF EngineInv, FlightInv
  <2> QED
    BY Zenon, <2>1, <2>2, <2>3 DEF SlotsExact
<1> QED
  BY <1>1, EngineAlways, PTL

\* A session holds a slot and a grant exactly while it is Resident, and the
\* grants AdmissionController has given out stay below its budget.
THEOREM GrantsAreExact == Spec => []GrantsExact
<1>1. EngineInv => GrantsExact
  BY DEF EngineInv, TableInv, SessionOK, WithinBudget, GrantsExact
<1> QED
  BY <1>1, EngineAlways, PTL

\* The swap store holds snapshots of Swapped sessions only.
THEOREM SnapshotsAreOwned == Spec => []SnapshotsOwned
<1>1. EngineInv => SnapshotsOwned
  BY DEF EngineInv, TableInv
<1> QED
  BY <1>1, EngineAlways, PTL

\* The wait queue and parked_requests hold the same requests, once each and
\* within the bound, and a retried request finds its place still free.
THEOREM WaitersAreExact == Spec => []WaitersExact
<1>1. EngineInv => WaitersExact
  BY DEF EngineInv, QueueInv
<1> QED
  BY <1>1, EngineAlways, PTL

\* A submitted request is in admission, waiting, in flight or answered, only
\* one of them, and it is answered once.
THEOREM AnsweredOnce == Spec => []OneAnswer
<1>1. EngineInv => OneAnswer
  <2> SUFFICES ASSUME EngineInv, NEW r \in Requests
               PROVE  (IF cur = r THEN 1 ELSE 0) + (IF r \in Waiting THEN 1 ELSE 0)
                        + Cardinality({s \in Slots : inflight[s].req = r}) + Len(answers[r])
                      = (IF r \in submitted THEN 1 ELSE 0)
    BY DEF OneAnswer
  <2> DEFINE F == {s \in Slots : inflight[s].req = r}
             n == Len(answers[r])
             f == Cardinality(F)
  <2>1. n \in Nat
    <3>1. answers[r] \in Seq(Replies)
      BY DEF EngineInv, AnswersInv
    <3> QED
      BY <3>1
  <2>2. f = IF InFlight(r) THEN 1 ELSE 0
    <3>1. CASE InFlight(r)
      <4>1. PICK s \in Slots : inflight[s].req = r
        BY <3>1 DEF InFlight
      <4>2. F = {s}
        BY <4>1, NoReqAssumption DEF EngineInv, AnswersInv
      <4> QED
        BY <3>1, <4>2, FS_Singleton
    <3>2. CASE ~InFlight(r)
      <4>1. F = {}
        BY <3>2 DEF InFlight
      <4> QED
        BY <3>2, <4>1, FS_EmptySet
    <3> QED
      BY <3>1, <3>2
  <2>3. /\ cur = r => r \notin Waiting /\ ~InFlight(r) /\ n = 0
        /\ r \in Waiting => ~InFlight(r) /\ n = 0
        /\ InFlight(r) => n = 0
        /\ n <= 1
        /\ r \in submitted <=> cur = r \/ r \in Waiting \/ InFlight(r) \/ n = 1
    BY DEF EngineInv, AnswersInv
  <2> HIDE DEF n, f
  <2>4. n = 0 \/ n = 1
    BY <2>1, <2>3
  <2>5. (IF cur = r THEN 1 ELSE 0) + (IF r \in Waiting THEN 1 ELSE 0) + f + n
        = (IF r \in submitted THEN 1 ELSE 0)
    BY <2>2, <2>3, <2>4
  <2> QED
    BY <2>5 DEF n, f
<1> QED
  BY <1>1, EngineAlways, PTL

-----------------------------------------------------------------------------
(* What no step does *)

\* A request that is stamped keeps its stamp while it waits or is retried.
LEMMA AgeStep ==
    ASSUME EngineInv, [Next]_vars, NEW r \in Requests, Age(r) # 0, Age(r)' # 0
    PROVE  Age(r)' = Age(r)
<1> USE DEF queue, admitting
<1>1. CASE UNCHANGED <<cur, repark_age>> /\ \A q \in Requests : parked'[q] \in {0, parked[q]}
  BY <1>1 DEF Age
<1>2. CASE UNCHANGED parked /\ cur' = NoReq /\ repark_age' = 0
  BY <1>2, NoReqAssumption DEF Age, EngineInv, AnswersInv, Waiting
<1>3. CASE Command
  <2>1. CASE \E q \in Requests : Submit(q)
    BY <2>1, NoReqAssumption DEF Submit, Receiving, Age, EngineInv, PhaseInv, AdmitPCs
  <2>2. CASE \E q \in Requests : SubmitParks(q)
    <3>1. PICK q \in Requests : SubmitParks(q)
      BY <2>2
    <3>2. q \notin Waiting /\ cur # q /\ UNCHANGED <<cur, repark_age>>
      BY <3>1, Unknown DEF SubmitParks, EngineInv
    <3>3. \A p \in Requests \ {q} : parked'[p] = parked[p]
      BY <3>1 DEF SubmitParks, Park, EngineInv, QueueInv
    <3>4. r = q => Age(r) = 0
      BY <3>2 DEF Age, Waiting
    <3> QED
      BY <3>2, <3>3, <3>4 DEF Age
  <2>3. CASE \E q \in Requests : CancelWaiting(q)
    BY <1>1, <2>3 DEF CancelWaiting, Unpark
  <2>4. CASE (\E i \in Ids : Close(i)) \/ Reset
    BY <1>1, <2>4 DEF Close, Reset
  <2> QED
    BY <1>3, <2>1, <2>2, <2>3, <2>4 DEF Command
<1>4. CASE Admit
  <2>1. CASE OpenWaits
    <3>1. CASE Park(cur, repark_age)
      <4>1. cur \in Requests /\ cur \notin Waiting /\ parked \in [Requests -> Nat]
        BY <2>1, InAdmission DEF OpenWaits, Opening, AdmitPCs, EngineInv, AnswersInv, QueueInv
      <4>2. cur' = NoReq
        BY <2>1 DEF OpenWaits, Return
      <4>3. Age(r)' = parked'[r]
        BY <4>2, NoReqAssumption DEF Age
      <4>4. parked' = [parked EXCEPT ![cur] = IF repark_age # 0 THEN repark_age ELSE stamps + 1]
        BY <3>1 DEF Park
      <4> QED
        BY <4>1, <4>3, <4>4 DEF Age
    <3>2. CASE UNCHANGED queue
      BY <1>2, <2>1, <3>2 DEF OpenWaits, Return
    <3> QED
      BY <2>1, <3>1, <3>2 DEF OpenWaits
  <2>2. CASE TurnFull \/ TurnRefused \/ TurnNoPages \/ TurnFails \/ TurnBegins \/ PromptTooLong
             \/ OpenNever \/ PlaceFails \/ PlaceSchemaFails \/ Places
    BY <1>2, <2>2 DEF TurnFull, TurnRefused, TurnNoPages, TurnFails, TurnBegins, PromptTooLong,
       OpenNever, PlaceFails, PlaceSchemaFails, Places, Place, Reject, Return
  <2>3. CASE AdmitSweeps \/ NoMatch \/ RestoreOk \/ RestoreFails \/ TurnReclaims \/ OpenEvicts
             \/ PlaceReclaims
    BY <1>1, <2>3 DEF AdmitSweeps, NoMatch, RestoreOk, RestoreFails, TurnReclaims, OpenEvicts,
       PlaceReclaims
  <2>4. CASE \E i \in Ids : MatchResident(i) \/ MatchSwapped(i) \/ MatchEvicts(i) \/ MatchNoSlot(i) \/ Open(i)
    BY Zenon, <1>1, <2>4 DEF MatchResident, MatchSwapped, MatchEvicts, MatchNoSlot, Open
  <2> QED
    BY <1>4, <2>1, <2>2, <2>3, <2>4 DEF Admit
<1>5. CASE Loop
  <2>1. CASE Drain
    <3>1. cur = NoReq /\ parked \in [Requests -> Nat]
      BY Zenon, <2>1 DEF Drain, EngineInv, PhaseInv, AdmitPCs, QueueInv
    <3>2. cur' = r => repark_age' = parked[r]
      BY <2>1 DEF Drain
    <3>3. parked'[r] \in {0, parked[r]}
      BY <2>1 DEF Drain, Unpark
    <3> QED
      BY <3>1, <3>2, <3>3, NoReqAssumption DEF Age
  <2>2. CASE Expire \/ Shutdown
    BY ZenonT(30), <1>1, <2>2 DEF Expire, Shutdown, Unpark
  <2>3. CASE RecvDone \/ DrainDone \/ Wake \/ Step
    BY <1>1, <2>3 DEF RecvDone, DrainDone, Wake, Step
  <2> QED
    BY <1>5, <2>1, <2>2, <2>3 DEF Loop
<1>6. CASE IdleSweep \/ Environment \/ Stopped \/ UNCHANGED vars
  BY Zenon, <1>1, <1>6 DEF IdleSweep, Environment, Vanish, Deadline, Disconnect, Stopped, vars
<1> QED
  BY <1>3, <1>4, <1>5, <1>6 DEF Next

\* A request keeps the age it was first parked with through every retry of
\* the drain, so its queue deadline does not slide.
THEOREM AgesAreKept == Spec => AgeKept
<1>1. EngineInv /\ [Next]_vars =>
          [\A r \in Requests : Age(r) # 0 /\ Age(r)' # 0 => Age(r)' = Age(r)]_vars
  BY AgeStep
<1> QED
  BY <1>1, EngineAlways, PTL DEF Spec, AgeKept

\* A step leaves a session's conversation, forgets it, or serves the one in admission.
LEMMA ConversationStep ==
    ASSUME EngineInv, [Next]_vars, NEW i \in Ids
    PROVE  \/ sess'[i].convo \in {<<>>, sess[i].convo}
           \/ i = existing /\ Joins(i) /\ sess'[i].convo[1] = Conv[cur]
<1> USE DEF table
<1>1. CASE sess' = sess
  BY <1>1
<1>2. ASSUME NEW S, CloseAll(S) PROVE sess'[i].convo \in {<<>>, sess[i].convo}
  BY Zenon, <1>2 DEF CloseAll, NoSession
<1>3. ASSUME NEW except, NEW v \in Victims(except), evict(v), UNCHANGED <<next_id, target>>
      PROVE  sess'[i].convo = sess[i].convo
  <2>1. v \in Ids /\ sess[v].slot # NoSlot
    BY DEF Victims, Live
  <2> QED
    BY <1>3, <2>1, EvictKeeps DEF EngineInv
<1>4. CASE Command
  <2>1. CASE \E r \in Requests : Submit(r) \/ SubmitParks(r) \/ CancelWaiting(r)
    BY Zenon, <1>1, <2>1 DEF Submit, SubmitParks, CancelWaiting
  <2>2. CASE (\E j \in Ids : Close(j)) \/ Reset
    BY Zenon, <1>2, <2>2 DEF Close, close, Reset
  <2> QED
    BY Zenon, <1>4, <2>1, <2>2 DEF Command
<1>5. CASE Admit
  <2>1. CASE AdmitSweeps \/ TurnFull \/ TurnFails \/ PlaceFails \/ PlaceSchemaFails
    BY Zenon, <1>2, <2>1 DEF AdmitSweeps, sweep_sessions, TurnFull, TurnFails, PlaceFails, PlaceSchemaFails, close
  <2>2. CASE NoMatch \/ TurnRefused \/ TurnNoPages \/ PromptTooLong \/ OpenNever \/ OpenWaits
             \/ \E j \in Ids : MatchResident(j) \/ MatchSwapped(j) \/ MatchNoSlot(j)
    BY ZenonT(30), <1>1, <2>2 DEF NoMatch, TurnRefused, TurnNoPages, PromptTooLong, OpenNever, OpenWaits,
       MatchResident, MatchSwapped, MatchNoSlot
  <2>3. CASE TurnReclaims \/ OpenEvicts \/ PlaceReclaims \/ \E j \in Ids : MatchEvicts(j)
    <3>1. UNCHANGED <<next_id, target>> /\ \E except : \E v \in Victims(except) : evict(v)
      BY <2>3 DEF TurnReclaims, OpenEvicts, PlaceReclaims, MatchEvicts, ids, admitting
    <3> QED
      BY Zenon, <1>3, <3>1
  <2>4. CASE RestoreOk \/ RestoreFails
    <3>1. existing \in Ids /\ sess \in [Ids -> Session]
      BY <2>4, InAdmission DEF RestoreOk, RestoreFails, AdmitPCs, BoundPCs, EngineInv, TableInv
    <3>2. CASE RestoreOk
      BY <3>1, <3>2 DEF RestoreOk, Session
    <3>3. CASE RestoreFails
      BY Zenon, <3>1, <3>3, ParkedSession DEF RestoreFails
    <3> QED
      BY Zenon, <2>4, <3>2, <3>3
  <2>5. CASE \E j \in Ids : Open(j)
    BY <2>5 DEF Open, Resident, EngineInv, TableInv
  <2>6. CASE TurnBegins \/ Places
    <3>1. existing \in Ids /\ sess \in [Ids -> Session] /\ Joins(existing)
      BY <2>6, InAdmission, IdsAreNumbers DEF TurnBegins, Places, Turning, Placing, AdmitPCs, BoundPCs,
         EngineInv, TableInv, PhaseInv
    <3>2. CASE i = existing
      <4>1. sess'[i].convo = Convo(cur)
        BY <2>6, <3>1, <3>2 DEF TurnBegins, Places, Session
      <4> QED
        BY <3>1, <3>2, <4>1 DEF Convo
    <3>3. CASE i # existing
      BY <2>6, <3>1, <3>3 DEF TurnBegins, Places
    <3> QED
      BY Zenon, <3>2, <3>3
  <2> QED
    BY Zenon, <1>5, <2>1, <2>2, <2>3, <2>4, <2>5, <2>6 DEF Admit
<1>6. CASE Loop
  <2>1. CASE Step \/ Shutdown
    BY ZenonT(30), <1>2, <2>1 DEF Step, Shutdown
  <2>2. CASE RecvDone \/ Expire \/ Drain \/ DrainDone \/ Wake
    BY Zenon, <1>1, <2>2 DEF RecvDone, Expire, Drain, DrainDone, Wake
  <2> QED
    BY ZenonT(30), <1>6, <2>1, <2>2 DEF Loop
<1>7. CASE IdleSweep
  BY Zenon, <1>2, <1>7 DEF IdleSweep, sweep_sessions
<1>8. CASE Environment \/ Stopped \/ UNCHANGED vars
  BY Zenon, <1>1, <1>8 DEF Environment, Vanish, Deadline, Disconnect, Stopped, vars
<1> QED
  BY Zenon, <1>4, <1>5, <1>6, <1>7, <1>8 DEF Next

\* The KV and recurrent state of a session only ever serve one conversation,
\* whatever is evicted, restored, reopened or swept in between.
THEOREM ConversationsAreApart == Spec => ConversationsApart
<1>1. EngineInv /\ [Next]_vars =>
          [\A i \in Ids : sess[i].convo # <<>> /\ sess'[i].convo # <<>>
                             => sess'[i].convo[1] = sess[i].convo[1]]_vars
  BY Zenon, ConversationStep DEF Joins
<1> QED
  BY <1>1, EngineAlways, PTL DEF Spec, ConversationsApart

=============================================================================
