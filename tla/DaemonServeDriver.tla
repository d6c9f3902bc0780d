-------------------------- MODULE DaemonServeDriver --------------------------
(***************************************************************************)
(* The steps of the daemon that make the driver's lists, or change what    *)
(* the scheduler holds: the lists name what the scheduler holds, once      *)
(* each, and the flow of the requests is kept.                             *)
(***************************************************************************)
EXTENDS DaemonServeSteps, FiniteSetTheorems, WellFoundedInduction

\* The provers tried on a leaf that names none, in this order.
USE SMT, Zenon, SMTT(20), SMTT(30)

----------------------------------------------------------------------------
(* The driver's lists *)

\* q lists S, least first.
Lists(q, S) ==
    /\ \A n \in S : \E i \in DOMAIN q : q[i] = n
    /\ \A i, j \in DOMAIN q : i < j => q[i] < q[j]

\* A nonempty set of naturals has a least member.
LEMMA LeastMember ==
    ASSUME NEW S \in SUBSET Nat, S # {}
    PROVE  \E m \in S : \A n \in S : m <= n
<1> DEFINE R == {ss \in Nat \X Nat : ss[1] < ss[2]}
<1>1. IsWellFoundedOn(R, Nat)
  BY NatLessThanWellFounded DEF OpToRel
<1>2. PICK m \in S : \A n \in S : ~(<<n, m>> \in R)
  BY Zenon, <1>1, WFMin
<1>3. \A a, b \in Nat : a < b => <<a, b>> \in R
  OBVIOUS
<1>4. \A n \in S : n \in Nat /\ m \in Nat /\ ~(n < m)
  BY Zenon, <1>2, <1>3
<1> QED
  BY <1>4

\* A finite set of naturals can be listed: the least set that could not would
\* lose its least member.
LEMMA ListExists ==
    ASSUME NEW S \in SUBSET Nat, IsFiniteSet(S)
    PROVE  \E q \in [1 .. Cardinality(S) -> S] : Lists(q, S)
<1> DEFINE Good(T) == \E q \in [1 .. Cardinality(T) -> T] : Lists(q, T)
           Bad == {n \in Nat : \E T \in SUBSET Nat :
                      IsFiniteSet(T) /\ Cardinality(T) = n /\ ~Good(T)}
<1>1. SUFFICES ASSUME Bad # {} PROVE FALSE
  BY FS_CardinalityType
<1>2. PICK n \in Bad : \A m \in Bad : n <= m
  BY Zenon, <1>1, LeastMember
<1>3. PICK T \in SUBSET Nat : IsFiniteSet(T) /\ Cardinality(T) = n /\ ~Good(T)
  OBVIOUS
<1>4. n \in Nat
  OBVIOUS
<1>5. CASE T = {}
  <2> DEFINE q == [i \in 1 .. 0 |-> i]
  <2>1. n = 0
    BY <1>3, <1>5, FS_EmptySet
  <2>2. q \in [1 .. 0 -> {}] /\ Lists(q, {})
    BY DEF Lists
  <2> QED
    BY Zenon, <1>3, <1>5, <2>1, <2>2
<1>6. CASE T # {}
  <2>1. PICK m \in T : \A x \in T : m <= x
    BY <1>6, LeastMember
  <2> DEFINE U == T \ {m}
  <2>2. IsFiniteSet(U) /\ Cardinality(U) = n - 1 /\ n - 1 \in Nat
    <3>1. IsFiniteSet(U) /\ Cardinality(U) = n - 1
      BY <1>3, FS_RemoveElement
    <3> QED
      BY <3>1, <1>4, FS_CardinalityType
  <2>3. Good(U)
    <3>1. n - 1 \notin Bad
      BY <1>2, <1>4
    <3> QED
      BY Zenon, <2>2, <3>1
  <2>4. PICK q \in [1 .. n - 1 -> U] : Lists(q, U)
    BY Zenon, <2>2, <2>3
  <2> DEFINE r == [i \in 1 .. n |-> IF i = 1 THEN m ELSE q[i - 1]]
  <2>5. r \in [1 .. n -> T]
    <3>1. ASSUME NEW i \in 1 .. n, i # 1 PROVE q[i - 1] \in T
      <4>1. i - 1 \in 1 .. n - 1
        BY <1>4, <3>1
      <4> QED
        BY <4>1
    <3> QED
      BY <3>1
  <2>6. ASSUME NEW x \in T PROVE \E i \in 1 .. n : r[i] = x
    <3>1. CASE x = m
      <4>1. 1 \in 1 .. n
        BY <1>4, <2>2
      <4> QED
        BY <3>1, <4>1
    <3>2. CASE x # m
      <4>1. PICK i \in 1 .. n - 1 : q[i] = x
        BY <2>4, <3>2 DEF Lists
      <4>2. i + 1 \in 1 .. n /\ i + 1 # 1 /\ (i + 1) - 1 = i
        BY <1>4
      <4>3. r[i + 1] = x
        BY <4>1, <4>2
      <4> QED
        BY <4>2, <4>3
    <3> QED
      BY <3>1, <3>2
  <2>7. ASSUME NEW i \in 1 .. n, NEW j \in 1 .. n, i < j PROVE r[i] < r[j]
    <3>1. j # 1 /\ j - 1 \in 1 .. n - 1 /\ r[j] = q[j - 1] /\ q[j - 1] \in U
      BY <1>4, <2>7
    <3>2. CASE i = 1
      <4>1. r[i] = m /\ m \in Nat /\ q[j - 1] \in Nat /\ m <= q[j - 1] /\ m # q[j - 1]
        BY Zenon, <2>1, <3>1, <3>2
      <4> HIDE DEF r
      <4> QED
        BY <3>1, <4>1
    <3>3. CASE i # 1
      <4>1. i - 1 \in 1 .. n - 1 /\ i - 1 < j - 1 /\ r[i] = q[i - 1]
        BY <1>4, <2>7, <3>3
      <4> QED
        BY <2>4, <3>1, <4>1 DEF Lists
    <3> QED
      BY <3>2, <3>3
  <2>8. Lists(r, T)
    BY <2>6, <2>7 DEF Lists
  <2> QED
    BY <1>3, <2>5, <2>8
<1> QED
  BY <1>5, <1>6

\* InOrder lists its argument, each member once.
LEMMA InOrderLists ==
    ASSUME NEW S \in SUBSET Nat, IsFiniteSet(S)
    PROVE  /\ InOrder(S) \in Seq(S)
           /\ Elements(InOrder(S)) = S
           /\ Distinct(InOrder(S))
<1>1. Cardinality(S) \in Nat
  BY FS_CardinalityType
<1>2. InOrder(S) \in [1 .. Cardinality(S) -> S] /\ Lists(InOrder(S), S)
  BY Zenon, ListExists DEF InOrder, Lists
<1>3. InOrder(S) \in Seq(S)
  BY <1>1, <1>2
<1>4. Elements(InOrder(S)) = S
  BY Zenon, <1>2 DEF Lists, Elements
<1>5. ASSUME NEW i \in DOMAIN InOrder(S), NEW j \in DOMAIN InOrder(S), InOrder(S)[i] = InOrder(S)[j]
      PROVE  i = j
  <2>1. i \in Nat /\ j \in Nat /\ InOrder(S)[i] \in S
    BY <1>1, <1>2
  <2>2. ~(InOrder(S)[i] < InOrder(S)[j]) /\ ~(InOrder(S)[j] < InOrder(S)[i])
    <3>1. \A n \in Nat : ~(n < n)
      OBVIOUS
    <3> QED
      BY Zenon, <1>5, <2>1, <3>1
  <2>3. ~(i < j) /\ ~(j < i)
    BY <1>2, <2>2 DEF Lists
  <2> QED
    BY <2>1, <2>3
<1> QED
  BY <1>3, <1>4, <1>5 DEF Distinct

\* The items of some occupied lanes.
LEMMA LaneList ==
    ASSUME SchedulerInv, NEW act \in Acts, NEW S \in SUBSET Occupied
    PROVE  /\ LaneItems(act, S) \in Seq(ListItems) /\ Apart(LaneItems(act, S), ListItems)
           /\ \A w \in Elements(LaneItems(act, S)) : FromScheduler(w, act) /\ w.lane \in S
           /\ \A l \in S : LaneItem(act, l) \in Elements(LaneItems(act, S))
<1> DEFINE q == InOrder(S)
           p == LaneItems(act, S)
<1>1. S \in SUBSET Nat /\ IsFiniteSet(S)
  BY Zenon, ServeAssumption, LanesAssumption, FS_Subset DEF Occupied
<1>2. q \in Seq(S) /\ Elements(q) = S /\ Distinct(q)
  BY <1>1, InOrderLists
<1>3. Len(q) \in Nat /\ DOMAIN q = 1 .. Len(q) /\ \A i \in DOMAIN q : q[i] \in S
  BY <1>2, LenProperties
<1>4. DOMAIN p = DOMAIN q /\ \A i \in DOMAIN q : p[i] = LaneItem(act, q[i])
  BY DEF LaneItems
<1>5. ASSUME NEW l \in S
      PROVE  FromScheduler(LaneItem(act, l), act) /\ LaneItem(act, l).lane = l /\ LaneItem(act, l).key = lanes[l].key
  <2>1. /\ l \in Lanes /\ l \in Occupied /\ lanes[l] # None /\ lanes[l].key \in Keys /\ pending[lanes[l].key] # None
        /\ lanes[l].ticket.admission \in Generations
    BY LaneOwner DEF Occupied
  <2>2. l # None
    BY <2>1, LanesAssumption, NoneAssumption
  <2> QED
    BY <2>1, <2>2 DEF LaneItem, ListItems, FromScheduler, Holds, Acts
<1>6. p \in Seq(ListItems)
  BY <1>3, <1>4, <1>5 DEF LaneItems, FromScheduler
<1>7. Apart(p, ListItems)
  <2>1. \A l, m \in S : lanes[l].key = lanes[m].key => l = m
    BY LaneOwner
  <2> QED
    BY <1>2, <1>3, <1>4, <1>5, <2>1 DEF Apart, Distinct
<1>8. \A w \in Elements(p) : FromScheduler(w, act) /\ w.lane \in S
  BY <1>3, <1>4, <1>5 DEF Elements
<1>9. \A l \in S : LaneItem(act, l) \in Elements(p)
  BY <1>2, <1>4 DEF Elements
<1> QED
  BY <1>6, <1>7, <1>8, <1>9

\* The items of some queued requests.
LEMMA QueuedList ==
    ASSUME SchedulerInv, NEW act \in Acts, NEW S \in SUBSET DOMAIN inbox
    PROVE  /\ QueuedItems(act, S) \in Seq(ListItems) /\ Apart(QueuedItems(act, S), ListItems)
           /\ \A w \in Elements(QueuedItems(act, S)) : FromScheduler(w, act) /\ w.lane = None
           /\ \A n \in S : QueuedItem(act, n) \in Elements(QueuedItems(act, S))
<1> DEFINE q == InOrder(S)
           p == QueuedItems(act, S)
<1>1. inbox \in Seq(Keys) /\ Len(inbox) \in Nat /\ DOMAIN inbox = 1 .. Len(inbox)
  BY LenProperties DEF SchedulerInv, SchedulerTypeOK
<1>2. S \in SUBSET Nat /\ IsFiniteSet(S)
  <2>1. IsFiniteSet(1 .. Len(inbox))
    BY <1>1, FS_Interval
  <2> QED
    BY <1>1, <2>1, FS_Subset
<1>3. q \in Seq(S) /\ Elements(q) = S /\ Distinct(q)
  BY <1>2, InOrderLists
<1>4. Len(q) \in Nat /\ DOMAIN q = 1 .. Len(q) /\ \A i \in DOMAIN q : q[i] \in S
  BY <1>3, LenProperties
<1>5. DOMAIN p = DOMAIN q /\ \A i \in DOMAIN q : p[i] = QueuedItem(act, q[i])
  BY DEF QueuedItems
<1>6. ASSUME NEW n \in S
      PROVE  /\ FromScheduler(QueuedItem(act, n), act) /\ QueuedItem(act, n).lane = None
             /\ QueuedItem(act, n).key = inbox[n]
  <2>1. inbox[n] \in Keys /\ inbox[n] \in Queued
    BY <1>1 DEF Queued
  <2>2. pending[inbox[n]] # None /\ pending[inbox[n]] \in Requests
    BY <2>1 DEF SchedulerInv, SchedulerTypeOK, HeldOnce
  <2> QED
    BY <2>1, <2>2 DEF QueuedItem, ListItems, FromScheduler, Acts, Requests
<1>7. p \in Seq(ListItems)
  BY <1>4, <1>5, <1>6 DEF QueuedItems, FromScheduler
<1>8. Apart(p, ListItems)
  <2>1. \A n, m \in S : inbox[n] = inbox[m] => n = m
    BY DEF SchedulerInv, HeldOnce
  <2> QED
    BY <1>3, <1>4, <1>5, <1>6, <2>1 DEF Apart, Distinct
<1>9. \A w \in Elements(p) : FromScheduler(w, act) /\ w.lane = None
  BY <1>4, <1>5, <1>6 DEF Elements
<1>10. \A n \in S : QueuedItem(act, n) \in Elements(p)
  BY <1>3, <1>5 DEF Elements
<1> QED
  BY <1>7, <1>8, <1>9, <1>10

\* Two lists, one behind the other, of different lanes.
LEMMA TwoLists ==
    ASSUME SchedulerInv, NEW p \in Seq(ListItems), NEW q \in Seq(ListItems),
           Apart(p, ListItems), Apart(q, ListItems), NEW a, NEW b,
           \A w \in Elements(p) : FromScheduler(w, a),
           \A w \in Elements(q) : FromScheduler(w, b),
           \A v \in Elements(p), w \in Elements(q) : v.lane # w.lane
    PROVE  /\ p \o q \in Seq(ListItems) /\ Apart(p \o q, ListItems)
           /\ Elements(p \o q) = Elements(p) \cup Elements(q)
<1>1. ASSUME NEW v \in Elements(p), NEW w \in Elements(q) PROVE v.key # w.key
  <2>1. FromScheduler(v, a) /\ FromScheduler(w, b) /\ v.lane # w.lane
    OBVIOUS
  <2>2. CASE v.lane # None /\ w.lane # None
    BY <2>1, <2>2, LaneOwner DEF FromScheduler
  <2>3. CASE v.lane = None \/ w.lane = None
    BY <2>1, <2>3 DEF FromScheduler, SchedulerInv, HeldOnce, LaneKeys
  <2> QED
    BY <2>2, <2>3
<1>2. \A x \in Elements(p), y \in Elements(q) : x \in ListItems /\ y \in ListItems => x.key # y.key
  BY <1>1
<1> QED
  BY <1>2, JoinedApart

----------------------------------------------------------------------------
(* The steps that make a list *)

\* The requests fail_all answers.
LEMMA FailList ==
    ASSUME SchedulerInv
    PROVE  /\ FailItems \in Seq(ListItems) /\ Apart(FailItems, ListItems)
           /\ \A w \in Elements(FailItems) : FromScheduler(w, w.act) /\ w.act = "fail"
<1> DEFINE p == LaneItems("fail", Occupied)
           q == QueuedItems("fail", DOMAIN inbox)
<1>1. "fail" \in Acts
  BY DEF Acts
<1>2. /\ p \in Seq(ListItems) /\ Apart(p, ListItems)
      /\ \A w \in Elements(p) : FromScheduler(w, "fail") /\ w.lane \in Occupied
  BY <1>1, LaneList
<1>3. /\ q \in Seq(ListItems) /\ Apart(q, ListItems)
      /\ \A w \in Elements(q) : FromScheduler(w, "fail") /\ w.lane = None
  BY <1>1, QueuedList
<1>4. None \notin Occupied
  BY Zenon, LanesAssumption, NoneAssumption DEF Occupied
<1>5. \A v \in Elements(p), w \in Elements(q) : v.lane # w.lane
  BY <1>2, <1>3, <1>4
<1> HIDE DEF p, q
<1>6. /\ p \o q \in Seq(ListItems) /\ Apart(p \o q, ListItems)
      /\ Elements(p \o q) = Elements(p) \cup Elements(q)
  BY Zenon, <1>2, <1>3, <1>5, TwoLists
<1>7. \A w \in Elements(p \o q) : FromScheduler(w, "fail") /\ w.act = "fail"
  BY <1>2, <1>3, <1>6 DEF FromScheduler
<1>8. FailItems = p \o q
  BY DEF FailItems, p, q
<1> QED
  BY <1>6, <1>7, <1>8

\* A GPU call fails.
LEMMA DriveFailsStep ==
    ASSUME ServeInv, UNCHANGED readerVars, DriveFails
    PROVE  Kept /\ Proper
<1>1. /\ FlowInv /\ SchedulerInv /\ ThreadTypes
  BY DEF ServeInv, RegistryInv, FlowInv
<1>2. /\ main.item = None /\ main.pc \in Driver \ {"fail"}
  BY DEF DriveFails, CallsGpu, At, Driver
<1>3. /\ work' = FailItems /\ Goto("fail") /\ streamed' = streamed /\ UNCHANGED batchVars
      /\ UNCHANGED <<wire, queue, batch_poisoned>>
  BY DEF DriveFails
<1>4. streamed' \in [Lanes -> 0 .. MaxTokens]
  BY <1>1, <1>3 DEF ThreadTypes
<1> QED
  BY <1>1, <1>2, <1>3, <1>4, FailList, ListStep

\* The lists of two sets of lanes.
LEMMA LaneLists ==
    ASSUME SchedulerInv, NEW a \in Acts, NEW b \in Acts, NEW S \in SUBSET Occupied,
           NEW T \in SUBSET Occupied, S \cap T = {}
    PROVE  LET list == LaneItems(a, S) \o LaneItems(b, T)
           IN  /\ list \in Seq(ListItems) /\ Apart(list, ListItems)
               /\ \A w \in Elements(list) : FromScheduler(w, w.act) /\ w.act \in {a, b}
               /\ \A l \in T : LaneItem(b, l) \in Elements(list)
<1> DEFINE p == LaneItems(a, S)
           q == LaneItems(b, T)
<1>1. /\ p \in Seq(ListItems) /\ Apart(p, ListItems)
      /\ \A w \in Elements(p) : FromScheduler(w, a) /\ w.lane \in S
  BY LaneList
<1>2. /\ q \in Seq(ListItems) /\ Apart(q, ListItems)
      /\ \A w \in Elements(q) : FromScheduler(w, b) /\ w.lane \in T
      /\ \A l \in T : LaneItem(b, l) \in Elements(q)
  BY LaneList
<1>3. \A v \in Elements(p), w \in Elements(q) : v.lane # w.lane
  BY <1>1, <1>2
<1> HIDE DEF p, q
<1>4. /\ p \o q \in Seq(ListItems) /\ Apart(p \o q, ListItems)
      /\ Elements(p \o q) = Elements(p) \cup Elements(q)
  BY Zenon, <1>1, <1>2, <1>3, TwoLists
<1>5. \A w \in Elements(p \o q) : FromScheduler(w, w.act) /\ w.act \in {a, b}
  BY <1>1, <1>2, <1>4 DEF FromScheduler
<1>6. \A l \in T : LaneItem(b, l) \in Elements(p \o q)
  BY <1>2, <1>4
<1> QED
  BY <1>4, <1>5, <1>6 DEF p, q

\* The awaiting lanes are settled.
LEMMA PollStep ==
    ASSUME ServeInv, UNCHANGED readerVars, Poll
    PROVE  Kept /\ Proper
<1>1. /\ FlowInv /\ SchedulerInv /\ ThreadTypes
  BY DEF ServeInv, RegistryInv, FlowInv
<1>2. main.pc = "poll" /\ main.pc \in Driver \ {"fail"}
  BY DEF Poll, At, Driver
<1>3. main.item = None /\ work = <<>>
  BY <1>1, <1>2, EmptyHanded
<1> DEFINE to_abort == {l \in Awaiting : LaneAborted(l) \/ lanes[l].deadline = "passed"}
           to_commit == {l \in Awaiting \ to_abort : LaneDecision(l) = "Commit"}
<1>4. /\ work' = LaneItems("cancel", to_abort) \o LaneItems("commit", to_commit) /\ Goto("settle")
      /\ UNCHANGED batchVars /\ UNCHANGED <<wire, queue, batch_poisoned>> /\ streamed' = streamed
  BY DEF Poll
<1>5. to_abort \in SUBSET Occupied /\ to_commit \in SUBSET Occupied /\ to_abort \cap to_commit = {}
  BY DEF Awaiting
<1>6. "cancel" \in Acts /\ "commit" \in Acts
  BY DEF Acts
<1> HIDE DEF to_abort, to_commit
<1>7. /\ work' \in Seq(ListItems) /\ Apart(work', ListItems)
      /\ \A w \in Elements(work') : FromScheduler(w, w.act) /\ w.act \in {"cancel", "commit"}
  BY <1>1, <1>4, <1>5, <1>6, LaneLists
<1>8. streamed' \in [Lanes -> 0 .. MaxTokens] /\ \A l \in Running : streamed'[l] < MaxTokens
  BY <1>1, <1>2, <1>3, <1>4, TokensLeft DEF ThreadTypes
<1> QED
  BY Zenon, <1>2, <1>3, <1>4, <1>7, <1>8, ListStep

\* Aborted requests are swept.
LEMMA SweepStep ==
    ASSUME ServeInv, UNCHANGED readerVars, Sweep
    PROVE  Kept /\ Proper
<1>1. /\ FlowInv /\ SchedulerInv /\ ThreadTypes
  BY DEF ServeInv, RegistryInv, FlowInv
<1>2. main.pc \in Driver \ {"fail"} /\ main.item = None /\ work = <<>>
  BY DEF Sweep, At, Driver
<1> DEFINE S == {n \in DOMAIN inbox : QueuedAborted(n)}
           T == {l \in Running : LaneAborted(l)}
           p == QueuedItems("cancel", S)
           q == LaneItems("cancel", T)
<1>3. /\ work' = p \o q /\ Goto("sweep")
      /\ UNCHANGED batchVars /\ UNCHANGED <<wire, queue, batch_poisoned>> /\ streamed' = streamed
  BY DEF Sweep
<1>4. S \in SUBSET DOMAIN inbox /\ T \in SUBSET Occupied /\ "cancel" \in Acts
  BY DEF Running, Acts
<1> HIDE DEF S, T
<1>5. /\ p \in Seq(ListItems) /\ Apart(p, ListItems)
      /\ \A w \in Elements(p) : FromScheduler(w, "cancel") /\ w.lane = None
  BY <1>1, <1>4, QueuedList
<1>6. /\ q \in Seq(ListItems) /\ Apart(q, ListItems)
      /\ \A w \in Elements(q) : FromScheduler(w, "cancel") /\ w.lane \in T
  BY <1>1, <1>4, LaneList
<1>7. None \notin T
  BY Zenon, <1>4, LanesAssumption, NoneAssumption DEF Occupied
<1>8. \A v \in Elements(p), w \in Elements(q) : v.lane # w.lane
  BY <1>5, <1>6, <1>7
<1> HIDE DEF p, q
<1>9. /\ work' \in Seq(ListItems) /\ Apart(work', ListItems)
      /\ Elements(work') = Elements(p) \cup Elements(q)
  BY Zenon, <1>1, <1>3, <1>5, <1>6, <1>8, TwoLists
<1>10. \A w \in Elements(work') : FromScheduler(w, w.act) /\ w.act = "cancel"
  BY <1>5, <1>6, <1>9 DEF FromScheduler
<1>11. streamed' \in [Lanes -> 0 .. MaxTokens] /\ \A l \in Running : streamed'[l] < MaxTokens
  BY <1>1, <1>2, <1>3, TokensLeft DEF ThreadTypes
<1> QED
  BY <1>2, <1>3, <1>9, <1>10, <1>11, ListStep

\* Every running lane streams a token or is aborted; the finished ones are
\* to await the client.
LEMMA DecodeStep ==
    ASSUME ServeInv, UNCHANGED readerVars, Decode
    PROVE  Kept /\ Proper
<1>1. /\ FlowInv /\ SchedulerInv /\ ThreadTypes
  BY DEF ServeInv, RegistryInv, FlowInv
<1>2. main.pc = "decode" /\ main.pc \in Driver \ {"fail"}
  BY DEF Decode, At, Driver
<1>3. main.item = None /\ work = <<>>
  BY <1>1, <1>2, EmptyHanded
<1> DEFINE to_abort == {l \in Running : LaneAborted(l)}
           live == Running \ to_abort
           capped == {l \in live : streamed[l] + 1 >= MaxTokens}
<1>4. PICK stopped \in SUBSET (live \ capped) :
         work' = LaneItems("cancel", to_abort) \o LaneItems("await", capped \cup stopped)
  BY Zenon DEF Decode
<1>5. /\ streamed' = [l \in Lanes |-> IF l \in live THEN streamed[l] + 1 ELSE streamed[l]]
      /\ Goto("publish") /\ UNCHANGED batchVars /\ UNCHANGED <<wire, queue, batch_poisoned>>
  BY DEF Decode
<1> DEFINE T == capped \cup stopped
<1>6. to_abort \in SUBSET Occupied /\ T \in SUBSET Occupied /\ to_abort \cap T = {}
  BY DEF Running
<1>7. "cancel" \in Acts /\ "await" \in Acts
  BY DEF Acts
<1>8. \A l \in Running : /\ l \in Lanes /\ l \in Occupied
                         /\ streamed[l] \in Nat /\ streamed[l] < MaxTokens
  BY <1>1, <1>2, <1>3, TokensLeft
<1>9. MaxTokens \in Nat /\ streamed \in [Lanes -> 0 .. MaxTokens]
  BY <1>1, ServeAssumption DEF ThreadTypes
<1>10. streamed' \in [Lanes -> 0 .. MaxTokens]
  <2>1. ASSUME NEW l \in Lanes PROVE (IF l \in live THEN streamed[l] + 1 ELSE streamed[l]) \in 0 .. MaxTokens
    <3>1. CASE l \in live
      <4>1. l \in Running
        BY <3>1
      <4>2. streamed[l] \in Nat /\ streamed[l] < MaxTokens
        BY <1>8, <4>1
      <4> QED
        BY <1>9, <3>1, <4>2
    <3>2. CASE l \notin live
      BY <1>9, <3>2
    <3> QED
      BY <3>1, <3>2
  <2> HIDE DEF live
  <2> QED
    BY <1>5, <2>1
<1>11. ASSUME NEW l \in Running PROVE l \in T \/ streamed'[l] < MaxTokens
  <2>1. l \in Lanes /\ streamed[l] \in Nat /\ streamed[l] < MaxTokens
    BY <1>8, <1>11
  <2>2. CASE l \in live
    <3>1. streamed'[l] = streamed[l] + 1
      BY <1>5, <2>1, <2>2
    <3>2. l \notin capped => ~(streamed[l] + 1 >= MaxTokens)
      BY <2>2
    <3> QED
      BY <1>9, <2>1, <3>1, <3>2
  <2>3. CASE l \notin live
    <3>1. streamed'[l] = streamed[l]
      BY <1>5, <2>1, <2>3
    <3> QED
      BY <2>1, <3>1
  <2> QED
    BY <2>2, <2>3
<1> HIDE DEF to_abort, live, capped, T
<1>12. /\ work' \in Seq(ListItems) /\ Apart(work', ListItems)
       /\ \A w \in Elements(work') : FromScheduler(w, w.act) /\ w.act \in {"cancel", "await"}
       /\ \A l \in T : LaneItem("await", l) \in Elements(work')
  BY Zenon, <1>1, <1>4, <1>6, <1>7, LaneLists DEF T
<1>13. \A l \in Running : \/ \E w \in Elements(work') : w.act = "await" /\ w.lane = l
                          \/ streamed'[l] < MaxTokens
  BY Zenon, <1>11, <1>12 DEF LaneItem
<1> QED
  BY <1>2, <1>3, <1>5, <1>10, <1>12, <1>13, ListStep

\* The hand-off of a drained request.
LEMMA DrainHandoffStep ==
    ASSUME ServeInv, UNCHANGED readerVars, DrainHandoff
    PROVE  Kept /\ Proper
<1>1. FlowInv /\ ThreadTypes /\ SchedulerInv /\ RegistryInv
  BY DEF ServeInv, FlowInv, RegistryInv
<1>2. /\ main.item # None /\ main.item.act = "handoff"
      /\ UNCHANGED schedulerVars /\ streamed' = streamed /\ wire' = wire /\ batch_poisoned' = batch_poisoned
  BY DEF DrainHandoff, Item_is
<1>3. /\ main.pc = "drain" /\ queue # <<>> /\ Head(queue) \in Generates
      /\ Msg.transfer = None /\ work = <<>> /\ main \in MainRecords
  BY <1>1, <1>2, FrontItem
<1>4. PICK k : k = Msg.key
  OBVIOUS
<1>5. /\ k \in Keys /\ Msg.admission \in Generations /\ "generate" \in Lines(k)
      /\ wire[k] = <<>> /\ pending[k] = None
      /\ Tail(queue) \in Seq(Generates \cup {Reset}) /\ Apart(Tail(queue), Generates)
      /\ \A m \in Elements(Tail(queue)) \cap Generates :
            /\ m \in Mail /\ m.key \in Keys /\ m.key # k /\ pending[m.key] = None
            /\ m.transfer # None => m.transfer \in transfers /\ m.transfer.key = m.key
  BY <1>1, <1>3, <1>4, FrontMessage
<1>6. Msg \in Mail
  BY <1>1, <1>3, TakenMessage DEF Msg
<1>7. Writes(k, wire[k]) /\ UNCHANGED <<streamed, wire, lines>>
  BY <1>1, <1>2, <1>5, Unwritten DEF readerVars
<1>8. CASE batch_is_current(k, Msg.admission) /\ handoffs[k] = None
  <2>1. /\ batch_handoff_to_singleton_and_clear(k, Msg.admission) /\ work' = work
        /\ queue' = <<Generate(k, Msg.admission, TransferOf(k))>> \o Tail(queue)
        /\ main' = [main EXCEPT !.pc = AfterBarrier, !.item = None]
    BY <1>4, <1>8 DEF DrainHandoff
  <2>2. Quiet(k)
    BY <1>5, <2>1 DEF Quiet
  <2>3. Tame /\ transfers \subseteq transfers'
    BY <1>2, <1>3, <1>5, <2>2, DriverQuiet DEF Driver
  <2>4. TransferOf(k) \in transfers' /\ TransferOf(k).key = k
    BY <2>1 DEF batch_handoff_to_singleton_and_clear, TransferOf
  <2>5. PICK t : t = TransferOf(k)
    OBVIOUS
  <2>6. t \in Transfers /\ t \in transfers' /\ t.key = k
    BY <1>1, <1>5, <2>1, <2>4, <2>5, TransferType DEF RegistryInv
  <2>7. PICK g : g = Generate(k, Msg.admission, t)
    OBVIOUS
  <2>8. g \in Generates /\ g.key = k /\ g.transfer = t
    BY <1>5, <2>6, <2>7 DEF Generates, Generate
  <2>9. /\ queue' \in Seq(Generates \cup {Reset}) /\ Apart(queue', Generates)
        /\ Elements(queue') = {g} \cup Elements(Tail(queue))
    <3>1. PICK T : T = Generates \cup {Reset}
      BY Zenon
    <3>2. PICK q \in Seq(T) : q = Tail(queue)
      BY Zenon, <1>5, <3>1
    <3>3. g \in T
      BY <2>8, <3>1
    <3>4. PICK p \in Seq(T) : p = <<g>> /\ Elements(p) = {g} /\ Apart(p, Generates)
      BY Zenon, <3>3, OneApart
    <3>5. Apart(q, Generates) /\ \A x \in Elements(p), y \in Elements(q) : x \in Generates /\ y \in Generates => x.key # y.key
      BY <1>5, <2>8, <3>2, <3>4
    <3>6. Elements(p) = {g} /\ Apart(p, Generates)
      BY <3>4
    <3>7. p \o q \in Seq(T) /\ Elements(p \o q) = Elements(p) \cup Elements(q) /\ Apart(p \o q, Generates)
      BY <3>5, <3>6, JoinedApart
    <3>8. queue' = p \o q
      BY <2>1, <2>5, <2>7, <3>2, <3>4
    <3> QED
      BY <3>1, <3>2, <3>6, <3>7, <3>8
  <2>10. PICK pc \in {"leave", "assign"} : pc = AfterBarrier
    BY DEF AfterBarrier
  <2>11. /\ main' \in MainRecords /\ main'.pc = pc /\ main'.msg = main.msg /\ main'.item = None
         /\ main'.item \notin Adoptions
    <3>1. pc \in Places
      BY <2>10 DEF Places, Leaving, Driver
    <3> QED
      BY Zenon, <1>3, <2>1, <2>10, <3>1, NoItemAssumption DEF MainRecords
  <2>12. pc = "leave" => \A c \in Keys : pending[c] = None
    BY <1>1, <2>10, NothingHeld DEF AfterBarrier
  <2>13. /\ main.pc \in Driver \ {"fail"} /\ main'.pc \in (Driver \ {"fail"}) \cup {"leave"}
         /\ main.pc \in Driver \cup {"admit"} /\ main'.pc \in Driver \cup {"leave", "poison"}
         /\ main'.pc \notin Driver => \A c \in Keys : pending'[c] = None
    BY <1>2, <1>3, <2>10, <2>11, <2>12 DEF Driver, schedulerVars
  <2>14. DriveInv'
    BY <1>1, <1>2, <1>3, <1>7, <2>1, <2>11, <2>12, <2>13, TurnStep
  <2>15. \A m \in Mail' : /\ \E n \in Mail : n.key = m.key
                          /\ m.transfer # None => m.transfer \in transfers' /\ m.transfer.key = m.key
                          /\ pending'[m.key] = None
                          /\ m.key = k => wire[k] = <<>>
    <3>1. ASSUME NEW m \in Mail', m = g
          PROVE  /\ \E n \in Mail : n.key = m.key
                 /\ m.transfer \in transfers' /\ m.transfer.key = m.key /\ pending'[m.key] = None
      BY <1>2, <1>4, <1>5, <1>6, <2>6, <2>8, <3>1 DEF schedulerVars
    <3>2. \A m \in Mail' : m = g \/ m \in Elements(Tail(queue)) \cap Generates
      BY <2>9 DEF Mail
    <3> QED
      BY <1>2, <1>5, <2>3, <3>1, <3>2 DEF schedulerVars
  <2>16. work' \in Seq(ListItems) /\ streamed' \in [Lanes -> 0 .. MaxTokens]
    BY <1>1, <1>2, <2>1 DEF ThreadTypes
  <2>17. FlowInv'
    BY ZenonT(30), <1>1, <1>2, <1>5, <1>7, <2>3, <2>9, <2>11, <2>13, <2>14, <2>15, <2>16, DriverFrame
  <2> QED
    BY <1>2, <2>3, <2>17 DEF Kept, Proper
<1>9. CASE ~(batch_is_current(k, Msg.admission) /\ handoffs[k] = None)
  <2>1. /\ UNCHANGED terminalVars /\ work' = FailItems /\ queue' = Tail(queue)
        /\ main' = [main EXCEPT !.pc = "fail", !.item = None]
    BY <1>4, <1>9 DEF DrainHandoff
  <2>2. Quiet(k)
    BY <2>1 DEF Quiet
  <2>3. Tame /\ transfers \subseteq transfers'
    BY <1>2, <1>3, <1>5, <2>2, DriverQuiet DEF Driver
  <2>4. /\ main' \in MainRecords /\ main'.pc = "fail" /\ main'.msg = main.msg /\ main'.item = None
        /\ main'.item \notin Adoptions
    <3>1. "fail" \in Places
      BY DEF Places, Driver
    <3> QED
      BY ZenonT(30), <1>3, <2>1, <3>1, NoItemAssumption DEF MainRecords
  <2>5. /\ work' \in Seq(ListItems) /\ Apart(work', ListItems)
        /\ \A w \in Elements(work') : FromScheduler(w, w.act) /\ w.act = "fail"
    BY <1>1, <2>1, FailList
  <2>6. /\ main.pc \in Driver \ {"fail"} /\ main.pc \in Driver \cup {"admit"}
        /\ main'.pc \in Driver /\ main'.pc \in Driver \cup {"leave", "poison"}
    BY <1>3, <2>4 DEF Driver
  <2>7. DriveInv'
    BY <1>1, <1>2, <1>7, <2>4, <2>5, <2>6, NewList
  <2>8. \A m \in Mail' : /\ \E n \in Mail : n.key = m.key
                         /\ m.transfer # None => m.transfer \in transfers' /\ m.transfer.key = m.key
                         /\ pending'[m.key] = None
                         /\ m.key = k => wire[k] = <<>>
    BY <1>2, <1>5, <2>1, <2>3 DEF Mail, schedulerVars
  <2>9. /\ streamed' \in [Lanes -> 0 .. MaxTokens]
        /\ queue' \in Seq(Generates \cup {Reset}) /\ Apart(queue', Generates)
    BY <1>1, <1>2, <1>5, <2>1 DEF ThreadTypes
  <2>10. FlowInv'
    BY ZenonT(30), <1>1, <1>2, <1>5, <1>7, <2>3, <2>4, <2>5, <2>6, <2>7, <2>8, <2>9, DriverFrame
  <2> QED
    BY <1>2, <2>3, <2>10 DEF Kept, Proper
<1> QED
  BY <1>8, <1>9

----------------------------------------------------------------------------
(* Draining the queue, and the scheduler's turns *)

\* The driver deals with one message, or with the first half of one.
LEMMA DrainDrive ==
    ASSUME FlowInv, main.pc = "drain", main'.pc = "drain", main' \in MainRecords,
           main.item # None => main.item.act \in {"handoff", "enqueue"},
           UNCHANGED <<work, streamed, lines>>, UNCHANGED schedulerVars,
           NEW k \in Keys, pending[k] = None, NEW events, Writes(k, events),
           main'.item # None =>
              /\ main'.item.act \in {"clear", "handoff", "enqueue"} /\ main'.item.key = k
              /\ main'.item.act # "clear" => queue' # <<>> /\ Head(queue') = Generate(k, main'.item.admission, None)
    PROVE  DriveInv'
<1>1. work = <<>> /\ Todo = {} /\ Todo' = {} /\ work' = <<>>
  BY EmptyHanded DEF Driver, Todo
<1>2. /\ wire \in [Keys -> Seq(WireEvents)] /\ wire' = [wire EXCEPT ![k] = events] /\ pending' = pending
      /\ \A x : Lines(x)' = Lines(x) /\ AwaitsClient(x)' = AwaitsClient(x)
  BY Zenon DEF FlowInv, ThreadTypes, Writes, Lines, schedulerVars, AwaitsClient, Awaiting, Occupied
<1>3. \A x : ~Doing("retire", x) /\ ~Doing("announce", x) /\ ~Doing("announce", x)'
  BY Zenon DEF Doing, Item_is
<1>4. WorkInv'
  BY <1>1 DEF WorkInv, Apart
<1>5. ItemInv'
  BY Zenon, <1>2 DEF ItemInv
<1>6. HeldInv'
  <2>1. ASSUME NEW x \in Keys, pending'[x] # None
        PROVE  "generate" \in Lines(x)' /\ wire'[x] = IF AwaitsClient(x)' THEN Offered ELSE Started
    <3>1. "generate" \in Lines(x) /\ wire[x] = IF AwaitsClient(x) THEN Offered ELSE Started
      BY ZenonT(30), <1>2, <1>3, <2>1 DEF FlowInv, HeldInv
    <3> QED
      BY ZenonT(30), <1>2, <2>1, <3>1
  <2> QED
    BY Zenon, <1>3, <2>1 DEF HeldInv
<1>7. StreamInv'
  BY Zenon, <1>1 DEF FlowInv, StreamInv, Running, Occupied, schedulerVars
<1> QED
  BY <1>4, <1>5, <1>6, <1>7 DEF DriveInv

\* A message answered without the scheduler.
LEMMA AnsweredSteps ==
    ASSUME ServeInv, UNCHANGED readerVars, DrainAborted \/ DrainRefused
    PROVE  Kept /\ Proper
<1>1. FlowInv /\ ThreadTypes
  BY DEF ServeInv, FlowInv
<1>2. /\ main.pc = "drain" /\ main.item = None /\ queue # <<>> /\ Msg.type = "generate"
      /\ main' = [main EXCEPT !.item = DrainItem] /\ queue' = Tail(queue)
      /\ UNCHANGED schedulerVars /\ UNCHANGED driverVars
  BY DEF DrainAborted, DrainRefused, Draining, FreshGenerate, At
<1>3. Head(queue) \in Generates
  <2>1. Head(queue) \in Generates \cup {Reset}
    BY <1>1, <1>2, TakenMessage
  <2> QED
    BY <1>2, <2>1 DEF Msg, Reset
<1>4. PICK k : k = Msg.key
  OBVIOUS
<1>5. /\ k \in Keys /\ Msg.admission \in Generations /\ "generate" \in Lines(k)
      /\ wire[k] = <<>> /\ pending[k] = None
      /\ Tail(queue) \in Seq(Generates \cup {Reset}) /\ Apart(Tail(queue), Generates)
      /\ \A m \in Elements(Tail(queue)) \cap Generates :
            /\ m \in Mail /\ m.key \in Keys /\ m.key # k /\ pending[m.key] = None
            /\ m.transfer # None => m.transfer \in transfers /\ m.transfer.key = m.key
  BY <1>1, <1>2, <1>3, <1>4, FrontMessage
<1>6. PICK scope \in Generations \cup {None} : scope = EnterScope(k, Msg.admission)
  BY <1>5, ScopeType
<1>7. WriteCancelled(k, scope) \/ WriteTerminal(k, scope, "error")
  BY <1>4, <1>6 DEF DrainAborted, DrainRefused
<1>8. Quiet(k) /\ \E events : Writes(k, events)
  <2>1. "error" \in Terminals /\ "error" # "done" /\ wire[k] \in {<<>>, Started, Offered}
    BY Zenon, <1>5 DEF Terminals
  <2> QED
    BY ZenonT(30), <1>1, <1>5, <1>6, <1>7, <2>1, CancelledWritten, TerminalWritten
<1>9. PICK events : Writes(k, events)
  BY <1>8
<1>10. DrainItem = [DrainItem EXCEPT !.act = "clear"]
  BY DEF DrainItem
<1>11. /\ main' \in MainRecords /\ main'.pc = "drain" /\ main'.msg = main.msg
       /\ main'.item # None /\ main'.item \notin Adoptions
       /\ main'.item.act = "clear" /\ main'.item.key = k
  <2>1. main' = [main EXCEPT !.item = [DrainItem EXCEPT !.act = "clear"]]
    BY <1>2, <1>10
  <2> QED
    BY <1>1, <1>2, <1>3, <1>4, <2>1, DrainItemFacts
<1>12. UNCHANGED <<work, streamed, lines>> /\ batch_poisoned' = batch_poisoned
  BY <1>2 DEF driverVars, readerVars
<1>13. DriveInv'
  BY <1>1, <1>2, <1>5, <1>9, <1>11, <1>12, DrainDrive
<1>14. Tame /\ transfers \subseteq transfers'
  BY <1>2, <1>5, <1>8, DriverQuiet DEF Driver
<1>15. \A m \in Mail' : /\ \E n \in Mail : n.key = m.key
                        /\ m.transfer # None => m.transfer \in transfers' /\ m.transfer.key = m.key
                        /\ pending'[m.key] = None
                        /\ m.key = k => events = <<>>
  BY <1>2, <1>5, <1>14 DEF Mail, schedulerVars
<1>16. /\ work' \in Seq(ListItems) /\ streamed' \in [Lanes -> 0 .. MaxTokens]
       /\ queue' \in Seq(Generates \cup {Reset}) /\ Apart(queue', Generates)
       /\ main.pc \in Driver \cup {"admit"} /\ main'.pc \in Driver /\ main'.pc \in Driver \cup {"leave", "poison"}
  BY <1>1, <1>2, <1>5, <1>11, <1>12 DEF ThreadTypes, Driver
<1>17. FlowInv'
  <2>1. /\ k \in Keys /\ "generate" \in Lines(k) /\ Writes(k, events) /\ transfers \subseteq transfers'
        /\ main'.pc \notin Driver => \A c \in Keys : pending'[c] = None
    BY Zenon, <1>5, <1>9, <1>14, <1>16
  <2>2. main' \in MainRecords /\ main'.msg = main.msg /\ main'.item \notin Adoptions
    BY Zenon, <1>11
  <2> QED
    BY ZenonT(30), <1>1, <1>12, <1>13, <1>15, <1>16, <2>1, <2>2, DriverFrame
<1> QED
  BY Zenon, <1>5, <1>9, <1>14, <1>17 DEF Kept, Proper, Lawful

\* A message about to be handed off or enqueued.
LEMMA PreparedSteps ==
    ASSUME ServeInv, UNCHANGED readerVars, DrainThink \/ DrainQueue
    PROVE  Kept /\ Proper
<1>1. FlowInv /\ ThreadTypes
  BY DEF ServeInv, FlowInv
<1>2. /\ main.pc = "drain" /\ main.item = None /\ queue # <<>> /\ Msg.type = "generate" /\ Msg.transfer = None
      /\ UNCHANGED schedulerVars /\ UNCHANGED driverVars /\ queue' = queue /\ wire' = wire
  BY DEF DrainThink, DrainQueue, Draining, FreshGenerate, At
<1>3. Head(queue) \in Generates
  <2>1. Head(queue) \in Generates \cup {Reset}
    BY <1>1, <1>2, TakenMessage
  <2> QED
    BY <1>2, <2>1 DEF Msg, Reset
<1>4. PICK k : k = Msg.key
  OBVIOUS
<1>5. k \in Keys /\ Msg.admission \in Generations /\ "generate" \in Lines(k) /\ pending[k] = None
  BY Zenon, <1>1, <1>2, <1>3, <1>4, FrontMessage
<1>6. PICK act \in {"handoff", "enqueue"} : main' = [main EXCEPT !.item = [DrainItem EXCEPT !.act = act]]
  BY DEF DrainThink, DrainQueue
<1>7. Quiet(k)
  BY <1>4, <1>5 DEF DrainThink, DrainQueue, Quiet
<1>8. /\ main' \in MainRecords /\ main'.pc = "drain" /\ main'.msg = main.msg
      /\ main'.item # None /\ main'.item \notin Adoptions
      /\ main'.item.act = act /\ main'.item.key = k /\ main'.item.admission = Msg.admission
  <2>1. act \in {"clear", "handoff", "enqueue"}
    BY <1>6
  <2> QED
    BY <1>1, <1>2, <1>3, <1>4, <1>6, <2>1, DrainItemFacts
<1>9. Head(queue) = Generate(k, Msg.admission, None)
  BY Zenon, <1>2, <1>3, <1>4 DEF Generates, Generate, Msg
<1>10. Writes(k, wire[k])
  BY <1>1, <1>2, <1>5, Unwritten
<1>11. UNCHANGED <<work, streamed, lines>> /\ UNCHANGED <<queue, batch_poisoned>>
  BY <1>2 DEF driverVars, readerVars
<1>12. DriveInv'
  BY ZenonT(30), <1>1, <1>2, <1>5, <1>8, <1>9, <1>10, <1>11, DrainDrive
<1>13. Tame /\ transfers \subseteq transfers'
  BY Zenon, <1>2, <1>5, <1>7, DriverQuiet DEF Driver
<1>14. /\ work' \in Seq(ListItems) /\ streamed' \in [Lanes -> 0 .. MaxTokens]
       /\ \A x \in Keys : pending[x] = None => pending'[x] = None
       /\ main.pc \in Driver /\ main'.pc \in Driver /\ main'.pc \in Driver \cup {"leave", "poison"}
       /\ (wire[k] # <<>> \/ wire[k] = <<>>)
  BY <1>1, <1>2, <1>8, <1>11 DEF ThreadTypes, Driver, schedulerVars
<1>15. FlowInv'
  BY ZenonT(30), <1>1, <1>5, <1>8, <1>10, <1>11, <1>12, <1>13, <1>14, DriverFrameQueue
<1> QED
  BY <1>2, <1>13, <1>15 DEF Kept, Proper

\* A request enters the scheduler, and its start is on the wire.
LEMMA EnqueuedDrive ==
    ASSUME FlowInv, SchedulerInv, work = <<>>, work' = <<>>, main.pc # "fail",
           \A c : ~Doing("retire", c) /\ ~Doing("announce", c),
           main'.item = None, main'.pc \in {"poll", "drain"}, UNCHANGED <<streamed, lines, lanes>>,
           NEW k \in Keys, "generate" \in Lines(k), pending[k] = None,
           \A c \in Keys : c # k => pending'[c] = pending[c], Writes(k, Started)
    PROVE  DriveInv'
<1>1. Todo = {} /\ Todo' = {}
  BY DEF Todo, Elements
<1>2. /\ wire \in [Keys -> Seq(WireEvents)] /\ wire' = [wire EXCEPT ![k] = Started]
      /\ \A x : Lines(x)' = Lines(x) /\ AwaitsClient(x)' = AwaitsClient(x)
      /\ \A x : ~Doing("announce", x)'
  BY Zenon DEF FlowInv, ThreadTypes, Writes, Lines, AwaitsClient, Awaiting, Occupied, Doing, Item_is
<1>3. ~AwaitsClient(k)
  BY Zenon, LaneOwner DEF AwaitsClient, Awaiting
<1>4. WorkInv'
  BY <1>1 DEF WorkInv, Apart
<1>5. ItemInv'
  BY DEF ItemInv
<1>6. HeldInv'
  <2>1. ASSUME NEW x \in Keys, pending'[x] # None
        PROVE  "generate" \in Lines(x)' /\ wire'[x] = IF AwaitsClient(x)' THEN Offered ELSE Started
    <3>1. CASE x = k
      BY <1>2, <1>3, <3>1
    <3>2. CASE x # k
      <4>1. "generate" \in Lines(x) /\ wire[x] = IF AwaitsClient(x) THEN Offered ELSE Started
        BY <2>1, <3>2 DEF FlowInv, HeldInv
      <4> QED
        BY <1>2, <3>2, <4>1
    <3> QED
      BY <3>1, <3>2
  <2> QED
    BY <1>2, <2>1 DEF HeldInv
<1>7. StreamInv'
  <2>1. \A l \in Running : streamed[l] < MaxTokens
    BY Zenon, <1>1 DEF FlowInv, StreamInv
  <2> QED
    BY Zenon, <2>1 DEF StreamInv, Running, Occupied
<1> QED
  BY <1>4, <1>5, <1>6, <1>7 DEF DriveInv

\* Its first event.
LEMMA StartWritten ==
    ASSUME ThreadTypes, NEW k \in Keys, wire[k] = <<>>, Write(k, "start")
    PROVE  Writes(k, Started)
<1>1. "start" \in WireEvents /\ Append(wire[k], "start") = Started
  BY Openings DEF WireEvents
<1>2. Legal(wire[k], Append(wire[k], "start"), "commit" \in Lines(k))
  BY <1>1 DEF Legal
<1> QED
  BY Zenon, <1>1, <1>2, OneWritten

\* What enqueue does.
LEMMA EnqueueFacts ==
    ASSUME RegistryInv, NEW k \in Keys, NEW g \in Generations, NEW sampling \in Samplings,
           enqueue(k, g, sampling), UNCHANGED lines
    PROVE  /\ Tame /\ transfers' = transfers /\ lanes' = lanes
           /\ \A c \in Keys : c # k => pending'[c] = pending[c]
<1>1. DriverStep
  BY DEF DriverStep
<1>2. pending \in [Keys -> Requests \cup {None}]
  BY DEF RegistryInv, SchedulerInv, SchedulerTypeOK
<1> QED
  BY <1>1, <1>2, DriverTame DEF enqueue

\* A drained request is enqueued, or dropped.
LEMMA DrainEnqueueStep ==
    ASSUME ServeInv, UNCHANGED readerVars, DrainEnqueue
    PROVE  Kept /\ Proper
<1>1. FlowInv /\ ThreadTypes /\ SchedulerInv /\ RegistryInv
  BY DEF ServeInv, FlowInv, RegistryInv
<1>2. /\ main.item # None /\ main.item.act = "enqueue" /\ queue' = Tail(queue)
      /\ main' = [main EXCEPT !.item = None] /\ UNCHANGED driverVars
  BY DEF DrainEnqueue, Item_is
<1>3. /\ main.pc = "drain" /\ queue # <<>> /\ Head(queue) \in Generates /\ work = <<>> /\ main \in MainRecords
  BY <1>1, <1>2, FrontItem
<1>4. PICK k : k = Msg.key
  OBVIOUS
<1>5. /\ k \in Keys /\ Msg.admission \in Generations /\ "generate" \in Lines(k)
      /\ wire[k] = <<>> /\ pending[k] = None
      /\ Tail(queue) \in Seq(Generates \cup {Reset}) /\ Apart(Tail(queue), Generates)
      /\ \A m \in Elements(Tail(queue)) \cap Generates :
            /\ m \in Mail /\ m.key \in Keys /\ m.key # k /\ pending[m.key] = None
            /\ m.transfer # None => m.transfer \in transfers /\ m.transfer.key = m.key
  BY <1>1, <1>3, <1>4, FrontMessage
<1>6. /\ main' \in MainRecords /\ main'.pc = "drain" /\ main'.msg = main.msg /\ main'.item = None
      /\ main'.item \notin Adoptions
  BY <1>2, <1>3, NoItemAssumption DEF MainRecords
<1>7. /\ work' = <<>> /\ work' = work /\ streamed' = streamed /\ lines' = lines /\ batch_poisoned' = batch_poisoned
      /\ work' \in Seq(ListItems) /\ streamed' \in [Lanes -> 0 .. MaxTokens]
      /\ queue' \in Seq(Generates \cup {Reset}) /\ Apart(queue', Generates)
      /\ main.pc \in Driver \cup {"admit"} /\ main'.pc \in Driver /\ main'.pc \in Driver \cup {"leave", "poison"}
      /\ main.pc \in Driver
  BY <1>1, <1>2, <1>3, <1>5, <1>6 DEF ThreadTypes, Driver, driverVars, readerVars
<1>8. CASE batch_is_current(k, Msg.admission)
  <2>1. PICK sampling \in Samplings : enqueue(k, Msg.admission, sampling) /\ Write(k, "start")
    BY <1>4, <1>5, <1>8 DEF DrainEnqueue
  <2>2. Writes(k, Started)
    BY <1>1, <1>5, <2>1, StartWritten
  <2>3. /\ Tame /\ transfers' = transfers /\ lanes' = lanes
        /\ \A c \in Keys : c # k => pending'[c] = pending[c]
    BY Zenon, <1>1, <1>5, <1>7, <2>1, EnqueueFacts
  <2>4. \A c : ~Doing("retire", c) /\ ~Doing("announce", c)
    BY <1>2 DEF Doing, Item_is
  <2>5. DriveInv'
    BY Zenon, <1>1, <1>3, <1>5, <1>6, <1>7, <2>2, <2>3, <2>4, EnqueuedDrive
  <2>6. \A m \in Mail' : /\ \E n \in Mail : n.key = m.key
                         /\ m.transfer # None => m.transfer \in transfers' /\ m.transfer.key = m.key
                         /\ pending'[m.key] = None
                         /\ m.key = k => Started = <<>>
    BY <1>2, <1>5, <2>3 DEF Mail
  <2>7. FlowInv'
    BY Zenon, <1>1, <1>5, <1>6, <1>7, <2>2, <2>3, <2>5, <2>6, DriverFrame
  <2> QED
    BY Zenon, <1>5, <2>2, <2>3, <2>7 DEF Kept, Proper, Lawful
<1>9. CASE ~batch_is_current(k, Msg.admission)
  <2>1. UNCHANGED terminalVars /\ UNCHANGED schedulerVars /\ wire' = wire
    BY <1>4, <1>9 DEF DrainEnqueue, batchVars
  <2>2. Writes(k, wire[k])
    BY ZenonT(30), <1>1, <1>5, <2>1, Unwritten
  <2>3. Tame /\ transfers \subseteq transfers'
    BY Zenon, <1>5, <1>7, <2>1, DriverQuiet DEF Quiet
  <2>4. DriveInv'
    BY <1>1, <1>2, <1>3, <1>5, <1>6, <1>7, <2>1, <2>2, DrainDrive
  <2>5. \A m \in Mail' : /\ \E n \in Mail : n.key = m.key
                         /\ m.transfer # None => m.transfer \in transfers' /\ m.transfer.key = m.key
                         /\ pending'[m.key] = None
                         /\ m.key = k => wire[k] = <<>>
    BY <1>2, <1>5, <2>1, <2>3 DEF Mail, schedulerVars
  <2>6. FlowInv'
    BY Zenon, <1>1, <1>5, <1>6, <1>7, <2>2, <2>3, <2>4, <2>5, DriverFrame
  <2> QED
    BY <2>1, <2>3, <2>6 DEF Kept, Proper
<1> QED
  BY <1>8, <1>9

\* The dispatched request enters the scheduler and main starts to drive it.
LEMMA AdmitEnqueueStep ==
    ASSUME ServeInv, UNCHANGED readerVars, AdmitEnqueue
    PROVE  Kept /\ Proper
<1>1. FlowInv /\ ThreadTypes /\ SchedulerInv /\ RegistryInv
  BY DEF ServeInv, FlowInv, RegistryInv
<1>2. /\ main.pc = "admit" /\ UNCHANGED driverVars /\ queue' = queue
      /\ main.pc \notin Idle \cup Driver \cup {"adopt", "adopt_think"}
  BY DEF AdmitEnqueue, At, Idle, Driver
<1>3. PICK k : k = Key
  OBVIOUS
<1>4. /\ k \in Keys /\ Admission \in Generations /\ \A c \in Keys : pending[c] = None
      /\ "generate" \in Lines(k) /\ wire[k] = <<>>
  BY <1>1, <1>2, <1>3, MsgFacts DEF Stage, Unstarted
<1>5. CASE batch_is_current(k, Admission)
  <2>1. PICK sampling \in Samplings : enqueue(k, Admission, sampling) /\ Write(k, "start") /\ Goto("poll")
    BY <1>3, <1>4, <1>5 DEF AdmitEnqueue
  <2>2. Writes(k, Started)
    BY <1>1, <1>4, <2>1, StartWritten
  <2>3. main.item = None /\ work = <<>>
    BY <1>1, <1>2, SoloFacts
  <2>4. /\ main' \in MainRecords /\ main'.pc = "poll" /\ main'.msg = main.msg /\ main'.item = None
        /\ main'.item \notin Adoptions
    <3>1. "poll" \in Places
      BY DEF Places, Driver
    <3> QED
      BY <1>1, <2>1, <2>3, <3>1, GotoFacts, NoItemAssumption
  <2>5. /\ work' = <<>> /\ streamed' = streamed /\ lines' = lines /\ batch_poisoned' = batch_poisoned
        /\ work' \in Seq(ListItems) /\ streamed' \in [Lanes -> 0 .. MaxTokens]
        /\ queue' \in Seq(Generates \cup {Reset}) /\ Apart(queue', Generates)
        /\ main.pc \in Driver \cup {"admit"} /\ main'.pc \in Driver /\ main'.pc \in Driver \cup {"leave", "poison"}
    BY ZenonT(30), <1>1, <1>2, <2>3, <2>4 DEF FlowInv, ThreadTypes, QueueInv, Driver, driverVars, readerVars
  <2>6. /\ Tame /\ transfers' = transfers /\ lanes' = lanes
        /\ \A c \in Keys : c # k => pending'[c] = pending[c]
    BY Zenon, <1>1, <1>4, <2>1, <2>5, EnqueueFacts
  <2>7. \A c : ~Doing("retire", c) /\ ~Doing("announce", c)
    BY <2>3 DEF Doing, Item_is
  <2>8. DriveInv'
    BY ZenonT(30), <1>1, <1>2, <1>4, <2>2, <2>3, <2>4, <2>5, <2>6, <2>7, EnqueuedDrive
  <2>9. ASSUME NEW m \in Mail'
        PROVE  /\ \E n \in Mail : n.key = m.key
               /\ m.transfer # None => m.transfer \in transfers' /\ m.transfer.key = m.key
               /\ pending'[m.key] = None
               /\ m.key = k => Started = <<>>
    <3>1. m \in Mail /\ m.key \in Keys
      BY <1>2, <2>9 DEF Mail, Generates
    <3>2. m.key # k
      BY <1>1, <1>2, <1>3, <3>1 DEF FlowInv, QueueInv, Handles, Key
    <3>3. m.transfer # None => m.transfer \in transfers /\ m.transfer.key = m.key
      BY <1>1, <3>1 DEF FlowInv, TokenInv, Minted
    <3> QED
      BY Zenon, <1>4, <2>6, <3>1, <3>2, <3>3
  <2>10. FlowInv'
    BY Zenon, <1>1, <1>4, <2>2, <2>4, <2>5, <2>6, <2>8, <2>9, DriverFrame
  <2> QED
    BY Zenon, <1>4, <2>2, <2>6, <2>10 DEF Kept, Proper, Lawful
<1>6. CASE ~batch_is_current(k, Admission)
  <2>1. UNCHANGED terminalVars /\ UNCHANGED schedulerVars /\ UNCHANGED wire /\ Goto("leave")
    BY <1>3, <1>6 DEF AdmitEnqueue, batchVars
  <2>2. "leave" \in Places \ (Driver \cup {"adopt", "adopt_think"})
    BY DEF Places, Leaving, Driver
  <2>3. Stage("leave", wire[Key], "commit" \in Lines(Key)) /\ Quiet(Key)
    BY Zenon, <2>1 DEF Stage, Unstarted, Quiet
  <2>4. UNCHANGED <<schedulerVars, driverVars, queue, readerVars>>
    BY <1>2, <2>1
  <2> QED
    BY <1>2, <2>1, <2>2, <2>3, <2>4, SilentGoto DEF Proper
<1> QED
  BY <1>5, <1>6

\* What try_assign_one does to the lanes and to the requests.
LEMMA AssignFacts ==
    ASSUME SchedulerInv, try_assign_one, FirstEmpty \in Lanes, lanes[FirstEmpty] = None
    PROVE  /\ FirstEmpty \in Lanes /\ lanes[FirstEmpty] = None
           /\ \A l \in Lanes : l # FirstEmpty => lanes'[l] = lanes[l]
           /\ lanes'[FirstEmpty] # None => lanes'[FirstEmpty].state = "Running"
           /\ \A c \in Keys : pending'[c] = None \/ pending'[c] = pending[c]
<1>1. FirstEmpty \in Lanes /\ lanes[FirstEmpty] = None
  OBVIOUS
<1>2. lanes \in [Lanes -> OccupiedLanes \cup {None}] /\ pending \in [Keys -> Requests \cup {None}]
  BY DEF SchedulerInv, SchedulerTypeOK
<1>3. PICK f : f = FirstEmpty
  OBVIOUS
<1>4. \/ /\ pending' = pending
         /\ \E t, k : lanes' = [lanes EXCEPT ![f] = [state |-> "Running", key |-> k, ticket |-> t, deadline |-> "unset"]]
      \/ lanes' = lanes /\ \E k : pending' = [pending EXCEPT ![k] = None]
  BY ZenonT(30), <1>3 DEF try_assign_one
<1>5. CASE pending' = pending /\ \E t, k : lanes' = [lanes EXCEPT ![f] = [state |-> "Running", key |-> k, ticket |-> t, deadline |-> "unset"]]
  <2>1. PICK t, k : lanes' = [lanes EXCEPT ![f] = [state |-> "Running", key |-> k, ticket |-> t, deadline |-> "unset"]]
    BY Zenon, <1>5
  <2> QED
    BY <1>1, <1>2, <1>3, <1>5, <2>1
<1>6. CASE lanes' = lanes /\ \E k : pending' = [pending EXCEPT ![k] = None]
  BY <1>1, <1>2, <1>6
<1> QED
  BY Zenon, <1>4, <1>5, <1>6

\* A lane is given to the oldest request.
LEMMA AssignStep ==
    ASSUME ServeInv, UNCHANGED readerVars, Assign, FirstEmpty \in Lanes, lanes[FirstEmpty] = None
    PROVE  Kept /\ Proper
<1>1. FlowInv /\ ThreadTypes /\ SchedulerInv /\ RegistryInv
  BY DEF ServeInv, FlowInv, RegistryInv
<1>2. /\ main.pc = "assign" /\ try_assign_one /\ streamed' = [streamed EXCEPT ![FirstEmpty] = 0]
      /\ main' = main /\ work' = work /\ wire' = wire /\ UNCHANGED <<queue, batch_poisoned>>
  BY DEF Assign, At
<1>3. main.pc \in Driver /\ work = <<>> /\ main.item = None /\ Todo = {} /\ Todo' = {}
  <2>1. main.pc \in Driver
    BY <1>2 DEF Driver
  <2> QED
    BY <1>1, <1>2, <2>1, EmptyHanded DEF Todo
<1>4. PICK f : f = FirstEmpty
  OBVIOUS
<1>5. /\ f \in Lanes /\ lanes[f] = None /\ \A l \in Lanes : l # f => lanes'[l] = lanes[l]
      /\ lanes'[f] # None => lanes'[f].state = "Running"
      /\ \A c \in Keys : pending'[c] = None \/ pending'[c] = pending[c]
  BY <1>1, <1>2, <1>4, AssignFacts
<1>6. /\ \A x : Lines(x)' = Lines(x)
      /\ \A x : ~Doing("retire", x) /\ ~Doing("announce", x) /\ ~Doing("announce", x)'
  BY <1>2, <1>3 DEF Lines, readerVars, Doing, Item_is
<1>7. ASSUME NEW x PROVE AwaitsClient(x)' = AwaitsClient(x)
  <2>1. ASSUME NEW l \in Awaiting PROVE l \in Lanes /\ l # f /\ lanes'[l] = lanes[l]
    BY <1>5, <2>1 DEF Awaiting, Occupied
  <2>2. ASSUME NEW l \in Awaiting' PROVE l \in Lanes /\ l # f /\ lanes'[l] = lanes[l]
    BY <1>5, <2>2 DEF Awaiting, Occupied
  <2> QED
    BY <2>1, <2>2 DEF AwaitsClient, Awaiting, Occupied
<1>8. WorkInv'
  BY <1>2, <1>3 DEF WorkInv, Apart
<1>9. ItemInv'
  BY <1>2, <1>3 DEF ItemInv
<1>10. HeldInv'
  <2>1. ASSUME NEW x \in Keys, pending'[x] # None
        PROVE  "generate" \in Lines(x)' /\ wire'[x] = IF AwaitsClient(x)' THEN Offered ELSE Started
    <3>1. "generate" \in Lines(x) /\ wire[x] = IF AwaitsClient(x) THEN Offered ELSE Started
      BY ZenonT(30), <1>1, <1>2, <1>5, <1>6, <2>1 DEF FlowInv, HeldInv
    <3> QED
      BY <1>2, <1>6, <1>7, <3>1
  <2> QED
    BY Zenon, <1>6, <2>1 DEF HeldInv
<1>11. streamed' \in [Lanes -> 0 .. MaxTokens] /\ streamed'[f] < MaxTokens
       /\ \A l \in Lanes : l # f => streamed'[l] = streamed[l]
  <2>1. 0 \in 0 .. MaxTokens /\ 0 < MaxTokens
    BY ServeAssumption
  <2>2. streamed \in [Lanes -> 0 .. MaxTokens]
    BY <1>1 DEF ThreadTypes
  <2> QED
    BY Zenon, <1>2, <1>4, <1>5, <2>1, <2>2
<1>12. StreamInv'
  <2>1. ASSUME NEW l \in Running' PROVE streamed'[l] < MaxTokens
    <3>1. l \in Lanes /\ (l # f => l \in Running)
      BY <1>5, <2>1 DEF Running, Occupied
    <3> QED
      BY <1>1, <1>2, <1>3, <1>11, <3>1 DEF FlowInv, StreamInv
  <2> QED
    BY <2>1 DEF StreamInv
<1>13. DriveInv'
  BY <1>8, <1>9, <1>10, <1>12 DEF DriveInv
<1>14. Tame /\ transfers' = transfers
  <2>1. DriverStep
    BY <1>2 DEF DriverStep
  <2> QED
    BY <1>1, <2>1, DriverTame DEF readerVars
<1>15. PICK k \in Keys : "generate" \in Lines(k)
  BY Zenon, <1>1, <1>3, MsgFacts DEF Idle, Driver
<1>16. Writes(k, wire[k])
  BY <1>1, <1>2, <1>15, Unwritten
<1>17. /\ work' \in Seq(ListItems) /\ main' \in MainRecords /\ main'.msg = main.msg /\ main'.item \notin Adoptions
       /\ main'.pc \in Driver /\ main'.pc \in Driver \cup {"leave", "poison"}
       /\ \A c \in Keys : pending[c] = None => pending'[c] = None
       /\ (wire[k] # <<>> \/ wire[k] = <<>>) /\ transfers \subseteq transfers'
  BY <1>1, <1>2, <1>3, <1>5, <1>14, NoItemAssumption DEF ThreadTypes
<1>18. FlowInv'
  BY Zenon, <1>1, <1>2, <1>3, <1>11, <1>13, <1>15, <1>16, <1>17, DriverFrameQueue
<1> QED
  BY <1>2, <1>14, <1>18 DEF Kept, Proper

\* The driver gives up, and main leaves.
LEMMA FailAllStep ==
    ASSUME ServeInv, UNCHANGED readerVars, FailAll
    PROVE  Kept /\ Proper
<1>1. FlowInv /\ ThreadTypes /\ SchedulerInv /\ RegistryInv
  BY DEF ServeInv, FlowInv, RegistryInv
<1>2. /\ main.pc = "fail" /\ work = <<>> /\ fail_all_active /\ UNCHANGED driverVars /\ queue' = queue /\ wire' = wire
  BY DEF FailAll, At
<1>3. PICK pc \in {"poison", "leave"} : Goto(pc)
  BY DEF FailAll
<1>4. main.pc \in Driver /\ main.item = None
  <2>1. main.pc \in Driver
    BY <1>2 DEF Driver
  <2> QED
    BY <1>1, <1>2, <2>1, EmptyHanded
<1>5. /\ main' \in MainRecords /\ main'.pc = pc /\ main'.msg = main.msg /\ main'.item = None
      /\ main'.item \notin Adoptions
  <2>1. pc \in Places
    BY <1>3 DEF Places, Leaving
  <2> QED
    BY <1>1, <1>3, <1>4, <2>1, GotoFacts, NoItemAssumption
<1>6. /\ \A c \in Keys : pending'[c] = None
      /\ \A l \in Lanes : lanes'[l] = None
  BY <1>1, <1>2 DEF fail_all_active, EmptyScheduler, SchedulerInv, HeldOnce
<1>7. work' = <<>> /\ work' = work /\ streamed' = streamed /\ UNCHANGED <<queue, batch_poisoned>> /\ Todo' = {}
  BY <1>2 DEF driverVars, Todo, Elements
<1>8. WorkInv'
  BY <1>7 DEF WorkInv, Apart
<1>9. ItemInv'
  BY <1>5 DEF ItemInv
<1>10. HeldInv' /\ StreamInv'
  BY <1>6 DEF HeldInv, StreamInv, Running, Occupied
<1>11. DriveInv'
  BY <1>8, <1>9, <1>10 DEF DriveInv
<1>12. Tame /\ transfers' = transfers
  <2>1. DriverStep
    BY <1>2 DEF DriverStep
  <2> QED
    BY <1>1, <2>1, DriverTame DEF readerVars
<1>13. PICK k \in Keys : "generate" \in Lines(k)
  BY <1>1, <1>4, MsgFacts DEF Idle, Driver
<1>14. Writes(k, wire[k])
  BY <1>1, <1>2, <1>13, Unwritten
<1>15. /\ work' \in Seq(ListItems) /\ streamed' \in [Lanes -> 0 .. MaxTokens]
       /\ main'.pc \in Driver \cup {"leave", "poison"}
       /\ (main'.pc \notin Driver => \A c \in Keys : pending'[c] = None)
       /\ (\A c \in Keys : pending[c] = None => pending'[c] = None)
       /\ (wire[k] # <<>> \/ wire[k] = <<>>) /\ transfers \subseteq transfers'
  BY <1>1, <1>3, <1>5, <1>6, <1>7, <1>12 DEF ThreadTypes
<1>16. FlowInv'
  BY Zenon, <1>1, <1>4, <1>5, <1>7, <1>11, <1>13, <1>14, <1>15, DriverFrameQueue
<1> QED
  BY <1>2, <1>12, <1>16 DEF Kept, Proper

----------------------------------------------------------------------------
(* The reader and the deadlines *)

\* What the steps of others leave to main.
LEMMA BesideMain ==
    ASSUME FlowInv, SameLanes, pending' = pending, UNCHANGED <<main, work, streamed, batch_poisoned, wire>>,
           transfers \subseteq transfers', LinesGrow,
           lines' \in [Keys -> Seq(Controls \cup {"generate"})], resets' \in 0 .. Resets,
           reader' \in ReaderCalls \cup {None}, (reader # None => reader.kind \in Lines(reader.key))',
           queue' \in Seq(Generates \cup {Reset}), Apart(queue', Generates),
           queue # <<>> => queue' # <<>> /\ Head(queue') = Head(queue),
           \A m \in Mail' : \/ m \in Mail
                            \/ /\ "generate" \in Lines(m.key)' /\ wire[m.key] = <<>>
                               /\ ~Handles(m.key) /\ pending[m.key] = None /\ m.transfer = None
    PROVE  FlowInv'
<1> USE DEF FlowInv
<1>1. /\ \A k : Handles(k)' = Handles(k)
      /\ \A act, k : Doing(act, k)' = Doing(act, k)
      /\ Todo' = Todo /\ Key' = Key
  BY DEF Handles, Doing, Item_is, Todo, Key
<1>2. Running' = Running /\ \A k : AwaitsClient(k)' = AwaitsClient(k)
  BY DEF SameLanes, Running, AwaitsClient, Awaiting, Occupied
<1>3. ThreadTypes'
  BY Zenon DEF ThreadTypes
<1>4. ReadInv'
  BY Zenon DEF ReadInv, LinesGrow
<1>5. QueueInv'
  <2>1. \A m \in Mail : m.key \in Keys
    BY Zenon DEF Mail, Generates
  <2> QED
    BY ZenonT(30), <1>1, <2>1 DEF QueueInv, LinesGrow
<1>6. MainInv'
  <2>1. PICK k : k = Key
    OBVIOUS
  <2>2. main.pc \notin Idle => k \in Keys /\ "generate" \in Lines(k) /\ Stage(main.pc, wire[k], "commit" \in Lines(k))
    BY Zenon, <2>1, MsgFacts DEF MainInv
  <2>3. main.pc \notin Idle => "generate" \in Lines(k)' /\ Stage(main.pc, wire[k], "commit" \in Lines(k)')
    BY <2>2 DEF LinesGrow, Stage
  <2> QED
    BY Zenon, <1>1, <2>1, <2>3 DEF MainInv
<1>7. WorkInv'
  <2>1. ASSUME NEW w \in Todo PROVE Listed(w)'
    <3>1. w \in ListItems
      BY ZenonT(30), <2>1, MembersOf DEF ThreadTypes, Todo
    <3>2. Listed(w)
      BY Zenon, <2>1 DEF WorkInv
    <3>3. w.lane \in Lanes \cup {None}
      BY <3>1 DEF ListItems
    <3> QED
      BY <3>1, <3>2, <3>3 DEF Listed, Holds, SameLanes
  <2> QED
    BY Zenon, <1>1, <2>1 DEF WorkInv
<1>8. ItemInv'
  <2>1. main.item # None => main.item.key \in Keys
    BY Zenon DEF ThreadTypes, MainRecords, OpenItems, Adoptions
  <2> QED
    BY ZenonT(30), <1>1, <1>2, <2>1 DEF ItemInv, LinesGrow
<1>9. HeldInv'
  BY ZenonT(30), <1>1, <1>2 DEF HeldInv, LinesGrow
<1>10. StreamInv'
  BY ZenonT(30), <1>1, <1>2 DEF StreamInv
<1>11. TokenInv'
  BY Zenon, <1>1 DEF TokenInv, Minted
<1> QED
  BY ZenonT(30), <1>3, <1>4, <1>5, <1>6, <1>7, <1>8, <1>9, <1>10, <1>11

\* The phases and the commits follow the wires and the lines.
LEMMA ContractRests ==
    ASSUME UNCHANGED <<wire, lines>>
    PROVE  UNCHANGED Contract!contract
<1>1. \A c : Lines(c)' = Lines(c)
  BY DEF Lines
<1>2. \A c : Phase(c)' = Phase(c)
  BY <1>1 DEF Phase
<1> QED
  BY <1>1, <1>2 DEF Contract!contract

=============================================================================
