--------------------------- MODULE PagePoolProofs ---------------------------
(***************************************************************************)
(* The page pool for every number of pages, slots and logical pages: the   *)
(* reference counts are exact, the lists partition the arena, a page that  *)
(* is written in place has one reader, a sealed page stays sealed, and a   *)
(* handle is good for one life of its page.  First the inductive invariant *)
(* and what the helpers do to one page, to the number of mappings of a     *)
(* page, and to one block table.                                           *)
(***************************************************************************)
EXTENDS PagePool, FiniteSetTheorems, TLAPS

\* The provers tried on a leaf that names none, in this order.
USE SMT, Zenon, SMTT(20), SMTT(30)

\* What the pool records of one page agrees with the lists it is on.
PageOK(m, f, r) ==
    /\ m \in PageMeta /\ f \in Nat /\ r \in Nat
    /\ f = (IF m.state = "Free" THEN 1 ELSE 0)
    /\ r = (IF m.state = "ReclaimPending" THEN 1 ELSE 0)
    /\ (m.table_refs + m.cache_refs > 0) <=> (m.state \in {"Private", "Sealed", "CacheOnly"})
    /\ m.state = "Free" => m.inflight_refs = 0
    /\ m.state = "Private" => m.table_refs = 1 /\ m.cache_refs = 0

PagesOK ==
    /\ meta = [p \in Pages |-> meta[p]]
    /\ free_pages = [p \in Pages |-> free_pages[p]]
    /\ reclaim_pending = [p \in Pages |-> reclaim_pending[p]]
    /\ \A p \in Pages : PageOK(meta[p], free_pages[p], reclaim_pending[p])

TablesOK ==
    /\ in_use \subseteq Slots
    /\ block_tables \in [Slots -> [LogicalPages -> Pages \cup {NoPage}]]
    /\ live_tokens \in [Slots -> Nat]
    /\ cow_plans \in [Slots -> [LogicalPages -> CowCopy \cup {NoCopy}]]

\* A table maps a page at one place only.
MapsOnce ==
    \A s \in Slots : \A a, b \in LogicalPages :
        block_tables[s][a] = block_tables[s][b] /\ block_tables[s][a] # NoPage => a = b

\* A table has no holes.
Dense ==
    \A s \in Slots : \A a, b \in LogicalPages :
        a < b /\ block_tables[s][b] # NoPage => block_tables[s][a] # NoPage

\* A reserved page belongs to its plan alone.
PlansReserve ==
    \A s \in Slots : \A lp \in Copies(s) :
        /\ meta[cow_plans[s][lp].dst_phys].state = "Private"
        /\ meta[cow_plans[s][lp].dst_phys].inflight_refs = 0
        /\ Mappings(cow_plans[s][lp].dst_phys) = {}
        /\ Reservations(cow_plans[s][lp].dst_phys) = {<<s, lp>>}

IInv == PagesOK /\ TablesOK /\ TableRefsExact /\ MapsOnce /\ Dense /\ PlansReserve

-----------------------------------------------------------------------------
(***************************************************************************)
(* One page                                                                *)
(***************************************************************************)

\* The fields of a page after each update of its record.
LEMMA Generation == \A g \in Nat : (g + 1) % GENERATIONS \in Nat
BY PageAssumption

LEMMA FreedFields ==
    ASSUME NEW m \in PageMeta
    PROVE  /\ FreedMeta(m) \in PageMeta
           /\ FreedMeta(m).state = "Free"
           /\ FreedMeta(m).table_refs = m.table_refs
           /\ FreedMeta(m).cache_refs = m.cache_refs
           /\ FreedMeta(m).inflight_refs = m.inflight_refs
<1>1. (m.generation + 1) % GENERATIONS \in Nat
  BY Generation DEF PageMeta
<1> QED BY Zenon, <1>1 DEF FreedMeta, PageMeta, PageState

LEMMA AllocFields ==
    ASSUME NEW m \in PageMeta
    PROVE  /\ AllocMeta(m) \in PageMeta
           /\ AllocMeta(m).state = "Private"
           /\ AllocMeta(m).table_refs = 1
           /\ AllocMeta(m).cache_refs = m.cache_refs
           /\ AllocMeta(m).inflight_refs = m.inflight_refs
<1>1. (m.generation + 1) % GENERATIONS \in Nat
  BY Generation DEF PageMeta
<1> QED BY Zenon, <1>1 DEF AllocMeta, PageMeta, PageState

LEMMA StateFields ==
    ASSUME NEW m \in PageMeta, NEW t \in PageState
    PROVE  LET d == [m EXCEPT !.state = t] IN
           /\ d \in PageMeta /\ d.state = t
           /\ d.table_refs = m.table_refs
           /\ d.cache_refs = m.cache_refs
           /\ d.inflight_refs = m.inflight_refs
BY DEF PageMeta

LEMMA TableRefFields ==
    ASSUME NEW m \in PageMeta, NEW n \in Nat
    PROVE  LET d == [m EXCEPT !.table_refs = n] IN
           /\ d \in PageMeta /\ d.table_refs = n
           /\ d.state = m.state
           /\ d.cache_refs = m.cache_refs
           /\ d.inflight_refs = m.inflight_refs
BY DEF PageMeta

\* What a page looks like after a rewrite, on and off the lists.
Listed(m, d, f, r) ==
    PageOK(d, IF d.state = "Free" THEN f + 1 ELSE f,
           IF d.state = "ReclaimPending" /\ m.state # "ReclaimPending" THEN r + 1 ELSE r)

\* A resident page that loses a table reference (dec_table_ref).
LEMMA DecPage ==
    ASSUME NEW m, NEW f, NEW r, PageOK(m, f, r), m.table_refs > 0
    PROVE  /\ Listed(m, DecTableRef(m), f, r)
           /\ DecTableRef(m).table_refs = m.table_refs - 1
           /\ DecTableRef(m).state # "Private"
           /\ DecTableRef(m).inflight_refs = m.inflight_refs
<1> DEFINE d == [m EXCEPT !.table_refs = m.table_refs - 1]
<1>0. m \in PageMeta /\ m.table_refs - 1 \in Nat BY DEF PageOK, PageMeta
<1>1. d \in PageMeta /\ d.table_refs = m.table_refs - 1 /\ d.cache_refs = m.cache_refs
      /\ d.inflight_refs = m.inflight_refs /\ d.state = m.state
  BY <1>0, TableRefFields
<1>2. d.table_refs \in Nat /\ d.cache_refs \in Nat /\ d.inflight_refs \in Nat
  BY <1>1 DEF PageMeta
<1>3. DecTableRef(m) = IF d.table_refs > 0 THEN d
                       ELSE IF d.cache_refs > 0 THEN [d EXCEPT !.state = "CacheOnly"]
                       ELSE IF d.inflight_refs > 0 THEN [d EXCEPT !.state = "ReclaimPending"]
                       ELSE FreedMeta(d)
  BY DEF DecTableRef
<1>4. m.state \in {"Private", "Sealed", "CacheOnly"} /\ f \in Nat /\ r \in Nat /\ f = 0 /\ r = 0
      /\ (m.state = "Private" => m.table_refs = 1 /\ m.cache_refs = 0)
  BY <1>0 DEF PageOK, PageMeta
<1> HIDE DEF d
<1>5. CASE d.table_refs > 0
  BY <1>1, <1>2, <1>3, <1>4, <1>5 DEF Listed, PageOK
<1>6. CASE d.table_refs = 0 /\ d.cache_refs > 0
  <2> DEFINE x == DecTableRef(m)
  <2>1. x = [d EXCEPT !.state = "CacheOnly"]
    BY <1>2, <1>3, <1>6
  <2>2. x \in PageMeta /\ x.state = "CacheOnly" /\ x.table_refs = 0 /\ x.cache_refs > 0
        /\ x.cache_refs = d.cache_refs /\ x.inflight_refs = d.inflight_refs
    BY <1>1, <1>6, <2>1 DEF PageMeta, PageState
  <2>3. x.cache_refs \in Nat /\ x.inflight_refs \in Nat BY <1>2, <2>2
  <2> HIDE DEF x
  <2>4. PageOK(x, f, r)
    BY <1>4, <2>2, <2>3 DEF PageOK
  <2>5. Listed(m, x, f, r)
    BY <1>4, <2>2, <2>4 DEF Listed
  <2> QED BY Zenon, <1>1, <1>6, <2>2, <2>5 DEF x
<1>7. CASE d.table_refs = 0 /\ d.cache_refs = 0 /\ d.inflight_refs > 0
  <2> DEFINE x == DecTableRef(m)
  <2>1. x = [d EXCEPT !.state = "ReclaimPending"]
    BY <1>2, <1>3, <1>7
  <2>2. x \in PageMeta /\ x.state = "ReclaimPending" /\ x.table_refs = 0 /\ x.cache_refs = 0 /\ x.inflight_refs > 0
        /\ x.cache_refs = d.cache_refs /\ x.inflight_refs = d.inflight_refs
    BY <1>1, <1>7, <2>1 DEF PageMeta, PageState
  <2>3. x.cache_refs \in Nat /\ x.inflight_refs \in Nat BY <1>2, <2>2
  <2> HIDE DEF x
  <2>4. PageOK(x, f, r + 1)
    BY <1>4, <2>2, <2>3 DEF PageOK
  <2>5. Listed(m, x, f, r)
    BY <1>4, <2>2, <2>4 DEF Listed
  <2> QED BY Zenon, <1>1, <1>7, <2>2, <2>5 DEF x
<1>8. CASE d.table_refs = 0 /\ d.cache_refs = 0 /\ d.inflight_refs = 0
  <2> DEFINE x == DecTableRef(m)
  <2>1. x = FreedMeta(d)
    BY <1>2, <1>3, <1>8
  <2>2. x \in PageMeta /\ x.state = "Free" /\ x.table_refs = 0 /\ x.cache_refs = 0 /\ x.inflight_refs = 0
        /\ x.cache_refs = d.cache_refs /\ x.inflight_refs = d.inflight_refs
    BY <1>1, <1>8, <2>1, FreedFields
  <2>3. x.cache_refs \in Nat /\ x.inflight_refs \in Nat BY <1>2, <2>2
  <2> HIDE DEF x
  <2>4. PageOK(x, f + 1, r)
    BY <1>4, <2>2, <2>3 DEF PageOK
  <2>5. Listed(m, x, f, r)
    BY <1>4, <2>2, <2>4 DEF Listed
  <2> QED BY Zenon, <1>1, <1>8, <2>2, <2>5 DEF x
<1> QED BY <1>2, <1>5, <1>6, <1>7, <1>8

\* A free page that is handed out (alloc_pages, plan_cow's reservation).
LEMMA AllocPage ==
    ASSUME NEW m, NEW f, NEW r, PageOK(m, f, r), f > 0
    PROVE  /\ PageOK(AllocMeta(m), f - 1, r)
           /\ m.table_refs = 0
           /\ AllocMeta(m).table_refs = 1
           /\ AllocMeta(m).state = "Private"
           /\ AllocMeta(m).inflight_refs = 0
<1>1. m.state = "Free" /\ m \in PageMeta /\ f = 1 /\ r = 0 /\ m.table_refs = 0
      /\ m.cache_refs = 0 /\ m.inflight_refs = 0
  BY DEF PageOK, PageMeta
<1> QED BY <1>1, AllocFields DEF PageOK

\* A reservation that is returned (release_reserved).
LEMMA ReturnPage ==
    ASSUME NEW m, NEW f, NEW r, PageOK(m, f, r), m.state = "Private", m.inflight_refs = 0
    PROVE  /\ Listed(m, ReleaseReserved(m), f, r)
           /\ ReleaseReserved(m).table_refs = 0
           /\ ReleaseReserved(m).state = "Free"
<1>1. m \in PageMeta /\ f = 0 /\ r = 0 /\ m.cache_refs = 0
  BY DEF PageOK
<1>2. ReleaseReserved(m) \in PageMeta /\ ReleaseReserved(m).state = "Free"
      /\ ReleaseReserved(m).table_refs = 0 /\ ReleaseReserved(m).cache_refs = 0
      /\ ReleaseReserved(m).inflight_refs = 0
  BY <1>1, FreedFields, TableRefFields DEF ReleaseReserved
<1> QED BY <1>1, <1>2 DEF Listed, PageOK

\* A page another table attaches to (refcount_inc, share_prefix).
LEMMA AttachPage ==
    ASSUME NEW m, NEW f, NEW r, PageOK(m, f, r), m.state \in {"Private", "Sealed", "CacheOnly"},
           NEW d \in {RefcountInc(m), SharePrefixInc(m)}
    PROVE  /\ Listed(m, d, f, r)
           /\ d.table_refs = m.table_refs + 1
           /\ d.state # "Private"
           /\ d.inflight_refs = m.inflight_refs
<1>1. m \in PageMeta /\ f = 0 /\ r = 0 /\ m.table_refs + 1 \in Nat
  BY DEF PageOK, PageMeta
<1>2. d \in PageMeta /\ d.state \in {"Sealed", "CacheOnly"} /\ d.table_refs = m.table_refs + 1
      /\ d.cache_refs = m.cache_refs /\ d.inflight_refs = m.inflight_refs
  BY Zenon, <1>1 DEF RefcountInc, SharePrefixInc, PageMeta, PageState
<1>3. m.table_refs \in Nat /\ m.cache_refs \in Nat
  BY <1>1 DEF PageMeta
<1> QED BY <1>1, <1>2, <1>3 DEF Listed, PageOK


-----------------------------------------------------------------------------
(***************************************************************************)
(* Owners                                                                  *)
(***************************************************************************)
LEMMA LogicalPagesFinite == IsFiniteSet(LogicalPages) /\ LogicalPages \subseteq Nat
<1>1. 0 \in Int /\ CapPages - 1 \in Int BY PageAssumption
<1> QED BY <1>1, FS_Interval DEF LogicalPages

LEMMA PlacesFinite == IsFiniteSet(Slots \X LogicalPages)
BY LogicalPagesFinite, PageAssumption, FS_Product

LEMMA OwnersFinite ==
    \A p : /\ IsFiniteSet(Mappings(p)) /\ IsFiniteSet(Reservations(p))
           /\ Cardinality(Mappings(p)) \in Nat /\ Cardinality(Reservations(p)) \in Nat
<1> TAKE p
<1>1. Mappings(p) \in SUBSET (Slots \X LogicalPages) BY DEF Mappings
<1>2. Reservations(p) \in SUBSET (Slots \X LogicalPages) BY DEF Reservations
<1> QED BY <1>1, <1>2, PlacesFinite, FS_Subset, FS_CardinalityType

LEMMA RemoveOne ==
    ASSUME NEW S, IsFiniteSet(S), NEW x \in S
    PROVE  Cardinality(S \ {x}) = Cardinality(S) - 1
BY FS_RemoveElement

LEMMA AddOne ==
    ASSUME NEW S, IsFiniteSet(S), NEW x, x \notin S
    PROVE  Cardinality(S \cup {x}) = Cardinality(S) + 1
BY FS_AddElement

\* A page without table references is mapped and reserved nowhere.
LEMMA Unowned ==
    ASSUME TableRefsExact, NEW p \in Pages, meta[p].table_refs = 0
    PROVE  Mappings(p) = {} /\ Reservations(p) = {}
<1>1. Cardinality(Mappings(p)) + Cardinality(Reservations(p)) = 0 BY DEF TableRefsExact
<1>2. Cardinality(Mappings(p)) = 0 /\ Cardinality(Reservations(p)) = 0
  BY <1>1, OwnersFinite
<1> QED BY <1>2, OwnersFinite, FS_EmptySet

LEMMA NotMapped ==
    ASSUME NEW p, Mappings(p) = {}, NEW t \in Slots, NEW q \in LogicalPages
    PROVE  block_tables[t][q] # p
<1>1. <<t, q>> \in Slots \X LogicalPages OBVIOUS
<1>2. <<t, q>> \notin Mappings(p) OBVIOUS
<1> QED BY <1>1, <1>2 DEF Mappings

LEMMA NotReserved ==
    ASSUME NEW p, Reservations(p) = {}, NEW t \in Slots, NEW q \in LogicalPages
    PROVE  cow_plans[t][q].dst_phys # p
<1>1. <<t, q>> \in Slots \X LogicalPages OBVIOUS
<1>2. <<t, q>> \notin Reservations(p) OBVIOUS
<1> QED BY <1>1, <1>2 DEF Reservations

\* A page some table maps has a table reference and is resident.
LEMMA MappedPage ==
    ASSUME IInv, NEW s \in Slots, NEW lp \in LogicalPages, block_tables[s][lp] # NoPage
    PROVE  LET p == block_tables[s][lp] IN
           /\ p \in Pages
           /\ <<s, lp>> \in Mappings(p)
           /\ meta[p].table_refs \in Nat /\ meta[p].table_refs > 0
           /\ meta[p].state \in {"Private", "Sealed", "CacheOnly"}
<1> DEFINE p == block_tables[s][lp]
<1>1. p \in Pages BY DEF IInv, TablesOK
<1>2. <<s, lp>> \in Mappings(p) BY DEF Mappings
<1>3. Mappings(p) # {} BY <1>2
<1>4. Cardinality(Mappings(p)) # 0 BY <1>3, OwnersFinite, FS_EmptySet
<1>5. meta[p].table_refs = Cardinality(Mappings(p)) + Cardinality(Reservations(p))
  BY <1>1 DEF IInv, TableRefsExact
<1>6. meta[p].table_refs \in Nat /\ meta[p].table_refs > 0
  BY <1>4, <1>5, OwnersFinite
<1>7. PageOK(meta[p], free_pages[p], reclaim_pending[p]) BY <1>1 DEF IInv, PagesOK
<1>8. meta[p].state \in {"Private", "Sealed", "CacheOnly"}
  BY <1>6, <1>7 DEF PageOK, PageMeta
<1> QED BY <1>1, <1>2, <1>6, <1>8

\* A reserved page is in the arena and no table maps it.
LEMMA ReservedPage ==
    ASSUME IInv, NEW s \in Slots, NEW lp \in Copies(s)
    PROVE  LET c == cow_plans[s][lp] IN
           /\ c.dst_phys \in Pages /\ c.src_phys \in Pages
           /\ lp \in LogicalPages
           /\ \A t \in Slots : \A q \in LogicalPages :
                 /\ block_tables[t][q] # c.dst_phys
                 /\ cow_plans[t][q].dst_phys = c.dst_phys => t = s /\ q = lp
<1> DEFINE c == cow_plans[s][lp]
<1>1. c \in CowCopy /\ lp \in LogicalPages BY DEF IInv, TablesOK, Copies
<1>2. c.dst_phys \in Pages /\ c.src_phys \in Pages BY <1>1 DEF CowCopy
<1>3. Mappings(c.dst_phys) = {} /\ Reservations(c.dst_phys) = {<<s, lp>>}
  BY DEF IInv, PlansReserve
<1>4. ASSUME NEW t \in Slots, NEW q \in LogicalPages
      PROVE  /\ block_tables[t][q] # c.dst_phys
             /\ cow_plans[t][q].dst_phys = c.dst_phys => t = s /\ q = lp
  <2>1. <<t, q>> \notin Mappings(c.dst_phys) BY <1>3
  <2>2. <<t, q>> \in Slots \X LogicalPages OBVIOUS
  <2>3. block_tables[t][q] # c.dst_phys BY <2>1, <2>2 DEF Mappings
  <2>4. ASSUME cow_plans[t][q].dst_phys = c.dst_phys PROVE t = s /\ q = lp
    <3>1. <<t, q>> \in Reservations(c.dst_phys) BY <2>2, <2>4 DEF Reservations
    <3> QED BY <1>3, <3>1
  <2> QED BY <2>3, <2>4
<1> QED BY <1>1, <1>2, <1>4

\* The pages of a table are its first num_pages logical pages.
LEMMA DenseTable ==
    ASSUME IInv, NEW s \in Slots, NEW lp \in LogicalPages
    PROVE  num_pages(s) \in Nat /\ (lp \in Mapped(s) <=> lp < num_pages(s))
<1> DEFINE M == Mapped(s)
<1>0. lp \in Nat /\ M \in SUBSET LogicalPages BY LogicalPagesFinite DEF Mapped
<1>1. IsFiniteSet(M) /\ Cardinality(M) \in Nat
  BY <1>0, LogicalPagesFinite, FS_Subset, FS_CardinalityType
<1>2. ASSUME lp \in M PROVE lp < Cardinality(M)
  <2>1. ASSUME NEW a \in 0..lp PROVE a \in M
    <3>1. a \in LogicalPages /\ a \in Nat /\ a <= lp
      BY <1>0, PageAssumption DEF LogicalPages
    <3>2. block_tables[s][lp] # NoPage BY <1>2 DEF Mapped
    <3>3. a < lp => block_tables[s][a] # NoPage BY <3>1, <3>2 DEF IInv, Dense
    <3>4. a = lp \/ a < lp BY <1>0, <3>1
    <3> QED BY <1>2, <3>1, <3>3, <3>4 DEF Mapped
  <2>2. 0..lp \in SUBSET M BY <2>1
  <2>3. Cardinality(0..lp) <= Cardinality(M) BY Zenon, <1>1, <2>2, FS_Subset
  <2>4. Cardinality(0..lp) = lp + 1 BY <1>0, FS_Interval
  <2>5. lp + 1 <= Cardinality(M) BY <2>3, <2>4
  <2> QED BY <1>0, <1>1, <2>5
<1>3. ASSUME lp \notin M PROVE ~(lp < Cardinality(M))
  <2>1. ASSUME NEW a \in M PROVE a \in 0..(lp - 1)
    <3>1. a \in LogicalPages /\ a \in Nat /\ block_tables[s][a] # NoPage
      BY Zenon, LogicalPagesFinite DEF Mapped
    <3>2. block_tables[s][lp] = NoPage BY <1>3 DEF Mapped
    <3>3. ~(lp < a) BY <3>1, <3>2 DEF IInv, Dense
    <3> QED BY <1>0, <3>1, <3>2, <3>3
  <2>2. M \in SUBSET (0..(lp - 1)) BY <2>1
  <2>3. IsFiniteSet(0..(lp - 1)) /\ Cardinality(0..(lp - 1)) = lp
    BY <1>0, FS_Interval
  <2>4. Cardinality(M) <= lp BY ZenonT(30), <2>2, <2>3, FS_Subset
  <2> QED BY <1>0, <1>1, <2>4
<1> QED BY <1>1, <1>2, <1>3 DEF num_pages


-----------------------------------------------------------------------------
(***************************************************************************)
(* A rewrite of some pages keeps every page in step with the lists.        *)
(***************************************************************************)
\* Each page that gets a new record is Listed with it.
LEMMA RewritePages ==
    ASSUME PagesOK, NEW new, Rewrite(new),
           \A p \in Pages : p \in DOMAIN new =>
               Listed(meta[p], new[p], free_pages[p], reclaim_pending[p])
    PROVE  /\ PagesOK'
           /\ \A p \in Pages : meta'[p] = IF p \in DOMAIN new THEN new[p] ELSE meta[p]
<1>1. \A p \in Pages : meta'[p] = IF p \in DOMAIN new THEN new[p] ELSE meta[p]
  BY DEF Rewrite
<1>2. ASSUME NEW p \in Pages PROVE PageOK(meta'[p], free_pages'[p], reclaim_pending'[p])
  <2>1. CASE p \in DOMAIN new
    BY <2>1 DEF Rewrite, Listed
  <2>2. CASE p \notin DOMAIN new
    BY <2>2 DEF Rewrite, PagesOK
  <2> QED BY <2>1, <2>2
<1>3. /\ meta' = [p \in Pages |-> meta'[p]]
      /\ free_pages' = [p \in Pages |-> free_pages'[p]]
      /\ reclaim_pending' = [p \in Pages |-> reclaim_pending'[p]]
  BY DEF Rewrite
<1> QED BY <1>1, <1>2, <1>3 DEF PagesOK

(***************************************************************************)
(* Unmapping the tail of a table (release, reset, free_pages_from_tail)    *)
(***************************************************************************)
LEMMA Unmap ==
    ASSUME IInv, NEW s \in Slots, NEW L \in SUBSET LogicalPages,
           L \subseteq Mapped(s),
           \A a \in L, b \in Mapped(s) : a < b => b \in L,
           Rewrite([p \in {block_tables[s][lp] : lp \in L} |-> DecTableRef(meta[p])]),
           block_tables' = [block_tables EXCEPT ![s] =
               [lp \in LogicalPages |-> IF lp \in L THEN NoPage ELSE block_tables[s][lp]]],
           live_tokens' \in [Slots -> Nat], in_use' \subseteq Slots, UNCHANGED cow_plans
    PROVE  IInv'
<1> DEFINE S == {block_tables[s][lp] : lp \in L}
<1>1. \A lp \in L : lp \in LogicalPages /\ block_tables[s][lp] # NoPage BY DEF Mapped
<1>2. \A p \in S \cap Pages : /\ PageOK(meta[p], free_pages[p], reclaim_pending[p])
                              /\ meta[p].table_refs > 0
  BY Zenon, <1>1, MappedPage DEF IInv, PagesOK
<1>3. \A p \in S \cap Pages :
          /\ Listed(meta[p], DecTableRef(meta[p]), free_pages[p], reclaim_pending[p])
          /\ DecTableRef(meta[p]).table_refs = meta[p].table_refs - 1
  BY <1>2, DecPage
<1>4. PagesOK' /\ \A p \in Pages : meta'[p] = IF p \in S THEN DecTableRef(meta[p]) ELSE meta[p]
  <2> DEFINE new == [p \in S |-> DecTableRef(meta[p])]
  <2>1. PagesOK BY DEF IInv
  <2>2. Rewrite(new) /\ DOMAIN new = S /\ \A p \in S : new[p] = DecTableRef(meta[p]) OBVIOUS
  <2>3. \A p \in Pages : p \in DOMAIN new =>
            Listed(meta[p], new[p], free_pages[p], reclaim_pending[p])
    BY <1>3, <2>2
  <2> HIDE DEF new
  <2>4. PagesOK' /\ \A p \in Pages : meta'[p] = IF p \in DOMAIN new THEN new[p] ELSE meta[p]
    BY <2>1, <2>2, <2>3, RewritePages
  <2> QED BY <2>2, <2>4
<1>5. TablesOK' BY Zenon DEF IInv, TablesOK
<1>6. \A t \in Slots : \A q \in LogicalPages :
          block_tables'[t][q] = IF t = s /\ q \in L THEN NoPage ELSE block_tables[t][q]
  BY DEF IInv, TablesOK
<1>7. \A p \in Pages : Reservations(p)' = Reservations(p) BY DEF Reservations
<1>8. ASSUME NEW p \in Pages PROVE meta'[p].table_refs =
          Cardinality(Mappings(p)') + Cardinality(Reservations(p)')
  <2>1. meta[p].table_refs = Cardinality(Mappings(p)) + Cardinality(Reservations(p))
    BY DEF IInv, TableRefsExact
  <2>2. CASE p \notin S
    <3>1. Mappings(p)' = Mappings(p)
      BY <1>6, <2>2, PageAssumption DEF Mappings
    <3> QED BY <1>4, <1>7, <2>1, <2>2, <3>1
  <2>3. CASE p \in S
    <3>1. PICK lp \in L : p = block_tables[s][lp] BY <2>3
    <3>2. lp \in LogicalPages /\ p # NoPage BY <1>1, <3>1
    <3>3. <<s, lp>> \in Mappings(p) BY <3>1, <3>2 DEF Mappings
    <3>4. \A q \in LogicalPages : block_tables[s][q] = p => q = lp
      BY <3>1, <3>2 DEF IInv, MapsOnce
    <3>5. Mappings(p)' = Mappings(p) \ {<<s, lp>>}
      BY <1>6, <3>1, <3>2, <3>4 DEF Mappings
    <3>6. IsFiniteSet(Mappings(p)) BY OwnersFinite
    <3>7. Cardinality(Mappings(p) \ {<<s, lp>>}) = Cardinality(Mappings(p)) - 1
      BY <3>3, <3>6, RemoveOne
    <3> QED BY <1>3, <1>4, <1>7, <2>1, <2>3, <3>5, <3>7, OwnersFinite
  <2> QED BY <2>2, <2>3
<1>9. MapsOnce' BY <1>6 DEF IInv, MapsOnce
<1>10. Dense'
  <2> SUFFICES ASSUME NEW t \in Slots, NEW a \in LogicalPages, NEW b \in LogicalPages,
                      a < b, block_tables'[t][b] # NoPage
               PROVE  block_tables'[t][a] # NoPage
    BY DEF Dense
  <2>1. block_tables[t][b] # NoPage /\ ~(t = s /\ b \in L) BY <1>6
  <2>2. block_tables[t][a] # NoPage BY <2>1 DEF IInv, Dense
  <2>3. ~(t = s /\ a \in L) BY <2>1 DEF Mapped
  <2> QED BY <1>6, <2>2, <2>3
<1>11. PlansReserve'
  <2> SUFFICES ASSUME NEW t \in Slots, NEW lp \in Copies(t)
               PROVE  /\ meta'[cow_plans[t][lp].dst_phys].state = "Private"
                      /\ meta'[cow_plans[t][lp].dst_phys].inflight_refs = 0
                      /\ Mappings(cow_plans[t][lp].dst_phys)' = {}
                      /\ Reservations(cow_plans[t][lp].dst_phys)' = {<<t, lp>>}
    BY Zenon DEF PlansReserve, Copies
  <2> DEFINE d == cow_plans[t][lp].dst_phys
  <2>1. lp \in Copies(t) BY DEF Copies
  <2>2. d \in Pages /\ lp \in LogicalPages /\ \A q \in LogicalPages : block_tables[s][q] # d
    BY <2>1, ReservedPage
  <2>3. d \notin S BY <2>2
  <2>4. /\ meta[d].state = "Private" /\ meta[d].inflight_refs = 0
        /\ Mappings(d) = {} /\ Reservations(d) = {<<t, lp>>}
    BY <2>1 DEF IInv, PlansReserve
  <2>5. meta'[d] = meta[d] BY <1>4, <2>2, <2>3
  <2>6. d # NoPage BY <2>2, PageAssumption
  <2>7. Mappings(d)' \subseteq Mappings(d) BY <1>6, <2>6 DEF Mappings
  <2>8. Reservations(d)' = {<<t, lp>>} BY <1>7, <2>2, <2>4
  <2> QED BY <2>4, <2>5, <2>7, <2>8
<1> QED BY <1>4, <1>5, <1>8, <1>9, <1>10, <1>11 DEF IInv, TableRefsExact


(***************************************************************************)
(* Taking pages off the free list                                          *)
(***************************************************************************)
LEMMA AllocatePages ==
    ASSUME IInv, NEW S \in SUBSET FreeList, Allocate(S)
    PROVE  /\ PagesOK'
           /\ \A p \in Pages : meta'[p] = IF p \in S THEN AllocMeta(meta[p]) ELSE meta[p]
           /\ \A p \in S : /\ p \in Pages
                           /\ meta'[p].table_refs = 1 /\ meta'[p].state = "Private"
                           /\ meta'[p].inflight_refs = 0
                           /\ Mappings(p) = {} /\ Reservations(p) = {}
<1>1. \A p \in Pages : meta'[p] = IF p \in S THEN AllocMeta(meta[p]) ELSE meta[p]
  BY DEF Allocate
<1>2. \A p \in S : p \in Pages /\ free_pages[p] > 0 BY DEF FreeList
<1>3. \A p \in Pages : PageOK(meta[p], free_pages[p], reclaim_pending[p]) BY DEF IInv, PagesOK
<1>4. \A p \in S : /\ PageOK(AllocMeta(meta[p]), free_pages[p] - 1, reclaim_pending[p])
                   /\ meta[p].table_refs = 0
                   /\ AllocMeta(meta[p]).table_refs = 1
                   /\ AllocMeta(meta[p]).state = "Private"
                   /\ AllocMeta(meta[p]).inflight_refs = 0
  BY <1>2, <1>3, AllocPage
<1>5. ASSUME NEW p \in Pages PROVE PageOK(meta'[p], free_pages'[p], reclaim_pending'[p])
  <2>1. CASE p \in S BY <1>1, <1>4, <2>1 DEF Allocate
  <2>2. CASE p \notin S BY <1>1, <1>3, <2>2 DEF Allocate
  <2> QED BY <2>1, <2>2
<1>6. PagesOK' BY <1>5 DEF PagesOK, Allocate, IInv
<1>7. \A p \in S : Mappings(p) = {} /\ Reservations(p) = {} BY <1>2, <1>4, Unowned DEF IInv
<1> QED BY <1>1, <1>2, <1>4, <1>6, <1>7

\* Choices hands every logical page its own free page.
LEMMA ChosenPages ==
    ASSUME NEW L, NEW f \in Choices(L)
    PROVE  /\ {f[lp] : lp \in L} \in SUBSET FreeList
           /\ \A a, b \in L : f[a] = f[b] => a = b
           /\ \A a \in L : f[a] \in Pages
BY DEF Choices, FreeList

\* ensure_capacity maps free pages after the last page of the table.
LEMMA MapFresh ==
    ASSUME IInv, NEW s \in Slots, NEW L \in SUBSET LogicalPages,
           \A a \in L : a \notin Mapped(s),
           \A a \in LogicalPages, b \in L : a < b => a \in L \/ a \in Mapped(s),
           NEW f \in Choices(L), Allocate({f[lp] : lp \in L}),
           block_tables' = [block_tables EXCEPT ![s] =
               [lp \in LogicalPages |-> IF lp \in L THEN f[lp] ELSE block_tables[s][lp]]],
           live_tokens' \in [Slots -> Nat], in_use' \subseteq Slots, UNCHANGED cow_plans
    PROVE  IInv'
<1> DEFINE S == {f[lp] : lp \in L}
<1>1. /\ PagesOK'
      /\ \A p \in Pages : meta'[p] = IF p \in S THEN AllocMeta(meta[p]) ELSE meta[p]
      /\ \A p \in S : /\ p \in Pages
                      /\ meta'[p].table_refs = 1 /\ meta'[p].state = "Private"
                      /\ meta'[p].inflight_refs = 0
                      /\ Mappings(p) = {} /\ Reservations(p) = {}
  BY ChosenPages, AllocatePages
<1>2. \A a, b \in L : f[a] = f[b] => a = b BY ChosenPages
<1>3. \A a \in L : f[a] \in Pages /\ f[a] # NoPage BY ChosenPages, PageAssumption
<1>4. TablesOK' BY Zenon, <1>3 DEF IInv, TablesOK
<1>5. \A t \in Slots : \A q \in LogicalPages :
          block_tables'[t][q] = IF t = s /\ q \in L THEN f[q] ELSE block_tables[t][q]
  BY DEF IInv, TablesOK
<1>6. \A p \in Pages : Reservations(p)' = Reservations(p) BY DEF Reservations
<1>7. \A q \in L : block_tables[s][q] = NoPage BY DEF Mapped
<1>8. ASSUME NEW p \in Pages PROVE meta'[p].table_refs =
          Cardinality(Mappings(p)') + Cardinality(Reservations(p)')
  <2>1. CASE p \notin S
    <3>1. Mappings(p)' = Mappings(p) BY <1>5, <1>7, <2>1, PageAssumption DEF Mappings
    <3>2. meta[p].table_refs = Cardinality(Mappings(p)) + Cardinality(Reservations(p))
      BY DEF IInv, TableRefsExact
    <3> QED BY <1>1, <1>6, <2>1, <3>1, <3>2
  <2>2. CASE p \in S
    <3>1. PICK lp \in L : p = f[lp] BY <2>2
    <3>2. \A t \in Slots : \A q \in LogicalPages : block_tables[t][q] # p
      BY <1>1, <2>2, NotMapped
    <3>3. Mappings(p)' = {<<s, lp>>} BY <1>2, <1>5, <3>1, <3>2 DEF Mappings
    <3>4. Reservations(p)' = {} BY <1>1, <1>6, <2>2
    <3>5. Cardinality(Mappings(p)') = 1 BY Zenon, <3>3, FS_Singleton
    <3>6. Cardinality(Reservations(p)') = 0 BY <3>4, FS_EmptySet
    <3> QED BY <1>1, <2>2, <3>5, <3>6
  <2> QED BY <2>1, <2>2
<1>9. MapsOnce'
  <2> SUFFICES ASSUME NEW t \in Slots, NEW a \in LogicalPages, NEW b \in LogicalPages,
                      block_tables'[t][a] = block_tables'[t][b], block_tables'[t][a] # NoPage
               PROVE  a = b
    BY DEF MapsOnce
  <2>1. \A q \in LogicalPages : \A c \in L : block_tables[t][q] # f[c]
    BY ZenonT(30), <1>1, NotMapped
  <2>2. block_tables[t][a] = block_tables[t][b] /\ block_tables[t][a] # NoPage => a = b
    BY DEF IInv, MapsOnce
  <2> QED BY <1>2, <1>5, <2>1, <2>2
<1>10. Dense'
  <2> SUFFICES ASSUME NEW t \in Slots, NEW a \in LogicalPages, NEW b \in LogicalPages,
                      a < b, block_tables'[t][b] # NoPage
               PROVE  block_tables'[t][a] # NoPage
    BY DEF Dense
  <2>1. block_tables[t][b] # NoPage => block_tables[t][a] # NoPage BY DEF IInv, Dense
  <2> QED BY <1>3, <1>5, <2>1 DEF Mapped
<1>11. PlansReserve'
  <2> SUFFICES ASSUME NEW t \in Slots, NEW lp \in Copies(t)
               PROVE  /\ meta'[cow_plans[t][lp].dst_phys].state = "Private"
                      /\ meta'[cow_plans[t][lp].dst_phys].inflight_refs = 0
                      /\ Mappings(cow_plans[t][lp].dst_phys)' = {}
                      /\ Reservations(cow_plans[t][lp].dst_phys)' = {<<t, lp>>}
    BY DEF PlansReserve, Copies
  <2> DEFINE d == cow_plans[t][lp].dst_phys
  <2>1. d \in Pages /\ lp \in LogicalPages BY ReservedPage
  <2>2. /\ meta[d].state = "Private" /\ meta[d].inflight_refs = 0
        /\ Mappings(d) = {} /\ Reservations(d) = {<<t, lp>>}
    BY DEF IInv, PlansReserve
  <2>3. d \notin S BY Zenon, <1>1, <2>2
  <2>4. meta'[d] = meta[d] BY <1>1, <2>1, <2>3
  <2>5. Mappings(d)' \subseteq Mappings(d) BY <1>5, <2>3 DEF Mappings
  <2>6. Reservations(d)' = {<<t, lp>>} BY <1>6, <2>1, <2>2
  <2> QED BY <2>2, <2>4, <2>5, <2>6
<1> QED BY <1>1, <1>4, <1>8, <1>9, <1>10, <1>11 DEF IInv, TableRefsExact


\* plan_cow reserves a page for every immutable page it is to replace.
LEMMA PlanReserves ==
    ASSUME IInv, NEW s \in Slots, NEW L \in SUBSET Mapped(s), cow_plans[s] = NoPlan,
           NEW f \in Choices(L), Allocate({f[lp] : lp \in L}),
           cow_plans' = [cow_plans EXCEPT ![s] = [lp \in LogicalPages |->
               IF lp \in L THEN [src_phys |-> block_tables[s][lp], dst_phys |-> f[lp]]
               ELSE NoCopy]],
           UNCHANGED <<block_tables, live_tokens, in_use>>
    PROVE  IInv'
<1> DEFINE S == {f[lp] : lp \in L}
<1>1. /\ PagesOK'
      /\ \A p \in Pages : meta'[p] = IF p \in S THEN AllocMeta(meta[p]) ELSE meta[p]
      /\ \A p \in S : /\ p \in Pages
                      /\ meta'[p].table_refs = 1 /\ meta'[p].state = "Private"
                      /\ meta'[p].inflight_refs = 0
                      /\ Mappings(p) = {} /\ Reservations(p) = {}
  BY ChosenPages, AllocatePages
<1>2. \A a, b \in L : f[a] = f[b] => a = b BY ChosenPages
<1>3. \A a \in L : a \in LogicalPages /\ f[a] \in Pages /\ block_tables[s][a] \in Pages
  BY Zenon, ChosenPages, MappedPage DEF Mapped
<1>4. \A a \in L : [src_phys |-> block_tables[s][a], dst_phys |-> f[a]] \in CowCopy
  BY <1>3 DEF CowCopy
<1>5. TablesOK' BY <1>4 DEF IInv, TablesOK
<1>6. /\ \A q \in LogicalPages : q \in L =>
             cow_plans'[s][q] = [src_phys |-> block_tables[s][q], dst_phys |-> f[q]]
      /\ \A q \in LogicalPages : q \notin L => cow_plans'[s][q] = NoCopy
      /\ \A t \in Slots : t # s => cow_plans'[t] = cow_plans[t]
  BY DEF IInv, TablesOK
<1>7. \A t \in Slots : \A q \in LogicalPages :
          cow_plans'[t][q].dst_phys = IF t = s THEN (IF q \in L THEN f[q] ELSE NoPage)
                                      ELSE cow_plans[t][q].dst_phys
  <2>1. ASSUME NEW q \in LogicalPages, q \in L PROVE cow_plans'[s][q].dst_phys = f[q]
    <3>1. cow_plans'[s][q] = [src_phys |-> block_tables[s][q], dst_phys |-> f[q]]
      BY <1>6, <2>1
    <3> QED BY <3>1
  <2>2. \A q \in LogicalPages : q \notin L => cow_plans'[s][q].dst_phys = NoPage
    BY <1>6 DEF NoCopy
  <2> QED BY <1>6, <2>1, <2>2
<1>8. \A q \in LogicalPages : cow_plans[s][q].dst_phys = NoPage BY DEF NoPlan, NoCopy
<1>9. \A p \in Pages : Mappings(p)' = Mappings(p) BY DEF Mappings
<1>10. \A p \in Pages : p \notin S => Reservations(p)' = Reservations(p)
  BY <1>7, <1>8, PageAssumption DEF Reservations
<1>11. ASSUME NEW lp \in L PROVE Reservations(f[lp])' = {<<s, lp>>}
  <2>1. \A t \in Slots : \A q \in LogicalPages : cow_plans[t][q].dst_phys # f[lp]
    BY <1>1, NotReserved
  <2>2. f[lp] # NoPage BY <1>3, PageAssumption
  <2> QED BY <1>2, <1>3, <1>7, <2>1, <2>2 DEF Reservations
<1>12. ASSUME NEW p \in Pages PROVE meta'[p].table_refs =
           Cardinality(Mappings(p)') + Cardinality(Reservations(p)')
  <2>1. CASE p \notin S
    BY <1>1, <1>9, <1>10, <2>1 DEF IInv, TableRefsExact
  <2>2. CASE p \in S
    <3>1. PICK lp \in L : p = f[lp] BY <2>2
    <3>2. Mappings(p)' = {} BY <1>1, <1>9, <2>2
    <3>3. Cardinality(Mappings(p)') = 0 BY <3>2, FS_EmptySet
    <3>4. Cardinality(Reservations(p)') = 1 BY Zenon, <1>11, <3>1, FS_Singleton
    <3> QED BY <1>1, <2>2, <3>3, <3>4
  <2> QED BY <2>1, <2>2
<1>13. MapsOnce' /\ Dense' BY DEF IInv, MapsOnce, Dense
<1>14. PlansReserve'
  <2> SUFFICES ASSUME NEW t \in Slots, NEW lp \in LogicalPages, cow_plans'[t][lp] # NoCopy,
                      NEW d, d = cow_plans'[t][lp].dst_phys
               PROVE  /\ meta'[d].state = "Private" /\ meta'[d].inflight_refs = 0
                      /\ Mappings(d)' = {} /\ Reservations(d)' = {<<t, lp>>}
    BY DEF PlansReserve, Copies, Mappings, Reservations
  <2>1. CASE t = s
    <3>1. lp \in L /\ d = f[lp] BY <1>6, <1>7, <2>1
    <3> QED BY <1>1, <1>3, <1>9, <1>11, <2>1, <3>1
  <2>2. CASE t # s
    <3>1. lp \in Copies(t) /\ d = cow_plans[t][lp].dst_phys BY <1>6, <2>2 DEF Copies
    <3>2. d \in Pages BY <3>1, ReservedPage
    <3>3. /\ meta[d].state = "Private" /\ meta[d].inflight_refs = 0
          /\ Mappings(d) = {} /\ Reservations(d) = {<<t, lp>>}
      BY <3>1 DEF IInv, PlansReserve
    <3>4. d \notin S BY Zenon, <1>1, <3>3
    <3> QED BY <1>1, <1>9, <1>10, <3>2, <3>3, <3>4
  <2> QED BY <2>1, <2>2
<1> QED BY <1>1, <1>5, <1>12, <1>13, <1>14 DEF IInv, TableRefsExact

-----------------------------------------------------------------------------
(***************************************************************************)
(* Sharing pages into an empty table                                       *)
(***************************************************************************)
LEMMA AttachStep ==
    ASSUME IInv, NEW dst \in Slots, num_pages(dst) = 0, NEW n \in Nat, n <= CapPages, NEW f,
           \A lp \in 0..(n - 1) : /\ f[lp] \in Pages
                                  /\ meta[f[lp]].state \in {"Private", "Sealed", "CacheOnly"},
           \A a, b \in 0..(n - 1) : f[a] = f[b] => a = b,
           \A lp \in 0..(n - 1) : \A t \in Slots : \A q \in Copies(t) :
               cow_plans[t][q].dst_phys # f[lp],
           NEW new, DOMAIN new = {f[lp] : lp \in 0..(n - 1)},
           \A p \in DOMAIN new : new[p] \in {RefcountInc(meta[p]), SharePrefixInc(meta[p])},
           Attach(dst, n, f, new)
    PROVE  IInv'
<1> DEFINE S == {f[lp] : lp \in 0..(n - 1)}
<1>1. \A p \in S : p \in Pages /\ p # NoPage /\ meta[p].state \in {"Private", "Sealed", "CacheOnly"}
  BY PageAssumption
<1>2. \A p \in S : /\ Listed(meta[p], new[p], free_pages[p], reclaim_pending[p])
                   /\ new[p].table_refs = meta[p].table_refs + 1
                   /\ new[p].state # "Private"
  <2> SUFFICES ASSUME NEW p \in S
               PROVE  /\ Listed(meta[p], new[p], free_pages[p], reclaim_pending[p])
                      /\ new[p].table_refs = meta[p].table_refs + 1
                      /\ new[p].state # "Private"
    OBVIOUS
  <2>1. PageOK(meta[p], free_pages[p], reclaim_pending[p]) BY <1>1 DEF IInv, PagesOK
  <2>2. new[p] \in {RefcountInc(meta[p]), SharePrefixInc(meta[p])} OBVIOUS
  <2> HIDE DEF S
  <2> QED BY <1>1, <2>1, <2>2, AttachPage
<1>3. PagesOK' /\ \A p \in Pages : meta'[p] = IF p \in S THEN new[p] ELSE meta[p]
  BY <1>2, RewritePages DEF IInv, Attach
<1>4. UNCHANGED cow_plans /\ in_use' = in_use BY DEF Attach
<1>5. \A q \in LogicalPages : block_tables[dst][q] = NoPage
  <2> SUFFICES ASSUME NEW q \in LogicalPages PROVE block_tables[dst][q] = NoPage OBVIOUS
  <2>1. ~(q < num_pages(dst)) BY LogicalPagesFinite
  <2>2. q \notin Mapped(dst) BY <2>1, DenseTable
  <2> QED BY <2>2 DEF Mapped
<1>6. \A q \in LogicalPages : q < n <=> q \in 0..(n - 1)
  BY LogicalPagesFinite
<1>7. \A t \in Slots : \A q \in LogicalPages : block_tables'[t][q] =
          IF t = dst THEN (IF q < n THEN f[q] ELSE NoPage) ELSE block_tables[t][q]
  BY DEF IInv, TablesOK, Attach
<1>8. n * PAGE_TOKENS \in Nat BY PageAssumption
<1>9. TablesOK'
  <2>1. block_tables' \in [Slots -> [LogicalPages -> Pages \cup {NoPage}]]
    BY <1>1, <1>6 DEF IInv, TablesOK, Attach
  <2>2. live_tokens' \in [Slots -> Nat] BY <1>8 DEF IInv, TablesOK, Attach
  <2> QED BY <1>4, <2>1, <2>2 DEF IInv, TablesOK
<1>10. \A p \in Pages : Reservations(p)' = Reservations(p) BY <1>4 DEF Reservations
<1>11. ASSUME NEW p \in Pages PROVE meta'[p].table_refs =
           Cardinality(Mappings(p)') + Cardinality(Reservations(p)')
  <2>1. meta[p].table_refs = Cardinality(Mappings(p)) + Cardinality(Reservations(p))
    BY DEF IInv, TableRefsExact
  <2>2. CASE p \notin S
    <3>1. Mappings(p)' = Mappings(p)
      BY <1>5, <1>6, <1>7, <2>2, PageAssumption DEF Mappings
    <3> QED BY <1>3, <1>10, <2>1, <2>2, <3>1
  <2>3. CASE p \in S
    <3>1. PICK lp \in 0..(n - 1) : p = f[lp] BY <2>3
    <3>2. lp \in LogicalPages /\ lp < n BY PageAssumption DEF LogicalPages
    <3>3. <<dst, lp>> \notin Mappings(p) BY <1>1, <1>5, <2>3, <3>2 DEF Mappings
    <3>4. \A q \in LogicalPages : q < n /\ f[q] = p => q = lp BY <1>6, <3>1
    <3>5. Mappings(p)' = Mappings(p) \cup {<<dst, lp>>}
      <4>1. \A t \in Slots : \A q \in LogicalPages :
                block_tables'[t][q] = p <=> block_tables[t][q] = p \/ (t = dst /\ q = lp)
        BY <1>1, <1>5, <1>7, <2>3, <3>1, <3>2, <3>4
      <4>2. <<dst, lp>> \in Slots \X LogicalPages BY <3>2
      <4>3. \A o \in Slots \X LogicalPages : o = <<o[1], o[2]>> OBVIOUS
      <4>4. \A o \in Slots \X LogicalPages :
                o \in Mappings(p)' <=> o \in Mappings(p) \/ o = <<dst, lp>>
        BY <4>1, <4>3 DEF Mappings
      <4>5. Mappings(p)' \subseteq Slots \X LogicalPages /\ Mappings(p) \subseteq Slots \X LogicalPages
        BY DEF Mappings
      <4> QED BY <4>2, <4>4, <4>5
    <3>6. IsFiniteSet(Mappings(p)) BY OwnersFinite
    <3>7. Cardinality(Mappings(p) \cup {<<dst, lp>>}) = Cardinality(Mappings(p)) + 1
      BY <3>3, <3>6, AddOne
    <3> QED BY <1>2, <1>3, <1>10, <2>1, <2>3, <3>5, <3>7, OwnersFinite
  <2> QED BY <2>2, <2>3
<1>12. MapsOnce'
  <2> SUFFICES ASSUME NEW t \in Slots, NEW a \in LogicalPages, NEW b \in LogicalPages,
                      block_tables'[t][a] = block_tables'[t][b], block_tables'[t][a] # NoPage
               PROVE  a = b
    BY DEF MapsOnce
  <2>1. CASE t = dst BY <1>6, <1>7, <2>1
  <2>2. CASE t # dst BY <1>7, <2>2 DEF IInv, MapsOnce
  <2> QED BY <2>1, <2>2
<1>13. Dense'
  <2> SUFFICES ASSUME NEW t \in Slots, NEW a \in LogicalPages, NEW b \in LogicalPages,
                      a < b, block_tables'[t][b] # NoPage
               PROVE  block_tables'[t][a] # NoPage
    BY DEF Dense
  <2>1. CASE t = dst
    <3>1. b < n BY <1>7, <2>1
    <3>2. a < n BY <3>1, LogicalPagesFinite
    <3> QED BY <1>1, <1>6, <1>7, <2>1, <3>2
  <2>2. CASE t # dst BY <1>7, <2>2 DEF IInv, Dense
  <2> QED BY <2>1, <2>2
<1>14. PlansReserve'
  <2> SUFFICES ASSUME NEW t \in Slots, NEW lp \in Copies(t),
                      NEW d, d = cow_plans[t][lp].dst_phys
               PROVE  /\ meta'[d].state = "Private" /\ meta'[d].inflight_refs = 0
                      /\ Mappings(d)' = {} /\ Reservations(d)' = {<<t, lp>>}
    BY <1>4 DEF PlansReserve, Copies, Mappings, Reservations
  <2>1. d \in Pages BY ReservedPage
  <2>2. /\ meta[d].state = "Private" /\ meta[d].inflight_refs = 0
        /\ Mappings(d) = {} /\ Reservations(d) = {<<t, lp>>}
    BY DEF IInv, PlansReserve
  <2>3. d \notin S OBVIOUS
  <2>4. d # NoPage BY <2>1, PageAssumption
  <2>5. Mappings(d)' \subseteq Mappings(d) BY <1>6, <1>7, <2>3, <2>4 DEF Mappings
  <2> QED BY <1>3, <1>10, <2>1, <2>2, <2>3, <2>5
<1> QED BY <1>3, <1>9, <1>11, <1>12, <1>13, <1>14 DEF IInv, TableRefsExact


(***************************************************************************)
(* Committing and returning a plan                                         *)
(***************************************************************************)
LEMMA CommitStep ==
    ASSUME IInv, NEW s \in Slots, commit_cow(s)
    PROVE  IInv'
<1> DEFINE S == Sources(s)
           L == Copies(s)
           src(lp) == cow_plans[s][lp].src_phys
           dst(lp) == cow_plans[s][lp].dst_phys
<1>1. \A lp \in L : /\ lp \in LogicalPages /\ block_tables[s][lp] = src(lp)
                    /\ src(lp) \in Pages /\ dst(lp) \in Pages
                    /\ src(lp) # NoPage /\ dst(lp) # NoPage
  BY ReservedPage, PageAssumption DEF commit_cow, StillMapped
<1>2. \A lp \in L : \A t \in Slots : \A q \in LogicalPages :
          /\ block_tables[t][q] # dst(lp)
          /\ cow_plans[t][q].dst_phys = dst(lp) => t = s /\ q = lp
  BY ReservedPage
<1>3. \A p \in S : p \in Pages /\ meta[p].table_refs > 0
  BY Zenon, <1>1, MappedPage DEF Sources
<1>4. \A p \in S : /\ Listed(meta[p], DecTableRef(meta[p]), free_pages[p], reclaim_pending[p])
                   /\ DecTableRef(meta[p]).table_refs = meta[p].table_refs - 1
  BY <1>3, DecPage DEF IInv, PagesOK
<1>5. PagesOK' /\ \A p \in Pages : meta'[p] = IF p \in S THEN DecTableRef(meta[p]) ELSE meta[p]
  <2> DEFINE new == [p \in S |-> DecTableRef(meta[p])]
  <2>1. PagesOK BY DEF IInv
  <2>2. Rewrite(new) /\ DOMAIN new = S /\ \A p \in S : new[p] = DecTableRef(meta[p])
    BY DEF commit_cow
  <2>3. \A p \in Pages : p \in DOMAIN new =>
            Listed(meta[p], new[p], free_pages[p], reclaim_pending[p])
    BY <1>4, <2>2
  <2> HIDE DEF new
  <2>4. PagesOK' /\ \A p \in Pages : meta'[p] = IF p \in DOMAIN new THEN new[p] ELSE meta[p]
    BY <2>1, <2>2, <2>3, RewritePages
  <2> QED BY <2>2, <2>4
<1>6. \A t \in Slots : \A q \in LogicalPages : block_tables'[t][q] =
          IF t = s /\ q \in L THEN dst(q) ELSE block_tables[t][q]
  BY DEF IInv, TablesOK, commit_cow
<1>7. \A q \in LogicalPages : cow_plans'[s][q] = NoCopy
  BY DEF IInv, TablesOK, commit_cow, NoPlan
<1>8. \A t \in Slots : t # s => cow_plans'[t] = cow_plans[t]
  BY DEF IInv, TablesOK, commit_cow
<1>9. TablesOK'
  <2>1. block_tables' \in [Slots -> [LogicalPages -> Pages \cup {NoPage}]]
    BY <1>1 DEF IInv, TablesOK, commit_cow
  <2>2. NoPlan \in [LogicalPages -> CowCopy \cup {NoCopy}] BY DEF NoPlan
  <2>3. cow_plans' \in [Slots -> [LogicalPages -> CowCopy \cup {NoCopy}]]
    BY <2>2 DEF IInv, TablesOK, commit_cow
  <2> QED BY <2>1, <2>3 DEF IInv, TablesOK, commit_cow
<1>10. \A q \in LogicalPages : cow_plans'[s][q].dst_phys = NoPage BY <1>7 DEF NoCopy
<1>11. \A t \in Slots : \A q \in LogicalPages : t = s /\ q \notin L => cow_plans[t][q].dst_phys = NoPage
  BY DEF Copies, NoCopy
<1> HIDE DEF src, dst, L, S
<1>12. ASSUME NEW p \in Pages PROVE meta'[p].table_refs =
           Cardinality(Mappings(p)') + Cardinality(Reservations(p)')
  <2>1. meta[p].table_refs = Cardinality(Mappings(p)) + Cardinality(Reservations(p))
    BY DEF IInv, TableRefsExact
  <2>2. CASE \E lp \in L : p = dst(lp)
    <3>1. PICK lp \in L : p = dst(lp) BY <2>2
    <3>2. p \notin S BY <1>1, <1>2, <3>1 DEF S, L, src, Sources
    <3>3. Mappings(p) = {} /\ Reservations(p) = {<<s, lp>>}
      BY <3>1 DEF IInv, PlansReserve, L, dst
    <3>4. \A t \in Slots : \A q \in LogicalPages : block_tables'[t][q] = p <=> t = s /\ q = lp
      BY <1>1, <1>2, <1>6, <3>1 DEF dst
    <3>5. Mappings(p)' = {<<s, lp>>} BY <1>1, <3>4 DEF Mappings
    <3>6. \A t \in Slots : \A q \in LogicalPages : cow_plans'[t][q].dst_phys # p
      BY <1>1, <1>2, <1>8, <1>10, <3>1 DEF dst
    <3>7. Reservations(p)' = {} BY <3>6 DEF Reservations
    <3>8. Cardinality(Mappings(p)') = 1 /\ Cardinality(Reservations(p)') = 0
      BY Zenon, <3>5, <3>7, FS_Singleton, FS_EmptySet
    <3>9. Cardinality(Mappings(p)) = 0 /\ Cardinality(Reservations(p)) = 1
      BY Zenon, <3>3, FS_Singleton, FS_EmptySet
    <3> QED BY <1>5, <2>1, <3>2, <3>8, <3>9
  <2>3. CASE ~\E lp \in L : p = dst(lp)
    <3>1. \A t \in Slots : \A q \in LogicalPages :
              cow_plans'[t][q].dst_phys = p <=> cow_plans[t][q].dst_phys = p
      BY <1>8, <1>10, <1>11, <2>3, PageAssumption DEF dst
    <3>2. Reservations(p)' = Reservations(p) BY <3>1 DEF Reservations
    <3>3. CASE p \notin S
      <4>1. \A t \in Slots : \A q \in LogicalPages :
                block_tables'[t][q] = p <=> block_tables[t][q] = p
        BY <1>1, <1>6, <2>3, <3>3 DEF S, Sources, src, L
      <4>2. Mappings(p)' = Mappings(p) BY <4>1 DEF Mappings
      <4> QED BY <1>5, <2>1, <3>2, <3>3, <4>2
    <3>4. CASE p \in S
      <4>1. PICK lp \in L : p = src(lp) BY <3>4 DEF S, Sources, L, src
      <4>2. lp \in LogicalPages /\ block_tables[s][lp] = p /\ p # NoPage BY <1>1, <4>1
      <4>3. \A q \in LogicalPages : block_tables[s][q] = p => q = lp
        BY <4>2 DEF IInv, MapsOnce
      <4>4. \A t \in Slots : \A q \in LogicalPages :
                block_tables'[t][q] = p <=> block_tables[t][q] = p /\ ~(t = s /\ q = lp)
        BY <1>6, <2>3, <4>1, <4>2, <4>3
      <4>5. Mappings(p)' = Mappings(p) \ {<<s, lp>>} BY <4>4 DEF Mappings
      <4>6. <<s, lp>> \in Mappings(p) BY <4>2 DEF Mappings
      <4>7. IsFiniteSet(Mappings(p)) BY OwnersFinite
      <4>8. Cardinality(Mappings(p) \ {<<s, lp>>}) = Cardinality(Mappings(p)) - 1
        BY <4>6, <4>7, RemoveOne
      <4> QED BY <1>4, <1>5, <2>1, <3>2, <3>4, <4>5, <4>8, OwnersFinite
    <3> QED BY <3>3, <3>4
  <2> QED BY <2>2, <2>3
<1>13. MapsOnce'
  <2> SUFFICES ASSUME NEW t \in Slots, NEW a \in LogicalPages, NEW b \in LogicalPages,
                      block_tables'[t][a] = block_tables'[t][b], block_tables'[t][a] # NoPage
               PROVE  a = b
    BY DEF MapsOnce
  <2>1. block_tables[t][a] = block_tables[t][b] /\ block_tables[t][a] # NoPage => a = b
    BY DEF IInv, MapsOnce
  <2>2. \A x, y \in L : dst(x) = dst(y) => x = y
    BY <1>1, <1>2 DEF dst
  <2> QED BY <1>1, <1>2, <1>6, <2>1, <2>2
<1>14. Dense'
  <2> SUFFICES ASSUME NEW t \in Slots, NEW a \in LogicalPages, NEW b \in LogicalPages,
                      a < b, block_tables'[t][b] # NoPage
               PROVE  block_tables'[t][a] # NoPage
    BY DEF Dense
  <2>1. block_tables[t][b] # NoPage BY <1>1, <1>6
  <2>2. block_tables[t][a] # NoPage BY <2>1 DEF IInv, Dense
  <2> QED BY <1>1, <1>6, <2>2
<1>15. PlansReserve'
  <2> SUFFICES ASSUME NEW t \in Slots, NEW lp \in LogicalPages, cow_plans'[t][lp] # NoCopy,
                      NEW d, d = cow_plans'[t][lp].dst_phys
               PROVE  /\ meta'[d].state = "Private" /\ meta'[d].inflight_refs = 0
                      /\ Mappings(d)' = {} /\ Reservations(d)' = {<<t, lp>>}
    BY DEF PlansReserve, Copies, Mappings, Reservations
  <2>1. t # s BY <1>7
  <2>2. lp \in Copies(t) /\ d = cow_plans[t][lp].dst_phys BY <1>8, <2>1 DEF Copies
  <2>3. d \in Pages /\ d # NoPage BY <2>2, ReservedPage, PageAssumption
  <2>4. /\ meta[d].state = "Private" /\ meta[d].inflight_refs = 0
        /\ Mappings(d) = {} /\ Reservations(d) = {<<t, lp>>}
    BY <2>2 DEF IInv, PlansReserve
  <2>5. \A q \in L : d # dst(q) BY <1>2, <2>1, <2>2
  <2>6. \A u \in Slots : \A q \in LogicalPages : block_tables[u][q] # d
    BY <2>4, NotMapped
  <2>7. d \notin S BY <1>1, <2>6 DEF S, Sources, src, L
  <2>8. \A u \in Slots : \A q \in LogicalPages : block_tables'[u][q] # d
    BY <1>6, <2>5, <2>6
  <2>9. Mappings(d)' = {} BY <2>8 DEF Mappings
  <2>10. \A u \in Slots : \A q \in LogicalPages :
             cow_plans'[u][q].dst_phys = d <=> cow_plans[u][q].dst_phys = d
    BY <1>8, <1>10, <1>11, <2>3, <2>5 DEF dst
  <2>11. Reservations(d)' = Reservations(d) BY <2>10 DEF Reservations
  <2> QED BY <1>5, <2>3, <2>4, <2>7, <2>9, <2>11
<1> QED BY <1>5, <1>9, <1>12, <1>13, <1>14, <1>15 DEF IInv, TableRefsExact


LEMMA ReturnStep ==
    ASSUME IInv, NEW s \in Slots, ReturnReservations(s)
    PROVE  IInv'
<1> DEFINE S == Reserved(s)
           L == Copies(s)
           dst(lp) == cow_plans[s][lp].dst_phys
<1>1. \A lp \in L : lp \in LogicalPages /\ dst(lp) \in Pages
  BY ReservedPage
<1>2. \A lp \in L : \A t \in Slots : \A q \in LogicalPages :
          cow_plans[t][q].dst_phys = dst(lp) => t = s /\ q = lp
  BY ReservedPage
<1>3. \A p \in S : \E lp \in L : p = dst(lp) BY DEF Reserved
<1>4. \A lp \in L : /\ meta[dst(lp)].state = "Private" /\ meta[dst(lp)].inflight_refs = 0
                    /\ Mappings(dst(lp)) = {}
  BY DEF IInv, PlansReserve
<1>5. \A p \in S : /\ p \in Pages
                   /\ Listed(meta[p], ReleaseReserved(meta[p]), free_pages[p], reclaim_pending[p])
                   /\ ReleaseReserved(meta[p]).table_refs = 0
  <2> SUFFICES ASSUME NEW p \in S
               PROVE  /\ p \in Pages
                      /\ Listed(meta[p], ReleaseReserved(meta[p]), free_pages[p], reclaim_pending[p])
                      /\ ReleaseReserved(meta[p]).table_refs = 0
    OBVIOUS
  <2>1. p \in Pages /\ meta[p].state = "Private" /\ meta[p].inflight_refs = 0
    BY <1>1, <1>3, <1>4
  <2>2. PageOK(meta[p], free_pages[p], reclaim_pending[p]) BY <2>1 DEF IInv, PagesOK
  <2> QED BY <2>1, <2>2, ReturnPage
<1>6. PagesOK' /\ \A p \in Pages : meta'[p] = IF p \in S THEN ReleaseReserved(meta[p]) ELSE meta[p]
  <2> DEFINE new == [p \in S |-> ReleaseReserved(meta[p])]
  <2>1. PagesOK BY DEF IInv
  <2>2. Rewrite(new) /\ DOMAIN new = S /\ \A p \in S : new[p] = ReleaseReserved(meta[p])
    BY DEF ReturnReservations
  <2>3. \A p \in Pages : p \in DOMAIN new =>
            Listed(meta[p], new[p], free_pages[p], reclaim_pending[p])
    BY <1>5, <2>2
  <2> HIDE DEF new
  <2>4. PagesOK' /\ \A p \in Pages : meta'[p] = IF p \in DOMAIN new THEN new[p] ELSE meta[p]
    BY <2>1, <2>2, <2>3, RewritePages
  <2> QED BY <2>2, <2>4
<1>7. \A q \in LogicalPages : cow_plans'[s][q] = NoCopy
  BY DEF IInv, TablesOK, ReturnReservations, NoPlan
<1>8. \A t \in Slots : t # s => cow_plans'[t] = cow_plans[t]
  BY DEF IInv, TablesOK, ReturnReservations
<1>9. TablesOK'
  <2>1. NoPlan \in [LogicalPages -> CowCopy \cup {NoCopy}] BY DEF NoPlan
  <2>2. cow_plans' \in [Slots -> [LogicalPages -> CowCopy \cup {NoCopy}]]
    BY <2>1 DEF IInv, TablesOK, ReturnReservations
  <2> QED BY <2>2 DEF IInv, TablesOK, ReturnReservations, tables
<1>10. \A q \in LogicalPages : cow_plans'[s][q].dst_phys = NoPage BY <1>7 DEF NoCopy
<1>11. \A q \in LogicalPages : q \notin L => cow_plans[s][q].dst_phys = NoPage
  BY DEF Copies, NoCopy
<1>12. UNCHANGED block_tables BY DEF ReturnReservations, tables
<1>13. \A p \in Pages : Mappings(p)' = Mappings(p) BY <1>12 DEF Mappings
<1>14. \A lp \in L : dst(lp) \in S BY DEF Reserved
<1> HIDE DEF dst, L, S
<1>15. ASSUME NEW p \in Pages PROVE meta'[p].table_refs =
           Cardinality(Mappings(p)') + Cardinality(Reservations(p)')
  <2>1. CASE p \in S
    <3>1. PICK lp \in L : p = dst(lp) BY <1>3, <2>1
    <3>2. \A t \in Slots : \A q \in LogicalPages : cow_plans'[t][q].dst_phys # p
      BY <1>1, <1>2, <1>8, <1>10, <3>1, PageAssumption
    <3>3. Reservations(p)' = {} BY <3>2 DEF Reservations
    <3>4. Mappings(p)' = {} BY <1>4, <1>13, <3>1
    <3>5. Cardinality(Mappings(p)') = 0 /\ Cardinality(Reservations(p)') = 0
      BY <3>3, <3>4, FS_EmptySet
    <3> QED BY <1>5, <1>6, <2>1, <3>5
  <2>2. CASE p \notin S
    <3>1. \A t \in Slots : \A q \in LogicalPages :
              cow_plans'[t][q].dst_phys = p <=> cow_plans[t][q].dst_phys = p
      BY <1>8, <1>10, <1>11, <1>14, <2>2, PageAssumption DEF dst
    <3>2. Reservations(p)' = Reservations(p) BY <3>1 DEF Reservations
    <3> QED BY <1>6, <1>13, <2>2, <3>2 DEF IInv, TableRefsExact
  <2> QED BY <2>1, <2>2
<1>16. MapsOnce' /\ Dense' BY <1>12 DEF IInv, MapsOnce, Dense
<1>17. PlansReserve'
  <2> SUFFICES ASSUME NEW t \in Slots, NEW lp \in LogicalPages, cow_plans'[t][lp] # NoCopy,
                      NEW d, d = cow_plans'[t][lp].dst_phys
               PROVE  /\ meta'[d].state = "Private" /\ meta'[d].inflight_refs = 0
                      /\ Mappings(d)' = {} /\ Reservations(d)' = {<<t, lp>>}
    BY DEF PlansReserve, Copies, Mappings, Reservations
  <2>1. t # s BY <1>7
  <2>2. lp \in Copies(t) /\ d = cow_plans[t][lp].dst_phys BY <1>8, <2>1 DEF Copies
  <2>3. d \in Pages /\ d # NoPage BY <2>2, ReservedPage, PageAssumption
  <2>4. /\ meta[d].state = "Private" /\ meta[d].inflight_refs = 0
        /\ Mappings(d) = {} /\ Reservations(d) = {<<t, lp>>}
    BY <2>2 DEF IInv, PlansReserve
  <2>5. \A q \in L : d # dst(q) BY <1>2, <2>1, <2>2
  <2>6. d \notin S BY <1>3, <2>5
  <2>7. \A u \in Slots : \A q \in LogicalPages :
             cow_plans'[u][q].dst_phys = d <=> cow_plans[u][q].dst_phys = d
    BY <1>8, <1>10, <1>11, <2>3, <2>5 DEF dst
  <2>8. Reservations(d)' = Reservations(d) BY <2>7 DEF Reservations
  <2> QED BY <1>6, <1>13, <2>3, <2>4, <2>6, <2>8
<1> QED BY <1>6, <1>9, <1>15, <1>16, <1>17 DEF IInv, TableRefsExact

(***************************************************************************)
(* Steps that leave the tables and the plans alone                         *)
(***************************************************************************)
\* Reference counts of the tables unchanged, reserved pages untouched.
LEMMA MetaStep ==
    ASSUME IInv, UNCHANGED <<in_use, tables, cow_plans>>, PagesOK',
           \A p \in Pages : meta'[p].table_refs = meta[p].table_refs,
           \A s \in Slots : \A lp \in Copies(s) :
               meta'[cow_plans[s][lp].dst_phys] = meta[cow_plans[s][lp].dst_phys]
    PROVE  IInv'
<1>1. TablesOK' /\ MapsOnce' /\ Dense' BY DEF IInv, TablesOK, MapsOnce, Dense, tables
<1>2. \A p : Mappings(p)' = Mappings(p) /\ Reservations(p)' = Reservations(p)
  BY DEF Mappings, Reservations, tables
<1>3. TableRefsExact' BY <1>2 DEF IInv, TableRefsExact
<1>4. PlansReserve'
  <2> SUFFICES ASSUME NEW s \in Slots, NEW lp \in Copies(s),
                      NEW d, d = cow_plans[s][lp].dst_phys
               PROVE  /\ meta'[d].state = "Private" /\ meta'[d].inflight_refs = 0
                      /\ Mappings(d) = {} /\ Reservations(d) = {<<s, lp>>}
    BY <1>2 DEF PlansReserve, Copies
  <2> QED BY DEF IInv, PlansReserve
<1> QED BY <1>1, <1>3, <1>4 DEF IInv

\* A page a table maps, or that is not Private, is not reserved.
LEMMA NotADestination ==
    ASSUME IInv, NEW p \in Pages, OnTable(p) \/ meta[p].state # "Private",
           NEW s \in Slots, NEW lp \in Copies(s)
    PROVE  cow_plans[s][lp].dst_phys # p
<1>1. CASE OnTable(p)
  <2>1. PICK t \in Slots, q \in LogicalPages : block_tables[t][q] = p
    BY <1>1 DEF OnTable, TablePages, Mapped
  <2> QED BY <2>1, ReservedPage
<1>2. CASE meta[p].state # "Private" BY <1>2 DEF IInv, PlansReserve
<1> QED BY <1>1, <1>2


\* One page changes, and stays in step with the lists.
LEMMA OnePage ==
    ASSUME IInv, NEW p \in Pages, NEW x, Rewrite([q \in {p} |-> x]),
           Listed(meta[p], x, free_pages[p], reclaim_pending[p])
    PROVE  PagesOK' /\ \A q \in Pages : meta'[q] = IF q = p THEN x ELSE meta[q]
<1> DEFINE new == [q \in {p} |-> x]
<1>1. PagesOK BY DEF IInv
<1>2. Rewrite(new) /\ DOMAIN new = {p} /\ new[p] = x OBVIOUS
<1>3. \A q \in Pages : q \in DOMAIN new =>
          Listed(meta[q], new[q], free_pages[q], reclaim_pending[q])
  BY <1>2
<1> HIDE DEF new
<1>4. PagesOK' /\ \A q \in Pages : meta'[q] = IF q \in DOMAIN new THEN new[q] ELSE meta[q]
  BY <1>1, <1>2, <1>3, RewritePages
<1> QED BY <1>2, <1>4

LEMMA AddCacheStep ==
    ASSUME IInv, NEW p \in Pages, add_cache_ref(p)
    PROVE  IInv'
<1> DEFINE m == meta[p]
           x == AddCacheRef(m)
<1>1. PageOK(m, free_pages[p], reclaim_pending[p]) BY DEF IInv, PagesOK
<1>2. m \in PageMeta /\ m.state \in {"Private", "Sealed", "CacheOnly"} /\ m.cache_refs + 1 \in Nat
      /\ free_pages[p] = 0 /\ reclaim_pending[p] = 0
  BY <1>1 DEF PageOK, PageMeta, PageState, add_cache_ref, Attachable
<1>3. x \in PageMeta /\ x.state \in {"Sealed", "CacheOnly"} /\ x.table_refs = m.table_refs
      /\ x.cache_refs = m.cache_refs + 1
  BY Zenon, <1>2 DEF AddCacheRef, PageMeta, PageState
<1>4. m.table_refs \in Nat /\ m.cache_refs \in Nat BY <1>2 DEF PageMeta
<1>5. Rewrite([q \in {p} |-> x]) /\ UNCHANGED <<in_use, tables, cow_plans>> /\ OnTable(p)
  BY DEF add_cache_ref
<1> HIDE DEF x
<1>6. Listed(m, x, free_pages[p], reclaim_pending[p])
  BY <1>2, <1>3, <1>4 DEF Listed, PageOK
<1>7. PagesOK' /\ \A q \in Pages : meta'[q] = IF q = p THEN x ELSE meta[q]
  BY Zenon, <1>5, <1>6, OnePage
<1>8. \A s \in Slots : \A lp \in Copies(s) :
          meta'[cow_plans[s][lp].dst_phys] = meta[cow_plans[s][lp].dst_phys]
  BY <1>5, <1>7, NotADestination, ReservedPage
<1>9. \A q \in Pages : meta'[q].table_refs = meta[q].table_refs BY <1>3, <1>7
<1> QED BY <1>5, <1>7, <1>8, <1>9, MetaStep

LEMMA ReleaseCachePage ==
    ASSUME NEW m, NEW f, NEW r, PageOK(m, f, r), m.cache_refs > 0
    PROVE  /\ Listed(m, ReleaseCacheRef(m), f, r)
           /\ ReleaseCacheRef(m).table_refs = m.table_refs
           /\ ReleaseCacheRef(m).state # "Private"
           /\ m.state # "Private"
<1> DEFINE d == [m EXCEPT !.cache_refs = m.cache_refs - 1]
           x == ReleaseCacheRef(m)
<1>0. m \in PageMeta BY DEF PageOK
<1>1. m.cache_refs - 1 \in Nat BY <1>0 DEF PageMeta
<1>2. d \in PageMeta /\ d.cache_refs = m.cache_refs - 1 /\ d.table_refs = m.table_refs
      /\ d.inflight_refs = m.inflight_refs /\ d.state = m.state
  BY <1>0, <1>1 DEF PageMeta
<1>3. d.table_refs \in Nat /\ d.cache_refs \in Nat /\ d.inflight_refs \in Nat
  BY <1>2 DEF PageMeta
<1>4. x = IF d.table_refs > 0 \/ d.cache_refs > 0 THEN d
          ELSE IF d.inflight_refs > 0 THEN [d EXCEPT !.state = "ReclaimPending"]
          ELSE FreedMeta(d)
  BY DEF ReleaseCacheRef
<1>5. m.state \in {"Sealed", "CacheOnly"} /\ f = 0 /\ r = 0
  BY <1>0 DEF PageOK, PageMeta
<1> HIDE DEF d, x
<1>6. CASE d.table_refs > 0 \/ d.cache_refs > 0
  BY <1>2, <1>3, <1>4, <1>5, <1>6 DEF Listed, PageOK, x
<1>7. CASE d.table_refs = 0 /\ d.cache_refs = 0 /\ d.inflight_refs > 0
  <2>1. x = [d EXCEPT !.state = "ReclaimPending"] BY <1>4, <1>7
  <2>2. x \in PageMeta /\ x.state = "ReclaimPending" /\ x.table_refs = 0 /\ x.cache_refs = 0
    BY <1>2, <1>7, <2>1 DEF PageMeta, PageState
  <2>3. PageOK(x, f, r + 1) BY <1>5, <2>2 DEF PageOK
  <2>4. Listed(m, x, f, r) BY <1>5, <2>2, <2>3 DEF Listed
  <2> QED BY <1>2, <1>5, <1>7, <2>2, <2>4 DEF x
<1>8. CASE d.table_refs = 0 /\ d.cache_refs = 0 /\ d.inflight_refs = 0
  <2>1. x = FreedMeta(d) BY <1>4, <1>8
  <2>2. x \in PageMeta /\ x.state = "Free" /\ x.table_refs = 0 /\ x.cache_refs = 0
        /\ x.inflight_refs = 0
    BY <1>2, <1>8, <2>1, FreedFields
  <2>3. PageOK(x, f + 1, r) BY <1>5, <2>2 DEF PageOK
  <2>4. Listed(m, x, f, r) BY <1>5, <2>2, <2>3 DEF Listed
  <2> QED BY <1>2, <1>5, <1>8, <2>2, <2>4 DEF x
<1> QED BY <1>3, <1>6, <1>7, <1>8

LEMMA ReleaseCacheStep ==
    ASSUME IInv, NEW p \in Pages, release_cache_ref(p)
    PROVE  IInv'
<1> DEFINE x == ReleaseCacheRef(meta[p])
<1>1. PageOK(meta[p], free_pages[p], reclaim_pending[p]) BY DEF IInv, PagesOK
<1>2. Rewrite([q \in {p} |-> x]) /\ UNCHANGED <<in_use, tables, cow_plans>> /\ meta[p].cache_refs > 0
  BY DEF release_cache_ref
<1>3. /\ Listed(meta[p], x, free_pages[p], reclaim_pending[p])
      /\ x.table_refs = meta[p].table_refs /\ meta[p].state # "Private"
  BY <1>1, <1>2, ReleaseCachePage
<1> HIDE DEF x
<1>4. PagesOK' /\ \A q \in Pages : meta'[q] = IF q = p THEN x ELSE meta[q]
  BY Zenon, <1>2, <1>3, OnePage
<1>5. \A s \in Slots : \A lp \in Copies(s) :
          meta'[cow_plans[s][lp].dst_phys] = meta[cow_plans[s][lp].dst_phys]
  BY <1>3, <1>4, NotADestination, ReservedPage
<1>6. \A q \in Pages : meta'[q].table_refs = meta[q].table_refs BY <1>3, <1>4
<1> QED BY <1>2, <1>4, <1>5, <1>6, MetaStep

\* The lists unchanged, one page rewritten within its state or from Private to Sealed.
LEMMA InPlace ==
    ASSUME IInv, NEW p \in Pages, NEW x, meta' = [meta EXCEPT ![p] = x],
           UNCHANGED <<free_pages, reclaim_pending, in_use, tables, cow_plans>>,
           PageOK(x, free_pages[p], reclaim_pending[p]), x.table_refs = meta[p].table_refs,
           \A s \in Slots : \A lp \in Copies(s) : cow_plans[s][lp].dst_phys # p
    PROVE  IInv'
<1>1. \A q \in Pages : meta'[q] = IF q = p THEN x ELSE meta[q] BY DEF IInv, PagesOK
<1>2. PagesOK'
  <2>1. \A q \in Pages : PageOK(meta'[q], free_pages'[q], reclaim_pending'[q])
    BY <1>1 DEF IInv, PagesOK
  <2>2. meta' = [q \in Pages |-> meta'[q]] BY DEF IInv, PagesOK
  <2> QED BY <2>1, <2>2 DEF IInv, PagesOK
<1>3. \A s \in Slots : \A lp \in Copies(s) :
          meta'[cow_plans[s][lp].dst_phys] = meta[cow_plans[s][lp].dst_phys]
  BY <1>1, ReservedPage
<1>4. \A q \in Pages : meta'[q].table_refs = meta[q].table_refs BY <1>1
<1> QED BY <1>2, <1>3, <1>4, MetaStep

LEMMA SealStep ==
    ASSUME IInv, NEW s \in Slots, NEW lp \in LogicalPages, seal(s, lp)
    PROVE  IInv'
<1> DEFINE p == block_tables[s][lp]
           x == [meta[p] EXCEPT !.state = "Sealed"]
<1>1. p \in Pages /\ OnTable(p) /\ meta[p].state = "Private"
  BY Zenon, MappedPage DEF seal, Mapped, OnTable, TablePages
<1>2. PageOK(meta[p], free_pages[p], reclaim_pending[p]) BY <1>1 DEF IInv, PagesOK
<1>3. meta[p] \in PageMeta /\ "Sealed" \in PageState BY <1>2 DEF PageOK, PageState
<1>4. x \in PageMeta /\ x.state = "Sealed" /\ x.table_refs = meta[p].table_refs
      /\ x.cache_refs = meta[p].cache_refs /\ x.inflight_refs = meta[p].inflight_refs
  BY <1>3 DEF PageMeta
<1>5. meta' = [meta EXCEPT ![p] = x]
      /\ UNCHANGED <<free_pages, reclaim_pending, in_use, tables, cow_plans>>
  BY DEF seal
<1> HIDE DEF x, p
<1>6. PageOK(x, free_pages[p], reclaim_pending[p]) BY <1>1, <1>2, <1>4 DEF PageOK
<1>7. \A t \in Slots : \A q \in Copies(t) : cow_plans[t][q].dst_phys # p
  BY <1>1, NotADestination
<1> QED BY Zenon, <1>1, <1>4, <1>5, <1>6, <1>7, InPlace

LEMMA InflightStep ==
    ASSUME IInv, NEW p \in Pages, add_inflight_ref(p) \/ release_inflight_ref(p)
    PROVE  IInv'
<1>1. PICK n \in Nat : /\ meta' = [meta EXCEPT ![p] = [meta[p] EXCEPT !.inflight_refs = n]]
                       /\ add_inflight_ref(p) \/ n = meta[p].inflight_refs - 1
  <2>1. meta[p].inflight_refs \in Nat BY DEF IInv, PagesOK, PageOK, PageMeta
  <2>2. CASE add_inflight_ref(p)
    <3>1. meta[p].inflight_refs + 1 \in Nat BY <2>1
    <3> QED BY Zenon, <2>2, <3>1 DEF add_inflight_ref
  <2>3. CASE release_inflight_ref(p)
    <3>1. meta[p].inflight_refs - 1 \in Nat BY <2>1, <2>3 DEF release_inflight_ref
    <3> QED BY Zenon, <2>3, <3>1 DEF release_inflight_ref
  <2> QED BY <2>2, <2>3
<1> DEFINE x == [meta[p] EXCEPT !.inflight_refs = n]
<1>2. PageOK(meta[p], free_pages[p], reclaim_pending[p]) BY DEF IInv, PagesOK
<1>3. x \in PageMeta /\ x.state = meta[p].state /\ x.table_refs = meta[p].table_refs
      /\ x.cache_refs = meta[p].cache_refs
  BY <1>2 DEF PageOK, PageMeta
<1>4. meta[p].state # "Free"
  BY <1>2 DEF PageOK, add_inflight_ref, release_inflight_ref, Attachable
<1>5. UNCHANGED <<free_pages, reclaim_pending, in_use, tables, cow_plans>>
  BY DEF add_inflight_ref, release_inflight_ref
<1>6. ASSUME NEW s \in Slots, NEW lp \in Copies(s) PROVE cow_plans[s][lp].dst_phys # p
  <2>1. CASE add_inflight_ref(p) BY <2>1, NotADestination DEF add_inflight_ref
  <2>2. CASE release_inflight_ref(p) BY <2>2 DEF IInv, PlansReserve, release_inflight_ref
  <2> QED BY <2>1, <2>2
<1>7. meta' = [meta EXCEPT ![p] = x] BY <1>1
<1> HIDE DEF x
<1>8. PageOK(x, free_pages[p], reclaim_pending[p]) BY <1>2, <1>3, <1>4 DEF PageOK
<1> QED BY Zenon, <1>3, <1>5, <1>6, <1>7, <1>8, InPlace

LEMMA DrainStep ==
    ASSUME IInv, drain_completed
    PROVE  IInv'
<1>1. \A p \in Pages : meta'[p] = IF Drained(p) THEN FreedMeta(meta[p]) ELSE meta[p]
  BY DEF drain_completed
<1>2. \A p \in Pages : PageOK(meta[p], free_pages[p], reclaim_pending[p])
  BY DEF IInv, PagesOK
<1>3. ASSUME NEW p \in Pages, Drained(p)
      PROVE  /\ meta[p].state = "ReclaimPending"
             /\ PageOK(FreedMeta(meta[p]), free_pages[p] + reclaim_pending[p], 0)
             /\ FreedMeta(meta[p]).table_refs = meta[p].table_refs
  <2>1. meta[p] \in PageMeta /\ reclaim_pending[p] > 0 /\ meta[p].inflight_refs = 0
        /\ meta[p].table_refs = 0 /\ meta[p].cache_refs = 0
    BY <1>2, <1>3 DEF PageOK, Drained
  <2>2. meta[p].state = "ReclaimPending" /\ free_pages[p] = 0 /\ reclaim_pending[p] = 1
    BY <1>2, <2>1 DEF PageOK
  <2> DEFINE x == FreedMeta(meta[p])
  <2>3. x \in PageMeta /\ x.state = "Free" /\ x.table_refs = 0 /\ x.cache_refs = 0
        /\ x.inflight_refs = 0
    BY <2>1, FreedFields
  <2> HIDE DEF x
  <2>4. PageOK(x, 1, 0) BY <2>3 DEF PageOK
  <2> QED BY <2>1, <2>2, <2>3, <2>4 DEF x
<1>4. PagesOK'
  <2>1. \A p \in Pages :
          /\ free_pages'[p] = IF Drained(p) THEN free_pages[p] + reclaim_pending[p] ELSE free_pages[p]
          /\ reclaim_pending'[p] = IF Drained(p) THEN 0 ELSE reclaim_pending[p]
    BY DEF drain_completed
  <2>2. \A p \in Pages : PageOK(meta'[p], free_pages'[p], reclaim_pending'[p])
    BY <1>1, <1>2, <1>3, <2>1
  <2>3. /\ meta' = [p \in Pages |-> meta'[p]]
        /\ free_pages' = [p \in Pages |-> free_pages'[p]]
        /\ reclaim_pending' = [p \in Pages |-> reclaim_pending'[p]]
    BY DEF drain_completed
  <2> QED BY <2>2, <2>3 DEF PagesOK
<1>5. \A p \in Pages : meta'[p].table_refs = meta[p].table_refs BY <1>1, <1>3
<1>6. ASSUME NEW s \in Slots, NEW lp \in Copies(s)
      PROVE  meta'[cow_plans[s][lp].dst_phys] = meta[cow_plans[s][lp].dst_phys]
  <2>1. cow_plans[s][lp].dst_phys \in Pages BY ReservedPage
  <2>2. ~Drained(cow_plans[s][lp].dst_phys) BY <1>3, <2>1, NotADestination
  <2> QED BY <1>1, <2>1, <2>2
<1>7. UNCHANGED <<in_use, tables, cow_plans>> BY DEF drain_completed
<1> QED BY <1>4, <1>5, <1>6, <1>7, MetaStep

LEMMA OomStep ==
    ASSUME IInv, NEW s \in Slots, NEW a, NEW b, plan_cow_oom(s, a, b)
    PROVE  IInv'
<1>1. \A p \in Pages : meta'[p] = IF p \in FreeList THEN ReleaseReserved(AllocMeta(meta[p]))
                                  ELSE meta[p]
  BY DEF plan_cow_oom
<1>2. UNCHANGED <<free_pages, reclaim_pending, in_use, tables, cow_plans>> BY DEF plan_cow_oom
<1>3. \A p \in Pages : PageOK(meta[p], free_pages[p], reclaim_pending[p])
  BY DEF IInv, PagesOK
<1>4. ASSUME NEW p \in FreeList
      PROVE  /\ meta[p].state = "Free"
             /\ PageOK(ReleaseReserved(AllocMeta(meta[p])), free_pages[p], reclaim_pending[p])
             /\ ReleaseReserved(AllocMeta(meta[p])).table_refs = meta[p].table_refs
  <2> DEFINE y == AllocMeta(meta[p])
             x == ReleaseReserved(y)
  <2>0. p \in Pages /\ free_pages[p] > 0 BY DEF FreeList
  <2>1. PageOK(y, free_pages[p] - 1, reclaim_pending[p]) /\ meta[p].table_refs = 0
        /\ y.state = "Private" /\ y.inflight_refs = 0
    BY <1>3, <2>0, AllocPage
  <2>2. meta[p].state = "Free" /\ free_pages[p] = 1 BY <1>3, <2>0 DEF PageOK
  <2> HIDE DEF y
  <2>3. Listed(y, x, free_pages[p] - 1, reclaim_pending[p]) /\ x.table_refs = 0 /\ x.state = "Free"
    BY <2>1, ReturnPage
  <2> HIDE DEF x
  <2>4. PageOK(x, free_pages[p], reclaim_pending[p])
    BY <2>2, <2>3 DEF Listed
  <2> QED BY <2>1, <2>2, <2>3, <2>4 DEF x, y
<1>5. PagesOK'
  <2>1. \A p \in Pages : PageOK(meta'[p], free_pages'[p], reclaim_pending'[p])
    BY <1>1, <1>2, <1>3, <1>4
  <2>2. meta' = [p \in Pages |-> meta'[p]] BY DEF plan_cow_oom
  <2> QED BY <1>2, <2>1, <2>2 DEF IInv, PagesOK
<1>6. \A p \in Pages : meta'[p].table_refs = meta[p].table_refs BY <1>1, <1>4
<1>7. ASSUME NEW t \in Slots, NEW lp \in Copies(t)
      PROVE  meta'[cow_plans[t][lp].dst_phys] = meta[cow_plans[t][lp].dst_phys]
  <2>1. cow_plans[t][lp].dst_phys \in Pages BY ReservedPage
  <2>2. cow_plans[t][lp].dst_phys \notin FreeList BY <1>4, <2>1, NotADestination
  <2> QED BY <1>1, <2>1, <2>2
<1> QED BY <1>2, <1>5, <1>6, <1>7, MetaStep

LEMMA ReleaseStep ==
    ASSUME IInv, NEW s \in Slots, release(s) \/ reset(s)
    PROVE  IInv'
<1> DEFINE L == Mapped(s)
<1>1. release_table(s) /\ in_use' \subseteq Slots /\ UNCHANGED cow_plans
  BY DEF release, reset, IInv, TablesOK
<1>2. L \in SUBSET LogicalPages BY DEF Mapped
<1>3. Rewrite([p \in {block_tables[s][lp] : lp \in L} |-> DecTableRef(meta[p])])
  BY <1>1 DEF release_table, TablePages
<1>4. [lp \in LogicalPages |-> IF lp \in L THEN NoPage ELSE block_tables[s][lp]] = EmptyTable
  BY DEF Mapped, EmptyTable
<1>5. block_tables' = [block_tables EXCEPT ![s] =
          [lp \in LogicalPages |-> IF lp \in L THEN NoPage ELSE block_tables[s][lp]]]
  BY Zenon, <1>1, <1>4 DEF release_table
<1>6. live_tokens' \in [Slots -> Nat] BY <1>1 DEF release_table, IInv, TablesOK
<1> HIDE DEF L
<1>7. L \subseteq Mapped(s) /\ \A a \in L, b \in Mapped(s) : a < b => b \in L BY DEF L
<1> QED BY Zenon, <1>1, <1>2, <1>3, <1>5, <1>6, <1>7, Unmap

LEMMA TailStep ==
    ASSUME IInv, NEW s \in Slots, NEW n, free_pages_from_tail(s, n)
    PROVE  IInv'
<1> DEFINE keep == num_pages(s) - n
           L == keep..(num_pages(s) - 1)
           M == [lp \in LogicalPages |-> IF lp \in L THEN NoPage ELSE block_tables[s][lp]]
<1>0. CapPages \in Nat \ {0} /\ PAGE_TOKENS \in Nat \ {0} BY PageAssumption
<1>1. 0 \in LogicalPages BY <1>0 DEF LogicalPages
<1>2. num_pages(s) \in Nat BY <1>1, DenseTable
<1>3. n \in 1..num_pages(s) BY DEF free_pages_from_tail
<1>4. keep \in Nat /\ keep < num_pages(s) BY <1>2, <1>3
<1>5. num_pages(s) <= CapPages
  <2>1. IsFiniteSet(LogicalPages) /\ Mapped(s) \subseteq LogicalPages
    BY LogicalPagesFinite DEF Mapped
  <2>2. Cardinality(Mapped(s)) <= Cardinality(LogicalPages) BY <2>1, FS_Subset
  <2>3. Cardinality(LogicalPages) = CapPages
    <3>1. 0 <= CapPages - 1 /\ CapPages - 1 \in Int BY <1>0
    <3>2. Cardinality(0..(CapPages - 1)) = (CapPages - 1) - 0 + 1 BY <3>1, FS_Interval
    <3> QED BY <1>0, <3>2 DEF LogicalPages
  <2> QED BY <2>2, <2>3 DEF num_pages
<1>6. L \in SUBSET LogicalPages BY <1>0, <1>2, <1>4, <1>5 DEF LogicalPages
<1>7. \A lp \in LogicalPages : lp \in Mapped(s) <=> lp < num_pages(s) BY DenseTable
<1>8. LogicalPages \subseteq Nat BY LogicalPagesFinite
<1>9. L \subseteq Mapped(s)
  BY <1>2, <1>4, <1>6, <1>7
<1>10. \A a \in L, b \in Mapped(s) : a < b => b \in L
  <2> SUFFICES ASSUME NEW a \in L, NEW b \in Mapped(s), a < b PROVE b \in L OBVIOUS
  <2>1. b \in LogicalPages /\ b \in Nat BY Zenon, <1>8 DEF Mapped
  <2>2. b < num_pages(s) BY <1>7, <2>1
  <2> QED BY <1>2, <1>4, <2>1, <2>2
<1>11. [lp \in LogicalPages |-> IF lp < keep THEN block_tables[s][lp] ELSE NoPage] = M
  <2> SUFFICES ASSUME NEW lp \in LogicalPages
               PROVE  (IF lp < keep THEN block_tables[s][lp] ELSE NoPage) =
                      (IF lp \in L THEN NoPage ELSE block_tables[s][lp])
    OBVIOUS
  <2>1. lp \in Nat BY <1>8
  <2>2. lp \in L <=> (~(lp < keep) /\ lp < num_pages(s)) BY <1>2, <1>4, <2>1
  <2>3. ~(lp < num_pages(s)) => block_tables[s][lp] = NoPage BY <1>7 DEF Mapped
  <2>4. lp < keep => lp < num_pages(s) BY <1>2, <1>4, <2>1
  <2> HIDE DEF keep, L
  <2> QED BY <2>2, <2>3, <2>4
<1>12. block_tables' = [block_tables EXCEPT ![s] =
           [lp \in LogicalPages |-> IF lp < keep THEN block_tables[s][lp] ELSE NoPage]]
  BY DEF free_pages_from_tail, IInv, TablesOK
<1>13. Rewrite([p \in {block_tables[s][lp] : lp \in L} |-> DecTableRef(meta[p])])
       /\ UNCHANGED <<in_use, cow_plans>>
  BY DEF free_pages_from_tail
<1>14. live_tokens' \in [Slots -> Nat]
  <2>1. live_tokens' = [live_tokens EXCEPT ![s] = IF live_tokens[s] > keep * PAGE_TOKENS
                                           THEN keep * PAGE_TOKENS ELSE live_tokens[s]]
    BY DEF free_pages_from_tail, IInv, TablesOK
  <2>2. keep * PAGE_TOKENS \in Nat BY <1>0, <1>4
  <2>3. live_tokens \in [Slots -> Nat] BY DEF IInv, TablesOK
  <2> HIDE DEF keep
  <2> QED BY <2>1, <2>2, <2>3
<1>15. in_use' \subseteq Slots BY <1>13 DEF IInv, TablesOK
<1> HIDE DEF keep, L
<1>16. block_tables' = [block_tables EXCEPT ![s] = M] BY Zenon, <1>11, <1>12
<1> QED BY <1>6, <1>9, <1>10, <1>13, <1>14, <1>15, <1>16, Unmap

LEMMA EnsureStep ==
    ASSUME IInv, NEW s \in Slots, NEW n \in 0..cap_tokens, ensure_capacity(s, n)
    PROVE  IInv'
<1> DEFINE L == Missing(s, n)
<1>0. CapPages \in Nat \ {0} /\ PAGE_TOKENS \in Nat \ {0} BY PageAssumption
<1>1. LogicalPages \subseteq Nat BY LogicalPagesFinite
<1>2. \A lp \in LogicalPages : num_pages(s) \in Nat /\ (lp \in Mapped(s) <=> lp < num_pages(s))
  BY DenseTable
<1>3. n \in Nat
  <2>1. CapPages * PAGE_TOKENS \in Nat BY <1>0
  <2> QED BY <2>1 DEF cap_tokens
<1>4. L \in SUBSET LogicalPages BY DEF Missing
<1>5. \A a \in L : a \notin Mapped(s) BY <1>1, <1>2 DEF Missing
<1>6. ASSUME NEW a \in LogicalPages, NEW b \in L, a < b PROVE a \in L \/ a \in Mapped(s)
  <2>1. a \in Nat /\ b \in Nat /\ b * PAGE_TOKENS < n BY <1>1, <1>6 DEF Missing
  <2>2. a * PAGE_TOKENS \in Nat /\ b * PAGE_TOKENS \in Nat /\ a * PAGE_TOKENS <= b * PAGE_TOKENS
    BY <1>0, <1>6, <2>1
  <2>3. a * PAGE_TOKENS < n BY <1>3, <2>1, <2>2
  <2> QED BY <1>2, <2>1, <2>3 DEF Missing
<1>7. PICK f \in Choices(L) :
        /\ Allocate({f[lp] : lp \in L})
        /\ block_tables' = [block_tables EXCEPT ![s] =
               [lp \in LogicalPages |-> IF lp \in L THEN f[lp] ELSE block_tables[s][lp]]]
        /\ live_tokens' = [live_tokens EXCEPT ![s] = n]
  BY Zenon DEF ensure_capacity, IInv, TablesOK
<1>8. live_tokens' \in [Slots -> Nat] BY <1>3, <1>7 DEF IInv, TablesOK
<1>9. in_use' \subseteq Slots /\ UNCHANGED cow_plans BY DEF ensure_capacity, IInv, TablesOK
<1> HIDE DEF L
<1> QED BY Zenon, <1>4, <1>5, <1>6, <1>7, <1>8, <1>9, MapFresh

LEMMA PlanStep ==
    ASSUME IInv, NEW s \in Slots, NEW a, NEW b, plan_cow(s, a, b)
    PROVE  IInv'
<1> DEFINE L == NeedsCow(s, a, b)
<1>1. L \in SUBSET Mapped(s) BY DEF NeedsCow
<1>2. cow_plans[s] = NoPlan /\ UNCHANGED <<block_tables, live_tokens, in_use>>
  BY DEF plan_cow, tables
<1>3. PICK f \in Choices(L) :
        /\ Allocate({f[lp] : lp \in L})
        /\ cow_plans' = [cow_plans EXCEPT ![s] = [lp \in LogicalPages |->
               IF lp \in L THEN [src_phys |-> block_tables[s][lp], dst_phys |-> f[lp]]
               ELSE NoCopy]]
  BY Zenon DEF plan_cow
<1> HIDE DEF L
<1> QED BY <1>1, <1>2, <1>3, PlanReserves

LEMMA SharePrefixStep ==
    ASSUME IInv, NEW src \in Slots, NEW dst \in Slots, NEW n \in 1..CapPages,
           share_prefix(src, dst, n)
    PROVE  IInv'
<1> DEFINE f == block_tables[src]
           shared == {f[lp] : lp \in 0..(n - 1)}
           new == [p \in shared |-> SharePrefixInc(meta[p])]
<1>0. CapPages \in Nat \ {0} BY PageAssumption
<1>1. n \in Nat /\ n <= CapPages /\ n <= num_pages(src) /\ num_pages(dst) = 0
  BY <1>0 DEF share_prefix
<1>2. \A lp \in 0..(n - 1) : lp \in LogicalPages /\ lp \in Nat /\ lp < n
  BY <1>0, <1>1 DEF LogicalPages
<1>3. \A lp \in 0..(n - 1) : f[lp] # NoPage
  <2> SUFFICES ASSUME NEW lp \in 0..(n - 1) PROVE f[lp] # NoPage OBVIOUS
  <2>1. lp \in LogicalPages /\ lp \in Nat /\ lp < n BY <1>2
  <2>2. num_pages(src) \in Nat /\ (lp \in Mapped(src) <=> lp < num_pages(src))
    BY <2>1, DenseTable
  <2>3. lp \in Mapped(src) BY <1>1, <2>1, <2>2
  <2> QED BY <2>3 DEF Mapped
<1>4. \A lp \in 0..(n - 1) :
        f[lp] \in Pages /\ meta[f[lp]].state \in {"Private", "Sealed", "CacheOnly"} /\ OnTable(f[lp])
  <2> SUFFICES ASSUME NEW lp \in 0..(n - 1)
               PROVE  f[lp] \in Pages /\ meta[f[lp]].state \in {"Private", "Sealed", "CacheOnly"}
                      /\ OnTable(f[lp])
    OBVIOUS
  <2>1. lp \in LogicalPages /\ f[lp] # NoPage BY <1>2, <1>3
  <2>2. lp \in Mapped(src) BY <2>1 DEF Mapped
  <2>3. OnTable(f[lp]) BY <2>2 DEF OnTable, TablePages
  <2> QED BY Zenon, <2>1, <2>3, MappedPage
<1>5. \A a, b \in 0..(n - 1) : f[a] = f[b] => a = b BY <1>2, <1>3 DEF IInv, MapsOnce
<1>6. \A lp \in 0..(n - 1) : \A t \in Slots : \A q \in Copies(t) : cow_plans[t][q].dst_phys # f[lp]
  BY <1>4, NotADestination
<1>7. Attach(dst, n, f, new) BY DEF share_prefix
<1>8. DOMAIN new = shared /\ \A p \in DOMAIN new : new[p] \in {RefcountInc(meta[p]), SharePrefixInc(meta[p])}
  OBVIOUS
<1> HIDE DEF new, f
<1> QED BY Zenon, <1>1, <1>4, <1>5, <1>6, <1>7, <1>8, AttachStep

LEMMA SharePublishedStep ==
    ASSUME IInv, NEW dst \in Slots, NEW n \in 1..CapPages, share_published_pages(dst, n)
    PROVE  IInv'
<1>0. CapPages \in Nat \ {0} BY PageAssumption
<1>1. n \in Nat /\ n <= CapPages /\ num_pages(dst) = 0 BY <1>0 DEF share_published_pages
<1>2. PICK f \in [0..(n - 1) -> {p \in Pages : meta[p].cache_refs > 0}] :
        /\ \A a, b \in 0..(n - 1) : f[a] = f[b] => a = b
        /\ Attach(dst, n, f, [p \in {f[lp] : lp \in 0..(n - 1)} |-> RefcountInc(meta[p])])
  BY Zenon DEF share_published_pages
<1> DEFINE new == [p \in {f[lp] : lp \in 0..(n - 1)} |-> RefcountInc(meta[p])]
<1>3. \A lp \in 0..(n - 1) : f[lp] \in Pages /\ meta[f[lp]].cache_refs > 0 BY <1>2
<1>4. \A p \in Pages : meta[p].cache_refs > 0 =>
          meta[p].state \in {"Sealed", "CacheOnly"}
  <2> SUFFICES ASSUME NEW p \in Pages, meta[p].cache_refs > 0
               PROVE  meta[p].state \in {"Sealed", "CacheOnly"}
    OBVIOUS
  <2>1. PageOK(meta[p], free_pages[p], reclaim_pending[p]) BY DEF IInv, PagesOK
  <2>2. meta[p].table_refs \in Nat /\ meta[p].cache_refs \in Nat BY <2>1 DEF PageOK, PageMeta
  <2> QED BY <2>1, <2>2 DEF PageOK
<1>5. \A lp \in 0..(n - 1) : /\ f[lp] \in Pages
                             /\ meta[f[lp]].state \in {"Private", "Sealed", "CacheOnly"}
                             /\ meta[f[lp]].state # "Private"
  BY <1>3, <1>4
<1>6. \A lp \in 0..(n - 1) : \A t \in Slots : \A q \in Copies(t) : cow_plans[t][q].dst_phys # f[lp]
  BY <1>5, NotADestination
<1>7. Attach(dst, n, f, new) BY <1>2
<1>8. DOMAIN new = {f[lp] : lp \in 0..(n - 1)}
      /\ \A p \in DOMAIN new : new[p] \in {RefcountInc(meta[p]), SharePrefixInc(meta[p])}
  OBVIOUS
<1> HIDE DEF new
<1> QED BY <1>1, <1>2, <1>5, <1>6, <1>7, <1>8, AttachStep

LEMMA StutterStep ==
    ASSUME IInv, UNCHANGED <<meta, free_pages, reclaim_pending, block_tables, live_tokens, cow_plans>>,
           in_use' \subseteq Slots
    PROVE  IInv'
<1>1. PagesOK' /\ TablesOK' BY DEF IInv, PagesOK, TablesOK
<1>2. MapsOnce' /\ Dense' BY DEF IInv, MapsOnce, Dense
<1>3. \A p : Mappings(p)' = Mappings(p) /\ Reservations(p)' = Reservations(p)
  BY DEF Mappings, Reservations
<1>4. TableRefsExact' BY <1>3 DEF IInv, TableRefsExact
<1>5. PlansReserve' BY <1>3 DEF IInv, PlansReserve, Copies
<1> QED BY <1>1, <1>2, <1>4, <1>5 DEF IInv

(***************************************************************************)
(* The inductive invariant                                                 *)
(***************************************************************************)
LEMMA InitIInv == Init => IInv
<1> SUFFICES ASSUME Init PROVE IInv OBVIOUS
<1> DEFINE m0 == [state |-> "Free", generation |-> 0, table_refs |-> 0,
                  cache_refs |-> 0, inflight_refs |-> 0]
<1>1. PageOK(m0, 1, 0) BY DEF PageOK, PageMeta, PageState
<1>2. PagesOK BY <1>1 DEF Init, PagesOK
<1>3. /\ \A s \in Slots : \A lp \in LogicalPages :
             block_tables[s][lp] = NoPage /\ cow_plans[s][lp] = NoCopy
      /\ TablesOK
  BY DEF Init, EmptyTable, NoPlan, TablesOK
<1>4. \A p \in Pages : p # NoPage BY PageAssumption
<1>5. \A p \in Pages : Mappings(p) = {} /\ Reservations(p) = {}
  BY <1>3, <1>4 DEF Mappings, Reservations, NoCopy
<1>6. TableRefsExact
  <2>1. Cardinality({}) = 0 BY FS_EmptySet
  <2>2. \A p \in Pages : meta[p].table_refs = 0 BY DEF Init
  <2> QED BY <1>5, <2>1, <2>2 DEF TableRefsExact
<1>7. MapsOnce /\ Dense BY <1>3 DEF MapsOnce, Dense
<1>8. PlansReserve BY <1>3 DEF PlansReserve, Copies
<1> QED BY <1>2, <1>3, <1>6, <1>7, <1>8 DEF IInv

LEMMA NextIInv == IInv /\ [Next]_vars => IInv'
<1> SUFFICES ASSUME IInv, [Next]_vars PROVE IInv' OBVIOUS
<1>1. CASE UNCHANGED vars BY <1>1, StutterStep DEF vars, IInv, TablesOK
<1>2. ASSUME NEW s \in Slots, SlotStep(s) PROVE IInv'
  <2>1. CASE acquire(s) BY <2>1, StutterStep DEF acquire, pool, tables, IInv, TablesOK
  <2>2. CASE release(s) \/ reset(s) BY <2>2, ReleaseStep
  <2>3. ASSUME NEW n \in 0..cap_tokens, ensure_capacity(s, n) PROVE IInv' BY <2>3, EnsureStep
  <2>4. ASSUME NEW n \in 1..CapPages, free_pages_from_tail(s, n) PROVE IInv' BY <2>4, TailStep
  <2>5. ASSUME NEW n \in 1..CapPages, share_published_pages(s, n) PROVE IInv'
    BY <2>5, SharePublishedStep
  <2>6. ASSUME NEW src \in Slots, NEW n \in 1..CapPages, share_prefix(src, s, n) PROVE IInv'
    BY <2>6, SharePrefixStep
  <2>7. ASSUME NEW lp \in LogicalPages, seal(s, lp) PROVE IInv' BY <2>7, SealStep
  <2>8. ASSUME NEW a \in 0..cap_tokens, NEW b \in 0..cap_tokens, plan_cow(s, a, b) PROVE IInv'
    BY <2>8, PlanStep
  <2>9. ASSUME NEW a \in 0..cap_tokens, NEW b \in 0..cap_tokens, plan_cow_oom(s, a, b) PROVE IInv'
    BY <2>9, OomStep
  <2>10. CASE commit_cow(s) BY <2>10, CommitStep
  <2>11. CASE commit_cow_refused(s) \/ abort_cow(s)
    BY <2>11, ReturnStep DEF commit_cow_refused, abort_cow
  <2> QED BY <1>2, <2>1, <2>2, <2>3, <2>4, <2>5, <2>6, <2>7, <2>8, <2>9, <2>10, <2>11 DEF SlotStep
<1>3. ASSUME NEW p \in Pages, PageStep(p) PROVE IInv'
  BY <1>3, AddCacheStep, ReleaseCacheStep, InflightStep DEF PageStep
<1>4. CASE drain_completed BY <1>4, DrainStep
<1> QED BY <1>1, <1>2, <1>3, <1>4 DEF Next

LEMMA PoolInvariant == Spec => []IInv
BY InitIInv, NextIInv, PTL DEF Spec

\* The pool's records, tables and plans keep their types.
THEOREM PoolTypeCorrect == Spec => []TypeOK
<1>1. IInv => TypeOK
  <2> SUFFICES ASSUME IInv PROVE TypeOK OBVIOUS
  <2>1. \A p \in Pages : meta[p] \in PageMeta /\ free_pages[p] \in Nat /\ reclaim_pending[p] \in Nat
    BY DEF IInv, PagesOK, PageOK
  <2>2. meta \in [Pages -> PageMeta] BY <2>1 DEF IInv, PagesOK
  <2>3. free_pages \in [Pages -> Nat] /\ reclaim_pending \in [Pages -> Nat]
    BY <2>1 DEF IInv, PagesOK
  <2> QED BY <2>2, <2>3 DEF IInv, TablesOK, TypeOK
<1> QED BY <1>1, PoolInvariant, PTL

\* check_invariants of the pool holds after every operation: the free list
\* and the reclaim queue hold exactly the pages of their state, once each.
THEOREM PoolAccounting == Spec => []PageAccounting
<1>1. IInv => PageAccounting
  <2> SUFFICES ASSUME IInv, NEW p \in Pages
               PROVE  /\ free_pages[p] = (IF meta[p].state = "Free" THEN 1 ELSE 0)
                      /\ reclaim_pending[p] = (IF meta[p].state = "ReclaimPending" THEN 1 ELSE 0)
                      /\ (meta[p].table_refs + meta[p].cache_refs > 0)
                             <=> (meta[p].state \in {"Private", "Sealed", "CacheOnly"})
                      /\ meta[p].state = "Free" => meta[p].inflight_refs = 0
    BY DEF PageAccounting
  <2>1. PageOK(meta[p], free_pages[p], reclaim_pending[p]) BY DEF IInv, PagesOK
  <2> QED BY <2>1 DEF PageOK
<1> QED BY <1>1, PoolInvariant, PTL

\* table_refs of a page is the number of its mappings and reservations,
\* whatever shares, copies, aborts and releases came before.
THEOREM RefsExact == Spec => []TableRefsExact
<1>1. IInv => TableRefsExact BY DEF IInv
<1> QED BY <1>1, PoolInvariant, PTL

\* A page plan_cow lets a slot write in place has one table reference and is
\* not in the prefix index.
THEOREM WritableIsUnshared == Spec => []PrivateIsUnshared
<1>1. IInv => PrivateIsUnshared
  <2> SUFFICES ASSUME IInv, NEW p \in Pages, meta[p].state = "Private"
               PROVE  meta[p].table_refs = 1 /\ meta[p].cache_refs = 0
    BY DEF PrivateIsUnshared
  <2>1. PageOK(meta[p], free_pages[p], reclaim_pending[p]) BY DEF IInv, PagesOK
  <2> QED BY <2>1 DEF PageOK
<1> QED BY <1>1, PoolInvariant, PTL


-----------------------------------------------------------------------------
(***************************************************************************)
(* The life of one page                                                    *)
(***************************************************************************)
Next_generation(g) == (g + 1) % GENERATIONS

\* What a step may do to the record of a page: keep it allocated or free, and
\* immutable if it was; free it; hand it out; or hand it out and take it back.
Moves(m, d) ==
    \/ /\ d.generation = m.generation
       /\ m.state = "Free" <=> d.state = "Free"
       /\ m.state \in {"Sealed", "CacheOnly"} => d.state # "Private"
    \/ /\ m.state # "Free" /\ d.state = "Free"
       /\ d.generation = Next_generation(m.generation)
    \/ /\ m.state = "Free" /\ m.generation < MaxGeneration
       /\ \/ d.state = "Private" /\ d.generation = Next_generation(m.generation)
          \/ /\ d.state = "Free"
             /\ d.generation = Next_generation(Next_generation(m.generation))

\* ... and whoever frees it tells the handle.
Lives(q) ==
    /\ Moves(meta[q], meta'[q])
    /\ meta[q].state # "Free" /\ meta'[q].state = "Free" => KeepHandle

LEMMA SameMoves == ASSUME NEW m PROVE Moves(m, m)
BY DEF Moves

\* The record of a resident page that loses a table reference.
LEMMA DecMoves ==
    ASSUME NEW m, NEW f, NEW r, PageOK(m, f, r), m.table_refs > 0
    PROVE  Moves(m, DecTableRef(m))
<1> DEFINE d == [m EXCEPT !.table_refs = m.table_refs - 1]
           x == DecTableRef(m)
<1>1. m \in PageMeta /\ m.table_refs - 1 \in Nat /\ m.state # "Free" BY DEF PageOK, PageMeta
<1>2. d \in PageMeta /\ d.generation = m.generation /\ d.state = m.state BY <1>1 DEF PageMeta
<1>3. x.state # "Private" BY DecPage
<1>4. \/ x = d \/ x = [d EXCEPT !.state = "CacheOnly"] \/ x = [d EXCEPT !.state = "ReclaimPending"]
      \/ x = FreedMeta(d)
  BY DEF DecTableRef
<1> HIDE DEF d, x
<1>5. CASE x = FreedMeta(d)
  <2>1. x.state = "Free" /\ x.generation = Next_generation(d.generation)
    BY <1>2, <1>5 DEF FreedMeta, PageMeta, Next_generation
  <2> QED BY <1>1, <1>2, <2>1 DEF Moves, x
<1>6. CASE \/ x = d \/ x = [d EXCEPT !.state = "CacheOnly"] \/ x = [d EXCEPT !.state = "ReclaimPending"]
  <2>1. x.generation = d.generation /\ x.state # "Free" BY <1>1, <1>2, <1>6 DEF PageMeta
  <2> QED BY <1>1, <1>2, <1>3, <2>1 DEF Moves, x
<1> QED BY <1>4, <1>5, <1>6

\* The record of a cached page that loses a reference of the prefix index.
LEMMA UncacheMoves ==
    ASSUME NEW m, NEW f, NEW r, PageOK(m, f, r), m.cache_refs > 0
    PROVE  Moves(m, ReleaseCacheRef(m))
<1> DEFINE d == [m EXCEPT !.cache_refs = m.cache_refs - 1]
           x == ReleaseCacheRef(m)
<1>1. m \in PageMeta /\ m.cache_refs - 1 \in Nat /\ m.state # "Free" BY DEF PageOK, PageMeta
<1>2. d \in PageMeta /\ d.generation = m.generation /\ d.state = m.state BY <1>1 DEF PageMeta
<1>3. x.state # "Private" BY ReleaseCachePage
<1>4. x = d \/ x = [d EXCEPT !.state = "ReclaimPending"] \/ x = FreedMeta(d)
  BY DEF ReleaseCacheRef
<1> HIDE DEF d, x
<1>5. CASE x = FreedMeta(d)
  <2>1. x.state = "Free" /\ x.generation = Next_generation(d.generation)
    BY <1>2, <1>5 DEF FreedMeta, PageMeta, Next_generation
  <2> QED BY <1>1, <1>2, <2>1 DEF Moves, x
<1>6. CASE x = d \/ x = [d EXCEPT !.state = "ReclaimPending"]
  <2>1. x.generation = d.generation /\ x.state # "Free" BY <1>1, <1>2, <1>6 DEF PageMeta
  <2> QED BY <1>1, <1>2, <1>3, <2>1 DEF Moves, x
<1> QED BY <1>4, <1>5, <1>6

\* A page that is handed out, and one that is handed out and taken back.
LEMMA AllocMoves ==
    ASSUME NEW m \in PageMeta, m.state = "Free", m.generation < MaxGeneration
    PROVE  Moves(m, AllocMeta(m)) /\ Moves(m, ReleaseReserved(AllocMeta(m)))
<1> DEFINE a == AllocMeta(m)
           x == ReleaseReserved(a)
<1>1. a \in PageMeta /\ a.state = "Private" BY AllocFields
<1>2. a.generation = Next_generation(m.generation) BY DEF AllocMeta, PageMeta, Next_generation
<1> HIDE DEF a
<1>3. x.state = "Free" /\ x.generation = Next_generation(a.generation)
  BY <1>1 DEF ReleaseReserved, FreedMeta, PageMeta, Next_generation
<1>4. Moves(m, a) BY <1>1, <1>2 DEF Moves
<1>5. Moves(m, x) BY <1>2, <1>3 DEF Moves
<1> QED BY <1>4, <1>5 DEF a

\* Any change of the counters that leaves an allocated page allocated.
LEMMA CountMoves ==
    ASSUME NEW m \in PageMeta, m.state # "Free"
    PROVE  /\ Moves(m, RefcountInc(m)) /\ Moves(m, SharePrefixInc(m)) /\ Moves(m, AddCacheRef(m))
           /\ Moves(m, [m EXCEPT !.state = "Sealed"])
           /\ Moves(m, FreedMeta(m)) /\ Moves(m, ReleaseReserved(m))
<1>1. Moves(m, RefcountInc(m)) BY DEF Moves, RefcountInc, PageMeta
<1>2. Moves(m, SharePrefixInc(m)) BY DEF Moves, SharePrefixInc, PageMeta
<1>3. Moves(m, AddCacheRef(m)) BY DEF Moves, AddCacheRef, PageMeta
<1>4. Moves(m, [m EXCEPT !.state = "Sealed"]) BY DEF Moves, PageMeta
<1>5. Moves(m, FreedMeta(m)) BY DEF Moves, FreedMeta, PageMeta, Next_generation
<1>6. Moves(m, ReleaseReserved(m)) BY DEF Moves, ReleaseReserved, FreedMeta, PageMeta, Next_generation
<1> QED BY <1>1, <1>2, <1>3, <1>4, <1>5, <1>6

\* The pages before the end of a table are mapped.
LEMMA PagesBefore ==
    ASSUME IInv, NEW s \in Slots, NEW lp \in 0..(num_pages(s) - 1)
    PROVE  block_tables[s][lp] \in Pages /\ meta[block_tables[s][lp]].table_refs > 0
<1>1. 0 \in LogicalPages /\ CapPages \in Nat BY PageAssumption DEF LogicalPages
<1>2. num_pages(s) \in Nat BY <1>1, DenseTable
<1>3. lp \in Nat /\ lp < num_pages(s) BY <1>2
<1>4. Mapped(s) \subseteq LogicalPages /\ IsFiniteSet(LogicalPages)
  BY LogicalPagesFinite DEF Mapped
<1>5. Cardinality(Mapped(s)) <= Cardinality(LogicalPages) BY <1>4, FS_Subset
<1>6. Cardinality(LogicalPages) = CapPages
  <2>1. CapPages - 1 \in Int /\ 0 <= CapPages - 1 BY PageAssumption
  <2>2. Cardinality(0..(CapPages - 1)) = (CapPages - 1) - 0 + 1 BY <2>1, FS_Interval
  <2> QED BY <1>1, <2>2 DEF LogicalPages
<1>7. lp \in LogicalPages BY <1>1, <1>2, <1>3, <1>5, <1>6 DEF num_pages, LogicalPages
<1>8. block_tables[s][lp] # NoPage BY <1>3, <1>7, DenseTable DEF Mapped
<1> QED BY Zenon, <1>7, <1>8, MappedPage

LEMMA DecLives ==
    ASSUME IInv, NEW S, Rewrite([p \in S |-> DecTableRef(meta[p])]), KeepHandle,
           \A p \in S : p \in Pages /\ meta[p].table_refs > 0, NEW q \in Pages
    PROVE  Lives(q)
<1>1. PageOK(meta[q], free_pages[q], reclaim_pending[q]) BY DEF IInv, PagesOK
<1>2. meta'[q] = IF q \in S THEN DecTableRef(meta[q]) ELSE meta[q] BY DEF Rewrite
<1>3. q \in S => Moves(meta[q], DecTableRef(meta[q])) BY <1>1, DecMoves
<1> QED BY <1>2, <1>3, SameMoves DEF Lives

LEMMA AllocLives ==
    ASSUME IInv, NEW L, NEW f \in Choices(L), Allocate({f[lp] : lp \in L}), NEW q \in Pages
    PROVE  Lives(q)
<1> DEFINE S == {f[lp] : lp \in L}
<1>1. PageOK(meta[q], free_pages[q], reclaim_pending[q]) BY DEF IInv, PagesOK
<1>2. \A p \in S : p \in FreeList /\ Fresh(p) BY DEF Choices
<1>3. meta'[q] = IF q \in S THEN AllocMeta(meta[q]) ELSE meta[q] BY DEF Allocate
<1> HIDE DEF S
<1>4. CASE q \in S
  <2>1. meta[q] \in PageMeta /\ meta[q].state = "Free" /\ meta[q].generation < MaxGeneration
    BY <1>1, <1>2, <1>4 DEF PageOK, FreeList, Fresh
  <2>2. Moves(meta[q], meta'[q]) BY <1>3, <1>4, <2>1, AllocMoves
  <2> QED BY <2>1, <2>2 DEF Lives
<1>5. CASE q \notin S BY <1>3, <1>5, SameMoves DEF Lives
<1> QED BY <1>4, <1>5

\* Attaching, sealing and counting leave an allocated page allocated.
LEMMA AttachLives ==
    ASSUME IInv, NEW q \in Pages,
           \/ meta'[q] = meta[q]
           \/ /\ meta[q].state # "Free"
              /\ meta'[q] \in {RefcountInc(meta[q]), SharePrefixInc(meta[q]), AddCacheRef(meta[q]),
                               [meta[q] EXCEPT !.state = "Sealed"]}
    PROVE  Lives(q)
<1>1. meta[q] \in PageMeta BY DEF IInv, PagesOK, PageOK
<1>2. Moves(meta[q], meta'[q]) BY Zenon, <1>1, CountMoves, SameMoves
<1>3. meta[q].state # "Free" => meta'[q].state # "Free"
  <2>1. CASE meta'[q] = meta[q] BY <2>1
  <2>2. CASE meta'[q] = RefcountInc(meta[q]) /\ meta[q].state # "Free"
    BY <1>1, <2>2 DEF RefcountInc, PageMeta
  <2>3. CASE meta'[q] = SharePrefixInc(meta[q]) BY <1>1, <2>3 DEF SharePrefixInc, PageMeta
  <2>4. CASE meta'[q] = AddCacheRef(meta[q]) /\ meta[q].state # "Free"
    BY <1>1, <2>4 DEF AddCacheRef, PageMeta
  <2>5. CASE meta'[q] = [meta[q] EXCEPT !.state = "Sealed"] BY <1>1, <2>5 DEF PageMeta
  <2> QED BY <2>1, <2>2, <2>3, <2>4, <2>5
<1> QED BY <1>2, <1>3 DEF Lives

LEMMA SlotLives ==
    ASSUME IInv, NEW s \in Slots, SlotStep(s), NEW q \in Pages
    PROVE  Lives(q)
<1>0. /\ PageOK(meta[q], free_pages[q], reclaim_pending[q])
      /\ meta[q] \in PageMeta /\ meta[q].table_refs \in Nat
  BY DEF IInv, PagesOK, PageOK, PageMeta
<1>1. CASE acquire(s) BY <1>1, AttachLives DEF acquire, pool
<1>2. CASE release(s) \/ reset(s)
  <2>1. Rewrite([p \in TablePages(s) |-> DecTableRef(meta[p])]) /\ KeepHandle
    BY <1>2 DEF release, reset, release_table
  <2>2. \A p \in TablePages(s) : p \in Pages /\ meta[p].table_refs > 0
    BY Zenon, MappedPage DEF TablePages, Mapped
  <2> QED BY <2>1, <2>2, DecLives
<1>3. ASSUME NEW n \in 0..cap_tokens, ensure_capacity(s, n) PROVE Lives(q)
  <2>1. PICK f \in Choices(Missing(s, n)) : Allocate({f[lp] : lp \in Missing(s, n)})
    BY <1>3 DEF ensure_capacity
  <2> QED BY Zenon, <2>1, AllocLives
<1>4. ASSUME NEW n \in 1..CapPages, free_pages_from_tail(s, n) PROVE Lives(q)
  <2> DEFINE S == {block_tables[s][lp] : lp \in (num_pages(s) - n)..(num_pages(s) - 1)}
  <2>1. Rewrite([p \in S |-> DecTableRef(meta[p])]) /\ KeepHandle /\ n \in 1..num_pages(s)
    BY <1>4 DEF free_pages_from_tail
  <2>2. num_pages(s) \in Nat
    <3>1. 0 \in LogicalPages BY PageAssumption DEF LogicalPages
    <3> QED BY <3>1, DenseTable
  <2>3. \A lp \in (num_pages(s) - n)..(num_pages(s) - 1) : lp \in 0..(num_pages(s) - 1)
    BY <2>1, <2>2
  <2>4. \A p \in S : p \in Pages /\ meta[p].table_refs > 0 BY <2>3, PagesBefore
  <2> HIDE DEF S
  <2> QED BY <2>1, <2>4, DecLives
<1>5. ASSUME NEW n \in 1..CapPages, share_published_pages(s, n) PROVE Lives(q)
  <2>1. \/ meta'[q] = meta[q]
        \/ Attachable(q) /\ meta'[q] = RefcountInc(meta[q])
    BY <1>5 DEF share_published_pages, Attach, Rewrite
  <2> QED BY <2>1, AttachLives DEF Attachable
<1>6. ASSUME NEW src \in Slots, NEW n \in 1..CapPages, share_prefix(src, s, n) PROVE Lives(q)
  <2> DEFINE S == {block_tables[src][lp] : lp \in 0..(n - 1)}
  <2>1. meta'[q] = (IF q \in S THEN SharePrefixInc(meta[q]) ELSE meta[q]) /\ n \in 1..num_pages(src)
    BY <1>6 DEF share_prefix, Attach, Rewrite
  <2>2. num_pages(src) \in Nat
    <3>1. 0 \in LogicalPages BY PageAssumption DEF LogicalPages
    <3> QED BY <3>1, DenseTable
  <2>3. \A lp \in 0..(n - 1) : lp \in 0..(num_pages(src) - 1) BY <2>1, <2>2
  <2>4. q \in S => meta[q].table_refs > 0 BY <2>3, PagesBefore
  <2>5. q \in S => meta[q].state # "Free" BY <1>0, <2>4 DEF PageOK, PageMeta
  <2> HIDE DEF S
  <2> QED BY <2>1, <2>5, AttachLives
<1>7. ASSUME NEW lp \in LogicalPages, seal(s, lp) PROVE Lives(q)
  <2>1. meta' = [meta EXCEPT ![block_tables[s][lp]] = [@ EXCEPT !.state = "Sealed"]]
        /\ meta[block_tables[s][lp]].state = "Private"
    BY <1>7 DEF seal
  <2>2. meta = [p \in Pages |-> meta[p]] BY DEF IInv, PagesOK
  <2>3. meta'[q] = IF q = block_tables[s][lp] THEN [meta[q] EXCEPT !.state = "Sealed"] ELSE meta[q]
    BY <2>1, <2>2
  <2>4. q = block_tables[s][lp] => meta[q].state # "Free" BY <2>1
  <2> QED BY <2>3, <2>4, AttachLives
<1>8. ASSUME NEW a, NEW b, plan_cow(s, a, b) PROVE Lives(q)
  <2>1. PICK f \in Choices(NeedsCow(s, a, b)) : Allocate({f[lp] : lp \in NeedsCow(s, a, b)})
    BY Zenon, <1>8 DEF plan_cow
  <2> QED BY <2>1, AllocLives
<1>9. ASSUME NEW a, NEW b, plan_cow_oom(s, a, b) PROVE Lives(q)
  <2>1. /\ meta'[q] = IF q \in FreeList THEN ReleaseReserved(AllocMeta(meta[q])) ELSE meta[q]
        /\ q \in FreeList => meta[q].generation < MaxGeneration
    BY <1>9 DEF plan_cow_oom, Fresh
  <2>2. q \in FreeList => meta[q].state = "Free" BY <1>0 DEF PageOK, FreeList
  <2>3. q \in FreeList => Moves(meta[q], meta'[q]) BY <1>0, <2>1, <2>2, AllocMoves
  <2> QED BY <2>1, <2>2, <2>3, SameMoves DEF Lives
<1>10. CASE commit_cow(s)
  <2>1. Rewrite([p \in Sources(s) |-> DecTableRef(meta[p])]) /\ StillMapped(s) /\ KeepHandle
    BY <1>10 DEF commit_cow
  <2>2. \A lp \in Copies(s) : cow_plans[s][lp].src_phys \in Pages BY ReservedPage
  <2>3. \A p \in Sources(s) : p \in Pages /\ meta[p].table_refs > 0
    BY <2>1, <2>2 DEF Sources, StillMapped
  <2> QED BY <2>1, <2>3, DecLives
<1>11. CASE commit_cow_refused(s) \/ abort_cow(s)
  <2>1. Rewrite([p \in Reserved(s) |-> ReleaseReserved(meta[p])]) /\ KeepHandle
    BY <1>11 DEF commit_cow_refused, abort_cow, ReturnReservations
  <2>2. meta'[q] = IF q \in Reserved(s) THEN ReleaseReserved(meta[q]) ELSE meta[q]
    BY <2>1 DEF Rewrite
  <2>3. q \in Reserved(s) => meta[q].state # "Free" BY DEF Reserved, IInv, PlansReserve
  <2>4. q \in Reserved(s) => Moves(meta[q], ReleaseReserved(meta[q])) BY Zenon, <1>0, <2>3, CountMoves
  <2> QED BY <2>1, <2>2, <2>4, SameMoves DEF Lives
<1> QED BY <1>1, <1>2, <1>3, <1>4, <1>5, <1>6, <1>7, <1>8, <1>9, <1>10, <1>11 DEF SlotStep

LEMMA PageLives ==
    ASSUME IInv, NEW p \in Pages, PageStep(p), NEW q \in Pages
    PROVE  Lives(q)
<1>0. /\ PageOK(meta[q], free_pages[q], reclaim_pending[q]) /\ meta[q] \in PageMeta
      /\ meta = [r \in Pages |-> meta[r]]
  BY DEF IInv, PagesOK, PageOK
<1>1. CASE add_cache_ref(p)
  <2>1. meta'[q] = IF q = p THEN AddCacheRef(meta[q]) ELSE meta[q]
    BY <1>1 DEF add_cache_ref, Rewrite
  <2> QED BY <1>1, <2>1, AttachLives DEF add_cache_ref, Attachable
<1>2. CASE release_cache_ref(p)
  <2>1. (meta'[q] = IF q = p THEN ReleaseCacheRef(meta[q]) ELSE meta[q]) /\ KeepHandle
    BY <1>2 DEF release_cache_ref, Rewrite
  <2>2. q = p => Moves(meta[q], ReleaseCacheRef(meta[q]))
    BY <1>0, <1>2, UncacheMoves DEF release_cache_ref
  <2> QED BY <2>1, <2>2, SameMoves DEF Lives
<1>3. CASE add_inflight_ref(p) \/ release_inflight_ref(p)
  <2>1. \E x : meta' = [meta EXCEPT ![p] = [meta[p] EXCEPT !.inflight_refs = x]]
    BY <1>3 DEF add_inflight_ref, release_inflight_ref
  <2>2. PICK x : meta'[q] = IF q = p THEN [meta[q] EXCEPT !.inflight_refs = x] ELSE meta[q]
    BY Zenon, <1>0, <2>1
  <2>3. meta'[q].state = meta[q].state /\ meta'[q].generation = meta[q].generation
    BY <1>0, <2>2 DEF PageMeta
  <2> QED BY <2>3 DEF Lives, Moves
<1> QED BY <1>1, <1>2, <1>3 DEF PageStep

\* Every step of the pool moves every page in one of the four ways.
LEMMA StepLives ==
    ASSUME IInv, Next, NEW q \in Pages
    PROVE  Lives(q)
<1>1. ASSUME drain_completed PROVE Lives(q)
  <2>1. (meta'[q] = IF Drained(q) THEN FreedMeta(meta[q]) ELSE meta[q]) /\ KeepHandle
    BY <1>1 DEF drain_completed
  <2>2. meta[q] \in PageMeta /\ PageOK(meta[q], free_pages[q], reclaim_pending[q])
    BY DEF IInv, PagesOK, PageOK
  <2>3. Drained(q) => meta[q].state # "Free" BY <2>2 DEF Drained, PageOK
  <2>4. Drained(q) => Moves(meta[q], FreedMeta(meta[q])) BY Zenon, <2>2, <2>3, CountMoves
  <2> QED BY <2>1, <2>4, SameMoves DEF Lives
<1> QED BY <1>1, SlotLives, PageLives DEF Next

\* A page that was sealed for sharing or for the prefix index is never again
\* written in place by plan_cow's in-place rule while it is allocated.
THEOREM ImmutableForGood == Spec => SealedStaysSealed
<1>1. IInv /\ [Next]_vars =>
        [\A p \in Pages : meta[p].state \in {"Sealed", "CacheOnly"} => meta'[p].state # "Private"]_vars
  <2> SUFFICES ASSUME IInv, Next, NEW q \in Pages, meta[q].state \in {"Sealed", "CacheOnly"}
               PROVE  meta'[q].state # "Private"
    OBVIOUS
  <2>1. Moves(meta[q], meta'[q]) BY StepLives DEF Lives
  <2> QED BY <2>1 DEF Moves
<1> QED BY <1>1, PoolInvariant, PTL DEF Spec, SealedStaysSealed

-----------------------------------------------------------------------------
(***************************************************************************)
(* Page handles                                                            *)
(***************************************************************************)
\* No generation has wrapped, and a kept handle is of the present life of its
\* page or of an earlier one.
HandleInv ==
    /\ \A p \in Pages :
          /\ meta[p].generation \in 0 .. (MaxGeneration + 1)
          /\ meta[p].state # "Free" => meta[p].generation <= MaxGeneration
    /\ handle # NoHandle =>
          /\ handle \in [phys : Pages, generation : Nat, live : BOOLEAN]
          /\ handle.live => /\ meta[handle.phys].generation = handle.generation
                            /\ meta[handle.phys].state # "Free"
          /\ ~handle.live => handle.generation < meta[handle.phys].generation

\* What a step does to the kept handle.
LEMMA HandleMoves ==
    ASSUME IInv, Next
    PROVE  \/ handle' = handle \/ KeepHandle
           \/ \E p \in Pages : /\ handle' = [phys |-> p, generation |-> meta'[p].generation, live |-> TRUE]
                               /\ meta'[p].state = "Private"
<1>1. ASSUME NEW s \in Slots, NEW n \in 0..cap_tokens, ensure_capacity(s, n), handle' # handle
      PROVE  \E p \in Pages :
                 /\ handle' = [phys |-> p, generation |-> meta'[p].generation, live |-> TRUE]
                 /\ meta'[p].state = "Private"
  <2> DEFINE L == Missing(s, n)
  <2>1. PICK f \in Choices(L) :
          /\ Allocate({f[lp] : lp \in L})
          /\ \E lp \in L : handle' = [phys |-> f[lp], generation |-> meta'[f[lp]].generation, live |-> TRUE]
    BY Zenon, <1>1 DEF ensure_capacity
  <2> HIDE DEF L
  <2>2. PICK lp \in L : handle' = [phys |-> f[lp], generation |-> meta'[f[lp]].generation, live |-> TRUE]
    BY Zenon, <2>1
  <2>3. PICK S \in SUBSET FreeList : S = {f[x] : x \in L}
    BY <2>1, ChosenPages
  <2>4. Allocate(S) /\ f[lp] \in S
    BY <2>1, <2>3
  <2>5. f[lp] \in Pages /\ meta'[f[lp]].state = "Private"
    BY <2>4, AllocatePages
  <2> QED BY Zenon, <2>2, <2>5
<1>2. ASSUME NEW s \in Slots, SlotStep(s), \A n \in 0..cap_tokens : ~ensure_capacity(s, n)
      PROVE  handle' = handle \/ KeepHandle
  BY Zenon, <1>2 DEF SlotStep, acquire, release, reset, release_table, free_pages_from_tail,
              share_published_pages, share_prefix, Attach, seal, plan_cow, plan_cow_oom,
              commit_cow, commit_cow_refused, abort_cow, ReturnReservations
<1>3. ASSUME NEW p \in Pages, PageStep(p) PROVE handle' = handle \/ KeepHandle
  BY <1>3 DEF PageStep, add_cache_ref, release_cache_ref, add_inflight_ref, release_inflight_ref
<1>4. ASSUME drain_completed PROVE KeepHandle
  BY <1>4 DEF drain_completed
<1> QED BY <1>1, <1>2, <1>3, <1>4 DEF Next

\* The generation of a page only grows while it does not wrap, and grows
\* whenever the page is freed.
LEMMA GenerationGrows ==
    ASSUME IInv, HandleInv, MaxGeneration + 1 < GENERATIONS, Next, NEW q \in Pages
    PROVE  /\ meta'[q].generation \in 0 .. (MaxGeneration + 1)
           /\ meta[q].generation <= meta'[q].generation
           /\ meta'[q].state # "Free" => meta'[q].generation <= MaxGeneration
           /\ meta[q].state # "Free" /\ meta'[q].state = "Free" =>
                 meta[q].generation < meta'[q].generation
           /\ meta[q].state # "Free" /\ meta'[q].state # "Free" =>
                 meta[q].generation = meta'[q].generation
<1> DEFINE g == meta[q].generation
<1>1. /\ g \in 0 .. (MaxGeneration + 1)
      /\ meta[q].state # "Free" => g <= MaxGeneration
  BY DEF HandleInv
<1>2. MaxGeneration \in Nat /\ GENERATIONS \in Nat \ {0} BY PageAssumption
<1>3. ASSUME NEW x \in Nat, x <= MaxGeneration PROVE Next_generation(x) = x + 1
  BY <1>2, <1>3 DEF Next_generation
<1>4. Moves(meta[q], meta'[q]) BY StepLives DEF Lives
<1>5. CASE /\ meta'[q].generation = g
           /\ meta[q].state = "Free" <=> meta'[q].state = "Free"
  BY <1>1, <1>2, <1>5
<1>6. CASE /\ meta[q].state # "Free" /\ meta'[q].state = "Free"
           /\ meta'[q].generation = Next_generation(g)
  BY <1>1, <1>2, <1>3, <1>6
<1>7. CASE /\ meta[q].state = "Free" /\ g < MaxGeneration
           /\ meta'[q].state = "Private" /\ meta'[q].generation = Next_generation(g)
  BY <1>1, <1>2, <1>3, <1>7
<1>8. CASE /\ meta[q].state = "Free" /\ g < MaxGeneration /\ meta'[q].state = "Free"
           /\ meta'[q].generation = Next_generation(Next_generation(g))
  <2>1. Next_generation(g) = g + 1 /\ g + 1 \in Nat /\ g + 1 <= MaxGeneration
    BY <1>1, <1>2, <1>3, <1>8
  <2>2. Next_generation(g + 1) = g + 2 BY <1>1, <1>3, <2>1
  <2> QED BY <1>1, <1>2, <1>8, <2>1, <2>2
<1> QED BY Zenon, <1>4, <1>5, <1>6, <1>7, <1>8 DEF Moves

LEMMA HandleStep ==
    ASSUME IInv, HandleInv, MaxGeneration + 1 < GENERATIONS, [Next]_vars
    PROVE  HandleInv'
<1>1. CASE UNCHANGED vars BY <1>1 DEF vars, HandleInv
<1>2. CASE Next
  <2>1. \A q \in Pages :
          /\ meta'[q].generation \in 0 .. (MaxGeneration + 1)
          /\ meta[q].generation <= meta'[q].generation
          /\ meta'[q].state # "Free" => meta'[q].generation <= MaxGeneration
          /\ meta[q].state # "Free" /\ meta'[q].state = "Free" =>
                meta[q].generation < meta'[q].generation
          /\ meta[q].state # "Free" /\ meta'[q].state # "Free" =>
                meta[q].generation = meta'[q].generation
    BY <1>2, GenerationGrows
  <2>2. \A q \in Pages : meta[q].generation \in Nat BY PageAssumption DEF HandleInv
  <2>3. \A q \in Pages : meta'[q].generation \in Nat BY <2>1, PageAssumption
  <2>4. ASSUME NEW p \in Pages, meta'[p].state = "Private",
               handle' = [phys |-> p, generation |-> meta'[p].generation, live |-> TRUE]
        PROVE  HandleInv'
    BY <2>1, <2>3, <2>4 DEF HandleInv
  <2>5. ASSUME handle' = handle, handle = NoHandle PROVE HandleInv'
    BY <2>1, <2>5 DEF HandleInv
  <2>6. ASSUME handle # NoHandle, handle' = handle \/ KeepHandle PROVE HandleInv'
    <3> DEFINE q == handle.phys
    <3>1. handle \in [phys : Pages, generation : Nat, live : BOOLEAN] /\ q \in Pages
          /\ (handle.live => meta[q].generation = handle.generation /\ meta[q].state # "Free")
          /\ (~handle.live => handle.generation < meta[q].generation)
      BY <2>6 DEF HandleInv
    <3>2. Lives(q) BY <1>2, <3>1, StepLives
    <3>3. CASE meta'[q].state = "Free" /\ handle' = [handle EXCEPT !.live = FALSE]
      <4>1. /\ handle' \in [phys : Pages, generation : Nat, live : BOOLEAN] /\ ~handle'.live
            /\ handle'.phys = q /\ handle'.generation = handle.generation
        BY Zenon, <3>1, <3>3
      <4>2. handle.generation < meta'[q].generation BY <2>1, <2>2, <2>3, <3>1, <3>3
      <4> QED BY <2>1, <4>1, <4>2 DEF HandleInv
    <3>4. CASE meta'[q].state # "Free" /\ handle' = handle
      <4>1. handle.live => meta'[q].generation = handle.generation BY <2>1, <3>1, <3>4
      <4>2. ~handle.live => handle.generation < meta'[q].generation
        BY <2>1, <2>2, <2>3, <3>1
      <4> QED BY <2>1, <3>1, <3>4, <4>1, <4>2 DEF HandleInv
    <3>5. CASE meta'[q].state = "Free" /\ meta[q].state = "Free" /\ handle' = handle
      <4>1. ~handle.live BY <3>1, <3>5
      <4>2. handle.generation < meta'[q].generation BY <2>1, <2>2, <2>3, <3>1, <4>1
      <4> QED BY <2>1, <3>1, <3>5, <4>1, <4>2 DEF HandleInv
    <3> QED BY <2>6, <3>2, <3>3, <3>4, <3>5 DEF Lives, KeepHandle
  <2>7. ASSUME KeepHandle, handle = NoHandle PROVE handle' = handle
    BY <2>7 DEF KeepHandle
  <2> QED BY <1>2, <2>4, <2>5, <2>6, <2>7, HandleMoves
<1> QED BY <1>1, <1>2

\* A kept PageHandle is good exactly as long as its page was not freed, over
\* every history in which the page's generation has not come round.
THEOREM HandlesAreExact == MaxGeneration + 1 < GENERATIONS /\ Spec => []HandleIsExact
<1> SUFFICES ASSUME MaxGeneration + 1 < GENERATIONS PROVE Spec => []HandleIsExact
  OBVIOUS
<1>1. Init => HandleInv
  BY PageAssumption DEF Init, HandleInv
<1>2. IInv /\ HandleInv /\ [Next]_vars => HandleInv'
  BY HandleStep
<1>3. HandleInv => HandleIsExact
  <2> SUFFICES ASSUME HandleInv, handle # NoHandle PROVE handle.live <=> validate_handle(handle)
    BY DEF HandleIsExact
  <2>1. handle \in [phys : Pages, generation : Nat, live : BOOLEAN] /\ handle.phys \in Pages
    BY DEF HandleInv
  <2>2. meta[handle.phys].generation \in Nat BY <2>1, PageAssumption DEF HandleInv
  <2> QED BY <2>1, <2>2 DEF HandleInv, validate_handle
<1> QED BY <1>1, <1>2, <1>3, PoolInvariant, PTL DEF Spec

=============================================================================
