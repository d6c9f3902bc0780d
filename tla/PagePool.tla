------------------------------ MODULE PagePool ------------------------------
(***************************************************************************)
(* The paged KV arena: page_pool.rs (page metadata, free list, reclaim     *)
(* queue, prefix sharing, copy-on-write plans) driven by slot_pool.rs      *)
(* (one block table and one generation per slot).  A block table is the    *)
(* function from logical pages to physical ones; lists of pages are        *)
(* counted per page, since the pool only ever asks what is on them.  The   *)
(* order of the free list (a stack) is abstracted to any free page.        *)
(***************************************************************************)
EXTENDS Integers, FiniteSets

CONSTANTS
    Pages,          \* physical pages of the arena
    Slots,          \* slots of the SlotPool
    NoPage,         \* an unmapped logical page
    NoHandle,       \* nobody keeps a PageHandle
    Watched,        \* pages whose PageHandles somebody keeps
    PAGE_TOKENS,    \* KV rows per page
    CapPages,       \* pages of a slot's cap_tokens
    GENERATIONS,    \* 2^w: a generation wraps (wrapping_add)
    MaxGeneration,  \* bound: a page of this generation is not allocated again
    MaxRefs         \* bound on cache and in-flight references of a page

ASSUME PageAssumption ==
    /\ IsFiniteSet(Pages) /\ IsFiniteSet(Slots)
    /\ NoPage \notin Pages /\ Watched \subseteq Pages
    /\ PAGE_TOKENS \in Nat \ {0} /\ CapPages \in Nat \ {0}
    /\ GENERATIONS \in Nat \ {0} /\ MaxGeneration \in Nat /\ MaxRefs \in Nat

LogicalPages == 0..(CapPages - 1)
cap_tokens == CapPages * PAGE_TOKENS
PageState == {"Free", "Private", "Sealed", "CacheOnly", "ReclaimPending"}
PageMeta == [state : PageState, generation : Nat, table_refs : Nat,
             cache_refs : Nat, inflight_refs : Nat]

NoCopy == [src_phys |-> NoPage, dst_phys |-> NoPage]
CowCopy == [src_phys : Pages, dst_phys : Pages]

VARIABLES
    meta,             \* page_meta
    free_pages,       \* how many times a page is on the free list
    reclaim_pending,  \* how many times a page is on the reclaim queue
    in_use,           \* slots that are acquired (and have a block table)
    block_tables,     \* slot -> logical page -> physical page or NoPage
    live_tokens,      \* slot -> live tokens of its table
    cow_plans,        \* slot -> logical page -> pending copy or NoCopy
    handle            \* one PageHandle somebody kept

pool == <<meta, free_pages, reclaim_pending>>
tables == <<block_tables, live_tokens>>
vars == <<meta, free_pages, reclaim_pending, in_use,
          block_tables, live_tokens, cow_plans, handle>>

Mapped(s) == {lp \in LogicalPages : block_tables[s][lp] # NoPage}
num_pages(s) == Cardinality(Mapped(s))
TablePages(s) == {block_tables[s][lp] : lp \in Mapped(s)}
FreeList == {p \in Pages : free_pages[p] > 0}
EmptyTable == [lp \in LogicalPages |-> NoPage]
NoPlan == [lp \in LogicalPages |-> NoCopy]

Copies(s) == {lp \in LogicalPages : cow_plans[s][lp] # NoCopy}
Reserved(s) == {cow_plans[s][lp].dst_phys : lp \in Copies(s)}
Sources(s) == {cow_plans[s][lp].src_phys : lp \in Copies(s)}

(***************************************************************************)
(* Page metadata                                                           *)
(***************************************************************************)
FreedMeta(m) == [m EXCEPT !.state = "Free", !.generation = (@ + 1) % GENERATIONS]

\* alloc_pages and the reservation of plan_cow: a page off the free list.
AllocMeta(m) == [m EXCEPT !.state = "Private", !.generation = (@ + 1) % GENERATIONS, !.table_refs = 1]

\* Variant: every reference is given back twice.
DecTableRefTwice(m) == [m EXCEPT !.table_refs = @ - 2]

\* Variant: the last owner left gets its page back writable.
DecTableRefUnseals(m) ==
    LET d == [m EXCEPT !.table_refs = @ - 1] IN
    IF d.table_refs = 1 /\ d.cache_refs = 0 THEN [d EXCEPT !.state = "Private"]
    ELSE IF d.table_refs > 0 THEN d
    ELSE IF d.cache_refs > 0 THEN [d EXCEPT !.state = "CacheOnly"]
    ELSE IF d.inflight_refs > 0 THEN [d EXCEPT !.state = "ReclaimPending"]
    ELSE FreedMeta(d)

\* dec_table_ref: the last table reference decides where the page goes.
DecTableRef(m) ==
    LET d == [m EXCEPT !.table_refs = @ - 1] IN
    IF d.table_refs > 0 THEN d
    ELSE IF d.cache_refs > 0 THEN [d EXCEPT !.state = "CacheOnly"]
    ELSE IF d.inflight_refs > 0 THEN [d EXCEPT !.state = "ReclaimPending"]
    ELSE FreedMeta(d)

\* Variant: the reservation keeps its reference.
ReleaseReservedKeepsRef(m) == FreedMeta(m)

\* release_reserved: the reservation of a plan goes straight back.
ReleaseReserved(m) == [FreedMeta(m) EXCEPT !.table_refs = 0]

\* refcount_inc: a table attaches; a Private page becomes immutable.
RefcountInc(m) ==
    [m EXCEPT !.table_refs = @ + 1, !.state = IF @ = "Private" THEN "Sealed" ELSE @]

\* share_prefix attaches the same way but always seals.
SharePrefixInc(m) == [m EXCEPT !.table_refs = @ + 1, !.state = "Sealed"]

\* Variant: a cached page stays writable.
AddCacheRefUnsealed(m) == [m EXCEPT !.cache_refs = @ + 1]

AddCacheRef(m) ==
    [m EXCEPT !.cache_refs = @ + 1, !.state = IF @ = "Private" THEN "Sealed" ELSE @]

ReleaseCacheRef(m) ==
    LET d == [m EXCEPT !.cache_refs = @ - 1] IN
    IF d.table_refs > 0 \/ d.cache_refs > 0 THEN d
    ELSE IF d.inflight_refs > 0 THEN [d EXCEPT !.state = "ReclaimPending"]
    ELSE FreedMeta(d)

Attachable(p) == meta[p].state \notin {"Free", "ReclaimPending"}

\* Variant: only the state tells a stale handle.
validate_handle_by_state(h) == meta[h.phys].state # "Free"

validate_handle(h) ==
    /\ meta[h.phys].generation = h.generation
    /\ meta[h.phys].state # "Free"

\* Gives the pages of new their new records; the ones that become Free or
\* ReclaimPending by it are pushed on the list of that state.
Rewrite(new) ==
    /\ meta' = [p \in Pages |-> IF p \in DOMAIN new THEN new[p] ELSE meta[p]]
    /\ free_pages' = [p \in Pages |->
           IF p \in DOMAIN new /\ new[p].state = "Free" THEN free_pages[p] + 1 ELSE free_pages[p]]
    /\ reclaim_pending' = [p \in Pages |->
           IF /\ p \in DOMAIN new
              /\ new[p].state = "ReclaimPending" /\ meta[p].state # "ReclaimPending"
           THEN reclaim_pending[p] + 1 ELSE reclaim_pending[p]]

\* Pops the pages of S off the free list and allocates them.
Allocate(S) ==
    /\ meta' = [p \in Pages |-> IF p \in S THEN AllocMeta(meta[p]) ELSE meta[p]]
    /\ free_pages' = [p \in Pages |-> IF p \in S THEN free_pages[p] - 1 ELSE free_pages[p]]
    /\ UNCHANGED reclaim_pending

Fresh(p) == meta[p].generation < MaxGeneration

\* The ways to take free pages for the logical pages of L, one each.
Choices(L) == {f \in [L -> {p \in FreeList : Fresh(p)}] :
                  \A a, b \in L : f[a] = f[b] => a = b}

\* A handle stays good until its page is freed.
KeepHandle ==
    handle' = IF handle # NoHandle /\ meta'[handle.phys].state = "Free"
              THEN [handle EXCEPT !.live = FALSE] ELSE handle

-----------------------------------------------------------------------------
Init ==
    /\ meta = [p \in Pages |-> [state |-> "Free", generation |-> 0, table_refs |-> 0,
                                cache_refs |-> 0, inflight_refs |-> 0]]
    /\ free_pages = [p \in Pages |-> 1]
    /\ reclaim_pending = [p \in Pages |-> 0]
    /\ in_use = {}
    /\ block_tables = [s \in Slots |-> EmptyTable]
    /\ live_tokens = [s \in Slots |-> 0]
    /\ cow_plans = [s \in Slots |-> NoPlan]
    /\ handle = NoHandle

(***************************************************************************)
(* Slots: acquire gives a fresh table, release returns its pages.  A slot  *)
(* that is not in use has no table: every table operation on it refuses.   *)
(***************************************************************************)
acquire(s) ==
    /\ s \notin in_use
    /\ in_use' = in_use \cup {s}
    /\ UNCHANGED <<pool, tables, cow_plans, handle>>

\* reset's own release_table leaves an empty table for release to drop.
release_table(s) ==
    /\ Rewrite([p \in TablePages(s) |-> DecTableRef(meta[p])])
    /\ block_tables' = [block_tables EXCEPT ![s] = EmptyTable]
    /\ live_tokens' = [live_tokens EXCEPT ![s] = 0]
    /\ KeepHandle

release(s) ==
    /\ s \in in_use
    /\ release_table(s)
    /\ in_use' = in_use \ {s}
    /\ UNCHANGED cow_plans

reset(s) ==
    /\ s \in in_use
    /\ release_table(s)
    /\ UNCHANGED <<in_use, cow_plans>>

(***************************************************************************)
(* Capacity: ensure_capacity behind set_seq_len and provision_pages_for.   *)
(* A shorter length keeps the pages; a longer one takes all it needs or    *)
(* refuses without a change.                                               *)
(***************************************************************************)
\* The logical pages beyond the table that the first n tokens reach.
Missing(s, n) == {lp \in LogicalPages : num_pages(s) <= lp /\ lp * PAGE_TOKENS < n}

ensure_capacity(s, n) ==
    /\ s \in in_use
    /\ n <= cap_tokens
    /\ LET fresh == Missing(s, n) IN
       \E f \in Choices(fresh) :
          /\ Allocate({f[lp] : lp \in fresh})
          /\ block_tables' = [block_tables EXCEPT ![s] =
                [lp \in LogicalPages |-> IF lp \in fresh THEN f[lp] ELSE @[lp]]]
          /\ live_tokens' = [live_tokens EXCEPT ![s] = n]
          /\ handle' \in {handle} \cup                    \* alloc_pages_checked
                {[phys |-> f[lp], generation |-> meta'[f[lp]].generation, live |-> TRUE] :
                    lp \in {l \in fresh : f[l] \in Watched}}
    /\ UNCHANGED <<in_use, cow_plans>>

\* free_pages_from_tail: drops the last n pages of the table.
free_pages_from_tail(s, n) ==
    /\ s \in in_use
    /\ n \in 1..num_pages(s)
    /\ LET keep == num_pages(s) - n
           freed == {block_tables[s][lp] : lp \in keep..(num_pages(s) - 1)} IN
       /\ Rewrite([p \in freed |-> DecTableRef(meta[p])])
       /\ block_tables' = [block_tables EXCEPT ![s] =
             [lp \in LogicalPages |-> IF lp < keep THEN @[lp] ELSE NoPage]]
       /\ live_tokens' = [live_tokens EXCEPT ![s] = IF @ > keep * PAGE_TOKENS
                                                    THEN keep * PAGE_TOKENS ELSE @]
    /\ KeepHandle
    /\ UNCHANGED <<in_use, cow_plans>>

(***************************************************************************)
(* Prefix sharing.  share_prefix forks a whole-page prefix of another      *)
(* slot; share_published_pages maps pages the prefix index holds, which    *)
(* it lists once each.  Both fill an empty table.                          *)
(***************************************************************************)
Attach(dst, n, f, new) ==
    /\ Rewrite(new)
    /\ block_tables' = [block_tables EXCEPT ![dst] =
          [lp \in LogicalPages |-> IF lp < n THEN f[lp] ELSE NoPage]]
    /\ live_tokens' = [live_tokens EXCEPT ![dst] = n * PAGE_TOKENS]
    /\ UNCHANGED <<in_use, cow_plans, handle>>

share_prefix(src, dst, n) ==
    /\ src \in in_use /\ dst \in in_use
    /\ n \in 1..num_pages(src)
    /\ n * PAGE_TOKENS <= live_tokens[src]
    /\ num_pages(dst) = 0
    /\ LET shared == {block_tables[src][lp] : lp \in 0..(n - 1)} IN
       Attach(dst, n, block_tables[src], [p \in shared |-> SharePrefixInc(meta[p])])

share_published_pages(dst, n) ==
    /\ dst \in in_use
    /\ n \in 1..CapPages
    /\ num_pages(dst) = 0
    /\ \E f \in [0..(n - 1) -> {p \in Pages : meta[p].cache_refs > 0}] :
          /\ \A a, b \in 0..(n - 1) : f[a] = f[b] => a = b
          /\ \A lp \in 0..(n - 1) : Attachable(f[lp])
          /\ LET shared == {f[lp] : lp \in 0..(n - 1)} IN
             Attach(dst, n, f, [p \in shared |-> RefcountInc(meta[p])])

\* seal: the owner of a full page freezes it for publication.
seal(s, lp) ==
    /\ lp \in Mapped(s)
    /\ meta[block_tables[s][lp]].state = "Private"
    /\ meta' = [meta EXCEPT ![block_tables[s][lp]].state = "Sealed"]
    /\ UNCHANGED <<free_pages, reclaim_pending, in_use, tables, cow_plans, handle>>

(***************************************************************************)
(* Copy-on-write.  plan_cow reserves a private page for every immutable    *)
(* page of the write interval, or nothing when the arena runs out;         *)
(* commit_cow rebinds the table if it still maps every source, and         *)
(* otherwise returns the reservations, as abort_cow does.                  *)
(***************************************************************************)
NeedsCow(s, write_start, write_end) ==
    {lp \in Mapped(s) :
        /\ lp * PAGE_TOKENS < write_end /\ write_start < (lp + 1) * PAGE_TOKENS
        /\ meta[block_tables[s][lp]].state \in {"Sealed", "CacheOnly"}}

plan_cow(s, write_start, write_end) ==
    /\ s \in in_use
    /\ write_start < write_end
    /\ cow_plans[s] = NoPlan
    /\ LET L == NeedsCow(s, write_start, write_end) IN
       \E f \in Choices(L) :
          /\ Allocate({f[lp] : lp \in L})
          /\ cow_plans' = [cow_plans EXCEPT ![s] = [lp \in LogicalPages |->
                IF lp \in L THEN [src_phys |-> block_tables[s][lp], dst_phys |-> f[lp]]
                ELSE NoCopy]]
    /\ UNCHANGED <<in_use, tables, handle>>

\* Out of pages: what was reserved on the way is returned, a generation older.
plan_cow_oom(s, write_start, write_end) ==
    /\ s \in in_use
    /\ write_start < write_end
    /\ cow_plans[s] = NoPlan
    /\ Cardinality(NeedsCow(s, write_start, write_end)) > Cardinality(FreeList)
    /\ \A p \in FreeList : Fresh(p)
    /\ meta' = [p \in Pages |-> IF p \in FreeList THEN ReleaseReserved(AllocMeta(meta[p]))
                               ELSE meta[p]]
    /\ UNCHANGED <<free_pages, reclaim_pending, in_use, tables, cow_plans, handle>>

\* Variant: the sources are asked for a reference, not for this table's.
StillReferenced(s) == \A lp \in Copies(s) : meta[cow_plans[s][lp].src_phys].table_refs > 0

StillMapped(s) ==
    \A lp \in Copies(s) :
        /\ block_tables[s][lp] = cow_plans[s][lp].src_phys
        /\ meta[cow_plans[s][lp].src_phys].table_refs > 0

commit_cow(s) ==
    /\ s \in in_use
    /\ Copies(s) # {}
    /\ StillMapped(s)
    /\ Rewrite([p \in Sources(s) |-> DecTableRef(meta[p])])
    /\ block_tables' = [block_tables EXCEPT ![s] =
          [lp \in LogicalPages |-> IF lp \in Copies(s) THEN cow_plans[s][lp].dst_phys
                                  ELSE @[lp]]]
    /\ cow_plans' = [cow_plans EXCEPT ![s] = NoPlan]
    /\ KeepHandle
    /\ UNCHANGED <<in_use, live_tokens>>

ReturnReservations(s) ==
    /\ Rewrite([p \in Reserved(s) |-> ReleaseReserved(meta[p])])
    /\ cow_plans' = [cow_plans EXCEPT ![s] = NoPlan]
    /\ KeepHandle
    /\ UNCHANGED <<in_use, tables>>

commit_cow_refused(s) == s \in in_use /\ Copies(s) # {} /\ ~StillMapped(s) /\ ReturnReservations(s)

abort_cow(s) == Copies(s) # {} /\ ReturnReservations(s)

(***************************************************************************)
(* References of the prefix index and of device work.  Device work reads   *)
(* pages through a table, so it pins pages some table maps.                *)
(***************************************************************************)
OnTable(p) == \E s \in Slots : p \in TablePages(s)

add_cache_ref(p) ==
    /\ OnTable(p)                          \* the publishing slot maps it
    /\ Attachable(p)
    /\ meta[p].cache_refs < MaxRefs
    /\ Rewrite([q \in {p} |-> AddCacheRef(meta[p])])
    /\ UNCHANGED <<in_use, tables, cow_plans, handle>>

release_cache_ref(p) ==
    /\ meta[p].cache_refs > 0
    /\ Rewrite([q \in {p} |-> ReleaseCacheRef(meta[p])])
    /\ KeepHandle
    /\ UNCHANGED <<in_use, tables, cow_plans>>

add_inflight_ref(p) ==
    /\ OnTable(p)
    /\ Attachable(p)
    /\ meta[p].inflight_refs < MaxRefs
    /\ meta' = [meta EXCEPT ![p].inflight_refs = @ + 1]
    /\ UNCHANGED <<free_pages, reclaim_pending, in_use, tables, cow_plans, handle>>

\* Variant: the completion is refused for a page that was freed under it.
release_inflight_attached(p) ==
    /\ Attachable(p) /\ meta[p].inflight_refs > 0
    /\ meta' = [meta EXCEPT ![p].inflight_refs = @ - 1]
    /\ UNCHANGED <<free_pages, reclaim_pending, in_use, tables, cow_plans, handle>>

release_inflight_ref(p) ==
    /\ meta[p].inflight_refs > 0
    /\ meta' = [meta EXCEPT ![p].inflight_refs = @ - 1]
    /\ UNCHANGED <<free_pages, reclaim_pending, in_use, tables, cow_plans, handle>>

Drained(p) ==
    /\ reclaim_pending[p] > 0
    /\ meta[p].inflight_refs = 0 /\ meta[p].table_refs = 0 /\ meta[p].cache_refs = 0

drain_completed ==
    /\ \E p \in Pages : Drained(p)
    /\ meta' = [p \in Pages |-> IF Drained(p) THEN FreedMeta(meta[p]) ELSE meta[p]]
    /\ free_pages' = [p \in Pages |->
          IF Drained(p) THEN free_pages[p] + reclaim_pending[p] ELSE free_pages[p]]
    /\ reclaim_pending' = [p \in Pages |-> IF Drained(p) THEN 0 ELSE reclaim_pending[p]]
    /\ KeepHandle
    /\ UNCHANGED <<in_use, tables, cow_plans>>
-----------------------------------------------------------------------------
SlotStep(s) ==
    \/ acquire(s) \/ release(s) \/ reset(s)
    \/ \E n \in 0..cap_tokens : ensure_capacity(s, n)
    \/ \E n \in 1..CapPages : free_pages_from_tail(s, n) \/ share_published_pages(s, n)
    \/ \E src \in Slots, n \in 1..CapPages : share_prefix(src, s, n)
    \/ \E lp \in LogicalPages : seal(s, lp)
    \/ \E a, b \in 0..cap_tokens : plan_cow(s, a, b) \/ plan_cow_oom(s, a, b)
    \/ commit_cow(s) \/ commit_cow_refused(s) \/ abort_cow(s)

PageStep(p) ==
    \/ add_cache_ref(p) \/ release_cache_ref(p)
    \/ add_inflight_ref(p) \/ release_inflight_ref(p)

Next == (\E s \in Slots : SlotStep(s)) \/ (\E p \in Pages : PageStep(p)) \/ drain_completed

Spec == Init /\ [][Next]_vars

\* Device work completes, and the engine drains the reclaim queue every step.
Fairness == WF_vars(drain_completed) /\ \A p \in Pages : WF_vars(release_inflight_ref(p))
FairSpec == Spec /\ Fairness
-----------------------------------------------------------------------------
TypeOK ==
    /\ meta \in [Pages -> PageMeta]
    /\ free_pages \in [Pages -> Nat] /\ reclaim_pending \in [Pages -> Nat]
    /\ in_use \subseteq Slots
    /\ block_tables \in [Slots -> [LogicalPages -> Pages \cup {NoPage}]]
    /\ live_tokens \in [Slots -> Nat]
    /\ cow_plans \in [Slots -> [LogicalPages -> CowCopy \cup {NoCopy}]]

\* PagePool::check_invariants: the free list holds exactly the Free pages,
\* the reclaim queue exactly the ReclaimPending ones, once each; only an
\* in-flight reference outlives the owners, and every other page has one.
PageAccounting ==
    \A p \in Pages :
        /\ free_pages[p] = (IF meta[p].state = "Free" THEN 1 ELSE 0)
        /\ reclaim_pending[p] = (IF meta[p].state = "ReclaimPending" THEN 1 ELSE 0)
        /\ (meta[p].table_refs + meta[p].cache_refs > 0)
              <=> (meta[p].state \in {"Private", "Sealed", "CacheOnly"})
        /\ meta[p].state = "Free" => meta[p].inflight_refs = 0

\* Who holds a table reference: mappings, and reservations of pending plans.
Mappings(p) == {o \in Slots \X LogicalPages : block_tables[o[1]][o[2]] = p}
Reservations(p) == {o \in Slots \X LogicalPages : cow_plans[o[1]][o[2]].dst_phys = p}

\* A page's table_refs counts exactly the mappings and the reservations of
\* it, across sharing, copy-on-write, aborts and slot releases: no page is
\* freed under a table that still maps it, and none leaks.
TableRefsExact ==
    \A p \in Pages :
        meta[p].table_refs = Cardinality(Mappings(p)) + Cardinality(Reservations(p))

\* A Private page is written in place (plan_cow skips it): nobody else
\* reads it, neither another table nor the prefix index.
PrivateIsUnshared ==
    \A p \in Pages : meta[p].state = "Private" => meta[p].table_refs = 1 /\ meta[p].cache_refs = 0

\* validate_handle accepts a kept PageHandle exactly as long as its page has
\* not been freed since, however often the page was handed out again.
HandleIsExact ==
    handle # NoHandle => (handle.live <=> validate_handle(handle))

\* An immutable page never turns writable again while it is allocated.
SealedStaysSealed ==
    [][\A p \in Pages : meta[p].state \in {"Sealed", "CacheOnly"} => meta'[p].state # "Private"]_vars

\* A page whose owners are gone is freed once its device work completed.
ReclaimCompletes ==
    \A p \in Pages : meta[p].state = "ReclaimPending" ~> meta[p].state = "Free"

=============================================================================
