----------------------------- MODULE SlotEngine -----------------------------
(***************************************************************************)
(* The multi-slot serve engine of serve_engine.rs (run_loop,               *)
(* handle_command, admit, evict, restore, sweep_sessions) over the session *)
(* table, the admission controller, the slot pool, the swap manager and    *)
(* the wait queue.  The engine is one thread: pc says where in its loop it *)
(* is.  What runs beside it are the clients (they submit, cancel, close,   *)
(* reset and vanish) and the clock that makes a waiter's deadline pass.    *)
(*                                                                         *)
(* Prompts, tokens and pages are abstracted: a request has a conversation, *)
(* a turn and a grant; whether a context is full, a page demand is met, a  *)
(* snapshot is captured or a restore succeeds is an outcome the            *)
(* environment picks, when Faults allows it.                               *)
(***************************************************************************)
EXTENDS Integers, Sequences, FiniteSets, FiniteSetsExt, Totals

CONSTANTS
    Requests,       \* SubmitRequests of the run
    Conversations,
    Conv, Turn,     \* a request's conversation and its user turn (req.convo)
    Kind,           \* "cold", "user" (UserTurn) or "tool" (ToolResults)
    Grant,          \* prompt + max_tokens, what the request is admitted for
    Long,           \* requests whose prompt exceeds the context cap
    Slots,          \* slots 0..n_slots-1
    Weights,        \* weights_bytes of the admission footprint
    Budget,         \* budget_bytes
    MAX_WAITERS,    \* max_count of the wait queue
    MAX_SESSIONS,   \* hard cap of sweep_sessions
    QueueTimeout,   \* queue_timeout_ms is not 0
    SessionTTL,     \* session_ttl_secs is not 0
    Faults,         \* which of the outcomes below may happen
    Leavers,        \* bound: requests whose client may drop its receiver
    MaxSteps        \* bound: forward steps of one generation

ASSUME EngineAssumption ==
    /\ IsFiniteSet(Requests) /\ Slots \subseteq Nat /\ IsFiniteSet(Slots)
    /\ Conv \in [Requests -> Conversations] /\ Turn \in [Requests -> Nat \ {0}]
    /\ Kind \in [Requests -> {"cold", "user", "tool"}]
    /\ Grant \in [Requests -> Nat \ {0}]
    /\ Long \subseteq Requests
    /\ Weights \in Nat /\ Budget \in Nat /\ MAX_WAITERS \in Nat \ {0}
    /\ QueueTimeout \in BOOLEAN /\ SessionTTL \in BOOLEAN
    /\ Faults \subseteq {"full", "over", "pages", "grammar", "begin", "dn_reset",
                         "capture", "unpark", "restore", "lru_disk", "poison"}
    /\ Leavers \subseteq Requests
    /\ MaxSteps \in Nat

Ids == 1..Cardinality(Requests)     \* a request mints at most one session id
NoId == 0
NoSlot == -1
NoReq == "no_request"
NoSession == [residency |-> "None", slot |-> NoSlot, admitted |-> FALSE,
              ctx |-> 0, convo |-> <<>>]
Idle == [req |-> NoReq, session |-> NoId]

ASSUME NoReqAssumption == NoReq \notin Requests

VARIABLES
    sess,         \* SessionTable.sessions: id -> session or NoSession
    next_id,      \* SessionTable.next_id
    last_used,    \* rank of a session in the LRU order
    free,         \* slots the SlotPool has free
    adm,          \* AdmissionController.admitted: id -> ctx, 0 for none
    swap,         \* ids whose snapshot the swap store holds
    inflight,     \* run_loop's slots: slot -> InFlight or Idle
    left,         \* slot -> forward steps until max_tokens
    fair,         \* ids in the FairQueue
    wait_queue,   \* WaitQueue.waiters
    parked,       \* parked_requests: request -> enqueued_at, 0 for absent
    stamps,       \* clock of enqueued_at
    overdue,      \* parked requests whose deadline has passed
    pc,           \* where the loop is
    cur,          \* the request in admit
    from,         \* admit was called for a "command" or in the "drain"
    repark_age,   \* pending_repark_age
    existing,     \* the session admit matched, then the one it opened
    target,       \* slot acquired for a restore
    cold_reuse,   \* matched session whose snapshot was lost
    senders,      \* some EngineCommand sender is alive
    submitted,    \* requests that were submitted
    gone,         \* requests whose client dropped its receiver
    answers,      \* terminal events of a request; "dropped" for a dropped reply
    told          \* conversation -> last session id its client was Accepted with

table == <<sess, free, adm>>
ids == <<next_id, last_used>>
active == <<inflight, left, fair>>
queue == <<wait_queue, parked, stamps, overdue>>
admitting == <<cur, from, repark_age, existing, target, cold_reuse>>
clients == <<senders, submitted, gone, told>>
vars == <<table, ids, swap, active, queue, pc, admitting, clients, answers>>

-----------------------------------------------------------------------------
(***************************************************************************)
(* Who is what                                                             *)
(***************************************************************************)
Live == {i \in Ids : sess[i] # NoSession}
Busy == {inflight[s].session : s \in Slots} \ {NoId}
AllIdle == \A s \in Slots : inflight[s] = Idle
MayFail(f) == f \in Faults

\* lru_idle_victim: the least recently used session that holds a slot and
\* does not generate.
Victims(except) == {i \in Live : sess[i].slot # NoSlot /\ i \notin Busy /\ i # except}
Oldest(i, S) == i \in S /\ \A j \in S : last_used[i] <= last_used[j]

\* last_used after the sessions of T are touched, in the order of their rank in at.
Touch(T, at) ==
    [i \in Ids |->
        IF i \in T THEN Cardinality(Ids \ T) + Cardinality({j \in T : at[j] <= at[i]})
        ELSE Cardinality({j \in Ids \ T : last_used[j] <= last_used[i]})]
TouchOne(i) == last_used' = Touch({i}, last_used)

(***************************************************************************)
(* AdmissionController: the weights are charged with the first grant, and  *)
(* the last byte of the budget is never given away.                        *)
(***************************************************************************)
used_bytes == IF \A i \in Ids : adm[i] = 0 THEN 0 ELSE Weights + Total(adm)
available == IF used_bytes > Budget THEN 0 ELSE Budget - used_bytes

Fits(ctx) == ctx + (IF \A i \in Ids : adm[i] = 0 THEN Weights ELSE 0) < available
ResizeFits(i, ctx) == ctx > adm[i] => ctx - adm[i] < available

(***************************************************************************)
(* SessionTable: a session gives its slot and its grant back together.     *)
(***************************************************************************)
Freed(S) == free \cup ({sess[i].slot : i \in S} \ {NoSlot})
Released(S) == [i \in Ids |-> IF i \in S /\ sess[i].admitted THEN 0 ELSE adm[i]]

CloseAll(S) ==
    /\ sess' = [i \in Ids |-> IF i \in S THEN NoSession ELSE sess[i]]
    /\ free' = Freed(S)
    /\ adm' = Released(S)

close(i) == CloseAll({i})

Parked(i, residency) ==
    [sess EXCEPT ![i].slot = NoSlot, ![i].admitted = FALSE, ![i].residency = residency]

\* Variant: a failed snapshot leaves the grant behind.
mark_cold_keeps_grant(i) ==
    sess' = [Parked(i, "Cold") EXCEPT ![i].admitted = sess[i].admitted]
    /\ free' = Freed({i}) /\ UNCHANGED adm

mark_swapped(i) == sess' = Parked(i, "Swapped") /\ free' = Freed({i}) /\ adm' = Released({i})
mark_cold(i) == sess' = Parked(i, "Cold") /\ free' = Freed({i}) /\ adm' = Released({i})

-----------------------------------------------------------------------------
Init ==
    /\ sess = [i \in Ids |-> NoSession] /\ next_id = 1 /\ last_used = [i \in Ids |-> i]
    /\ free = Slots /\ adm = [i \in Ids |-> 0] /\ swap = {}
    /\ inflight = [s \in Slots |-> Idle] /\ left = [s \in Slots |-> 0] /\ fair = {}
    /\ wait_queue = <<>> /\ parked = [r \in Requests |-> 0] /\ stamps = 0 /\ overdue = {}
    /\ pc = "recv" /\ cur = NoReq /\ from = "command" /\ repark_age = 0
    /\ existing = NoId /\ target = NoSlot /\ cold_reuse = NoId
    /\ senders = TRUE /\ submitted = {} /\ gone = {}
    /\ answers = [r \in Requests |-> <<>>] /\ told = [c \in Conversations |-> NoId]

Answer(r, kind) == answers' = [answers EXCEPT ![r] = Append(@, kind)]

\* admit returns; the drain loop goes on only when the request was placed.
Return(placed) ==
    /\ pc' = IF from = "drain" THEN (IF placed THEN "drain" ELSE "drained") ELSE "recv"
    /\ cur' = NoReq /\ from' = "command" /\ repark_age' = 0
    /\ existing' = NoId /\ target' = NoSlot /\ cold_reuse' = NoId

Reject == Answer(cur, "rejected") /\ Return(FALSE)

(***************************************************************************)
(* The wait queue and the requests parked in it                            *)
(***************************************************************************)
\* What is left of q without the requests of R, in line order.
Without(q, R) ==
    LET keep == {a \in DOMAIN q : q[a] \notin R}
    IN  [n \in 1..Cardinality(keep) |->
            q[CHOOSE a \in keep : Cardinality({b \in keep : b <= a}) = n]]

\* Variant: every retry is stamped as if it had just come in.
ParkFresh(r, age) ==
    /\ Len(wait_queue) < MAX_WAITERS
    /\ wait_queue' = Append(wait_queue, r)
    /\ parked' = [parked EXCEPT ![r] = stamps + 1]
    /\ stamps' = stamps + 1
    /\ UNCHANGED overdue

\* try_enqueue at the tail; a retry keeps the age it was first parked with.
Park(r, age) ==
    /\ Len(wait_queue) < MAX_WAITERS
    /\ wait_queue' = Append(wait_queue, r)
    /\ parked' = [parked EXCEPT ![r] = IF age # 0 THEN age ELSE stamps + 1]
    /\ stamps' = IF age # 0 THEN stamps ELSE stamps + 1
    /\ UNCHANGED overdue

\* Variant: the waiter stays in line.
UnparkRequestsOnly(R) ==
    /\ parked' = [r \in Requests |-> IF r \in R THEN 0 ELSE parked[r]]
    /\ overdue' = overdue \ R
    /\ UNCHANGED <<wait_queue, stamps>>

Unpark(R) ==
    /\ wait_queue' = Without(wait_queue, R)
    /\ parked' = [r \in Requests |-> IF r \in R THEN 0 ELSE parked[r]]
    /\ overdue' = overdue \ R
    /\ UNCHANGED stamps

RejectAll(R) ==
    answers' = [r \in Requests |-> IF r \in R THEN Append(answers[r], "rejected") ELSE answers[r]]

Waiting == {r \in Requests : parked[r] # 0}

(***************************************************************************)
(* handle_command, from the blocking recv, the try_recv loop or the sleep  *)
(* of an engine that could place nobody                                    *)
(***************************************************************************)
Receiving == pc \in {"recv", "sleep"} /\ senders

\* Nobody waits: admit at once.
Submit(r) ==
    /\ Receiving /\ r \notin submitted
    /\ wait_queue = <<>>
    /\ submitted' = submitted \cup {r}
    /\ pc' = "sweep" /\ cur' = r /\ from' = "command"
    /\ UNCHANGED <<table, ids, swap, active, queue, answers, senders, gone, told,
                   repark_age, existing, target, cold_reuse>>

\* Somebody waits: the newcomer queues up behind.
SubmitParks(r) ==
    /\ Receiving /\ r \notin submitted
    /\ wait_queue # <<>>
    /\ submitted' = submitted \cup {r}
    /\ pc' = "recv"
    /\ \/ Park(r, 0) /\ UNCHANGED answers
       \/ Len(wait_queue) >= MAX_WAITERS /\ Answer(r, "rejected") /\ UNCHANGED queue
    /\ UNCHANGED <<table, ids, swap, active, admitting, senders, gone, told>>

CancelWaiting(r) ==
    /\ Receiving /\ r \in Waiting
    /\ pc' = "recv"
    /\ Unpark({r}) /\ Answer(r, "rejected")
    /\ UNCHANGED <<table, ids, swap, active, admitting, clients>>

\* Variant: a closed session's snapshot is left to the sweep.
CloseKeepsSnapshot(i) ==
    /\ Receiving /\ i < next_id
    /\ pc' = "recv"
    /\ close(i) /\ UNCHANGED swap
    /\ inflight' = [s \in Slots |-> IF inflight[s].session = i THEN Idle ELSE inflight[s]]
    /\ left' = [s \in Slots |-> IF inflight[s].session = i THEN 0 ELSE left[s]]
    /\ fair' = fair \ {i}
    /\ answers' = [r \in Requests |->
          IF \E s \in Slots : inflight[s] = [req |-> r, session |-> i]
          THEN Append(answers[r], "dropped") ELSE answers[r]]
    /\ UNCHANGED <<ids, queue, admitting, clients>>

\* A session in flight is cancelled: its reply is dropped without an event.
Close(i) ==
    /\ Receiving /\ i < next_id
    /\ pc' = "recv"
    /\ close(i) /\ swap' = swap \ {i}
    /\ inflight' = [s \in Slots |-> IF inflight[s].session = i THEN Idle ELSE inflight[s]]
    /\ left' = [s \in Slots |-> IF inflight[s].session = i THEN 0 ELSE left[s]]
    /\ fair' = fair \ {i}
    /\ answers' = [r \in Requests |->
          IF \E s \in Slots : inflight[s] = [req |-> r, session |-> i]
          THEN Append(answers[r], "dropped") ELSE answers[r]]
    /\ UNCHANGED <<ids, queue, admitting, clients>>

\* Refused while anything is in flight or queued.
Reset ==
    /\ Receiving /\ AllIdle /\ wait_queue = <<>>
    /\ Live # {}
    /\ pc' = "recv"
    /\ CloseAll(Live) /\ swap' = swap \ Live
    /\ UNCHANGED <<ids, active, queue, admitting, clients, answers>>

(***************************************************************************)
(* Eviction and the sweep                                                  *)
(***************************************************************************)
\* evict: the snapshot is parked, or the victim goes Cold.  Either way the put
\* may have pushed others off the disk tier first.
evict(v) ==
    \E lost \in (IF MayFail("lru_disk") THEN SUBSET swap ELSE {{}}) :
        \/ mark_swapped(v) /\ swap' = (swap \ lost) \cup {v}
        \/ MayFail("capture") /\ mark_cold(v) /\ swap' = swap \ lost

\* sweep_expired: parked sessions past the TTL, oldest first, then the
\* oldest parked ones beyond the cap.
Sweepable == {i \in Live : sess[i].residency # "Resident"}
OldestOf(n) == {i \in Sweepable :
                   Cardinality({j \in Sweepable : last_used[j] <= last_used[i]}) <= n}
Excess == IF Cardinality(Live) > MAX_SESSIONS THEN Cardinality(Live) - MAX_SESSIONS ELSE 0

sweep_sessions ==
    \E n \in 0..Cardinality(Sweepable) :
        /\ n >= (IF Excess < Cardinality(Sweepable) THEN Excess ELSE Cardinality(Sweepable))
        /\ n > Excess => SessionTTL
        /\ CloseAll(OldestOf(n))
        /\ swap' = swap \ OldestOf(n)
        /\ fair' = fair \ OldestOf(n)

\* The timed recv of an idle engine wakes up to sweep.
IdleSweep ==
    /\ pc = "recv" /\ senders /\ SessionTTL /\ AllIdle /\ wait_queue = <<>>
    /\ sweep_sessions
    /\ UNCHANGED <<ids, inflight, left, queue, pc, admitting, clients, answers>>

(***************************************************************************)
(* admit, first part: find the session the request continues, and bring    *)
(* it back when it was swapped out                                         *)
(***************************************************************************)
Convo(r) == <<Conv[r], Turn[r]>>

\* Variant: a user turn extends any session that is a turn behind.
CandidatesByTurn(r) ==
    {i \in Live \ Busy :
        /\ sess[i].residency # "Cold"
        /\ Kind[r] = "user" /\ Turn[r] > 1 /\ sess[i].convo # <<>> /\ sess[i].convo[2] = Turn[r] - 1}

\* find_continuation and confirm_reentry: a user turn extends the one session
\* that is a turn behind; tool results re-enter the session that was named.
Candidates(r) ==
    {i \in Live \ Busy :
        /\ sess[i].residency # "Cold"
        /\ \/ Kind[r] = "user" /\ Turn[r] > 1 /\ sess[i].convo = <<Conv[r], Turn[r] - 1>>
           \/ Kind[r] = "tool" /\ sess[i].convo = Convo(r) /\ i = told[Conv[r]]}

AdmitSweeps ==
    /\ pc = "sweep"
    /\ sweep_sessions
    /\ pc' = "match"
    /\ UNCHANGED <<ids, inflight, left, queue, admitting, clients, answers>>

NoMatch ==
    /\ pc = "match"
    /\ Cardinality(Candidates(cur)) # 1
    /\ pc' = "cold"
    /\ UNCHANGED <<table, ids, swap, active, queue, admitting, clients, answers>>

MatchResident(i) ==
    /\ pc = "match" /\ Candidates(cur) = {i}
    /\ sess[i].slot # NoSlot
    /\ existing' = i /\ pc' = "turn"
    /\ UNCHANGED <<table, ids, swap, active, queue, clients, answers,
                   cur, from, repark_age, target, cold_reuse>>

\* A swapped session needs a slot: a free one, or the one of an idle victim.
MatchSwapped(i) ==
    /\ pc = "match" /\ Candidates(cur) = {i}
    /\ sess[i].slot = NoSlot /\ free # {}
    /\ existing' = i /\ pc' = "restore"
    /\ target' = Min(free) /\ free' = free \ {Min(free)}
    /\ UNCHANGED <<sess, adm, swap, ids, active, queue, clients, answers,
                   cur, from, repark_age, cold_reuse>>

MatchEvicts(i) ==
    /\ pc = "match" /\ Candidates(cur) = {i}
    /\ sess[i].slot = NoSlot /\ free = {}
    /\ \E v \in Victims(NoId) : Oldest(v, Victims(NoId)) /\ evict(v)
    /\ UNCHANGED <<ids, active, queue, pc, admitting, clients, answers>>

\* Every slot generates: the cold path below will park the request.
MatchNoSlot(i) ==
    /\ pc = "match" /\ Candidates(cur) = {i}
    /\ sess[i].slot = NoSlot /\ free = {} /\ Victims(NoId) = {}
    /\ pc' = "cold"
    /\ UNCHANGED <<table, ids, swap, active, queue, admitting, clients, answers>>

\* restore: the grant first, then the snapshot.
RestoreOk ==
    /\ pc = "restore"
    /\ Fits(sess[existing].ctx) /\ existing \in swap
    /\ adm' = [adm EXCEPT ![existing] = @ + sess[existing].ctx]
    /\ sess' = [sess EXCEPT ![existing].admitted = TRUE, ![existing].slot = target,
                            ![existing].residency = "Resident"]
    /\ swap' = swap \ {existing}
    /\ TouchOne(existing)
    /\ target' = NoSlot /\ pc' = "turn"
    /\ UNCHANGED <<free, next_id, active, queue, clients, answers,
                   cur, from, repark_age, existing, cold_reuse>>

\* Variant: the slot acquired for the restore is forgotten.
RestoreFailsLeaks ==
    /\ pc = "restore"
    /\ \/ ~Fits(sess[existing].ctx)
       \/ existing \notin swap
       \/ MayFail("unpark") \/ MayFail("restore")
    /\ sess' = Parked(existing, "Cold")
    /\ swap' = swap \ {existing}
    /\ UNCHANGED <<adm, free>>
    /\ cold_reuse' = existing /\ existing' = NoId /\ target' = NoSlot /\ pc' = "cold"
    /\ UNCHANGED <<ids, active, queue, clients, answers, cur, from, repark_age>>

\* No budget, no snapshot, or a restore that failed: the session goes Cold,
\* gives back what it took, and the cold path reopens it.
RestoreFails ==
    /\ pc = "restore"
    /\ \/ ~Fits(sess[existing].ctx)
       \/ existing \notin swap
       \/ MayFail("unpark") \/ MayFail("restore")
    /\ sess' = Parked(existing, "Cold")
    /\ swap' = swap \ {existing}
    /\ free' = free \cup {target}
    /\ UNCHANGED adm
    /\ cold_reuse' = existing /\ existing' = NoId /\ target' = NoSlot /\ pc' = "cold"
    /\ UNCHANGED <<ids, active, queue, clients, answers, cur, from, repark_age>>

(***************************************************************************)
(* admit, second part: the next turn of a resident session                 *)
(***************************************************************************)
Turning == pc \in {"turn", "turn_pages"}

\* A conversation at the context cap is refused and its session closed.
TurnFull ==
    /\ pc = "turn" /\ MayFail("full")
    /\ close(existing) /\ swap' = swap \ {existing}
    /\ Reject
    /\ UNCHANGED <<ids, active, queue, clients>>

\* Too large a generation budget, a schema that does not compile, or a
\* grant that does not fit: only the request is refused.
TurnRefused ==
    /\ \/ pc = "turn" /\ MayFail("over")
       \/ Turning /\ MayFail("grammar")
       \/ Turning /\ ~ResizeFits(existing, Grant[cur])
    /\ Reject
    /\ UNCHANGED <<table, ids, swap, active, queue, clients>>

\* Page demand: idle sessions are evicted, oldest first, ...
TurnReclaims ==
    /\ Turning /\ MayFail("pages")
    /\ \E v \in Victims(existing) : Oldest(v, Victims(existing)) /\ evict(v)
    /\ pc' = "turn_pages"
    /\ UNCHANGED <<ids, active, queue, admitting, clients, answers>>

\* ... and the request is refused when that was not enough.
TurnNoPages ==
    /\ Turning /\ MayFail("pages") /\ Victims(existing) = {}
    /\ Reject
    /\ UNCHANGED <<table, ids, swap, active, queue, clients>>

\* begin_turn failed, or nobody receives Accepted: the session is closed.
TurnFails ==
    /\ Turning /\ ResizeFits(existing, Grant[cur])
    /\ \/ MayFail("begin") /\ Answer(cur, "rejected")
       \/ cur \in gone /\ Answer(cur, "dropped")
    /\ close(existing) /\ swap' = swap \ {existing}
    /\ Return(FALSE)
    /\ UNCHANGED <<ids, active, queue, clients>>

\* The request is in flight on slot s of session i.
Place(i, s) ==
    /\ inflight' = [inflight EXCEPT ![s] = [req |-> cur, session |-> i]]
    /\ left' = [left EXCEPT ![s] = MaxSteps]
    /\ fair' = fair \cup {i}
    /\ told' = [told EXCEPT ![Conv[cur]] = i]
    /\ Return(TRUE)

TurnBegins ==
    /\ Turning /\ ResizeFits(existing, Grant[cur]) /\ cur \notin gone
    /\ adm' = [adm EXCEPT ![existing] = Grant[cur]]
    /\ sess' = [sess EXCEPT ![existing].ctx = Grant[cur], ![existing].convo = Convo(cur)]
    /\ Place(existing, sess[existing].slot)
    /\ TouchOne(existing)
    /\ UNCHANGED <<free, next_id, swap, queue, senders, submitted, gone, answers>>

(***************************************************************************)
(* admit, third part: the cold path opens a session, or reopens the one    *)
(* whose snapshot was lost                                                 *)
(***************************************************************************)
PromptTooLong ==
    /\ pc = "cold" /\ cur \in Long
    /\ Reject
    /\ UNCHANGED <<table, ids, swap, active, queue, clients>>

Opening == pc = "cold" /\ cur \notin Long
Openable == Fits(Grant[cur]) /\ free # {}

Resident(i) ==
    [residency |-> "Resident", slot |-> Min(free), admitted |-> TRUE,
     ctx |-> Grant[cur], convo |-> sess[i].convo]

\* admit_cold: open mints an id, reopen_cold keeps the session's.
Open(i) ==
    /\ Opening /\ Openable
    /\ i = (IF cold_reuse # NoId /\ sess[cold_reuse].residency = "Cold" THEN cold_reuse ELSE next_id)
    /\ next_id' = IF i = next_id THEN next_id + 1 ELSE next_id
    /\ adm' = [adm EXCEPT ![i] = @ + Grant[cur]]
    /\ free' = free \ {Min(free)}
    /\ sess' = [sess EXCEPT ![i] = Resident(i)]
    /\ TouchOne(i)
    /\ existing' = i /\ pc' = "place"
    /\ UNCHANGED <<swap, active, queue, clients, answers,
                   cur, from, repark_age, target, cold_reuse>>

\* A slot or budget is missing: park the oldest idle session and retry.
OpenEvicts ==
    /\ Opening /\ ~Openable
    /\ \E v \in Victims(NoId) : Oldest(v, Victims(NoId)) /\ evict(v)
    /\ UNCHANGED <<ids, active, queue, pc, admitting, clients, answers>>

\* Nobody generates and it does not fit: it never will.
OpenNever ==
    /\ Opening /\ Victims(NoId) = {} /\ ~Fits(Grant[cur]) /\ Busy = {}
    /\ Reject
    /\ UNCHANGED <<table, ids, swap, active, queue, clients>>

\* Variant: the id is minted before the budget is asked for.
OpenWaitsMints ==
    /\ Opening /\ ~Openable /\ Victims(NoId) = {}
    /\ Fits(Grant[cur]) \/ Busy # {}
    /\ Park(cur, repark_age)
    /\ next_id' = next_id + 1
    /\ Return(FALSE)
    /\ UNCHANGED <<table, last_used, swap, active, clients, answers>>

\* Every resident session generates: wait for one to finish.
OpenWaits ==
    /\ Opening /\ ~Openable /\ Victims(NoId) = {}
    /\ Fits(Grant[cur]) \/ Busy # {}
    /\ \/ Park(cur, repark_age) /\ UNCHANGED answers
       \/ Len(wait_queue) >= MAX_WAITERS /\ Answer(cur, "rejected") /\ UNCHANGED queue
    /\ Return(FALSE)
    /\ UNCHANGED <<table, ids, swap, active, clients>>

(***************************************************************************)
(* admit, fourth part: the opened session gets its first turn              *)
(***************************************************************************)
Placing == pc \in {"place", "place_pages"}

PlaceReclaims ==
    /\ Placing /\ MayFail("pages")
    /\ \E v \in Victims(existing) : Oldest(v, Victims(existing)) /\ evict(v)
    /\ pc' = "place_pages"
    /\ UNCHANGED <<ids, active, queue, admitting, clients, answers>>

\* The recurrent-state reset, the page demand or begin_turn refuses, or
\* nobody receives Accepted.
PlaceFails ==
    /\ \/ pc = "place" /\ MayFail("dn_reset") /\ Answer(cur, "rejected")
       \/ Placing /\ MayFail("pages") /\ Victims(existing) = {} /\ Answer(cur, "rejected")
       \/ Placing /\ MayFail("begin") /\ Answer(cur, "rejected")
       \/ Placing /\ cur \in gone /\ Answer(cur, "dropped")
    /\ close(existing)
    /\ Return(FALSE)
    /\ UNCHANGED <<ids, swap, active, queue, clients>>

\* Variant: the rejected request goes on to run.
PlaceSchemaRuns ==
    /\ Placing /\ MayFail("grammar") /\ cur \notin gone
    /\ Answer(cur, "rejected")
    /\ Place(existing, sess[existing].slot)
    /\ UNCHANGED <<table, ids, swap, queue, senders, submitted, gone>>

\* The schema is compiled after Accepted.
PlaceSchemaFails ==
    /\ Placing /\ MayFail("grammar") /\ cur \notin gone
    /\ Answer(cur, "rejected")
    /\ close(existing)
    /\ told' = [told EXCEPT ![Conv[cur]] = existing]
    /\ Return(FALSE)
    /\ UNCHANGED <<ids, swap, active, queue, senders, submitted, gone>>

Places ==
    /\ Placing /\ cur \notin gone
    /\ sess' = [sess EXCEPT ![existing].convo = Convo(cur)]
    /\ Place(existing, sess[existing].slot)
    /\ UNCHANGED <<free, adm, ids, swap, queue, senders, submitted, gone, answers>>

(***************************************************************************)
(* The loop: expire waiters, drain the queue, sleep or step                *)
(***************************************************************************)
\* The commands are drained; with nothing to do the engine blocks instead.
RecvDone ==
    /\ pc = "recv"
    /\ ~AllIdle \/ (wait_queue # <<>> /\ senders)
    /\ pc' = "expire"
    /\ UNCHANGED <<table, ids, swap, active, queue, admitting, clients, answers>>

Expire ==
    /\ pc = "expire"
    /\ Unpark(overdue) /\ RejectAll(overdue)
    /\ pc' = "drain"
    /\ UNCHANGED <<table, ids, swap, active, admitting, clients>>

\* pop_ready: the oldest in line is retried, with the age it came in with.
Drain ==
    /\ pc = "drain"
    /\ wait_queue # <<>> /\ \E s \in Slots : inflight[s] = Idle
    /\ LET r == Head(wait_queue) IN
       /\ cur' = r /\ from' = "drain" /\ repark_age' = parked[r]
       /\ Unpark({r})
    /\ pc' = "sweep"
    /\ UNCHANGED <<table, ids, swap, active, clients, answers, existing, target, cold_reuse>>

DrainDone ==
    /\ \/ pc = "drained"
       \/ pc = "drain" /\ (wait_queue = <<>> \/ \A s \in Slots : inflight[s] # Idle)
    /\ pc' = IF AllIdle THEN "sleep" ELSE "step"
    /\ UNCHANGED <<table, ids, swap, active, queue, admitting, clients, answers>>

\* Variant: only a command ends the sleep.
WakeOnCommand ==
    /\ pc = "sleep" /\ wait_queue = <<>>
    /\ pc' = "recv"
    /\ UNCHANGED <<table, ids, swap, active, queue, admitting, clients, answers>>

\* The sleep ends at the soonest deadline, at once when nobody waits.
Wake ==
    /\ pc = "sleep"
    /\ wait_queue = <<>> \/ overdue # {}
    /\ pc' = "recv"
    /\ UNCHANGED <<table, ids, swap, active, queue, admitting, clients, answers>>

\* One forward step: every request in flight goes on or ends in one of the
\* ways of the emit loop.
Fates(s) ==
    IF inflight[s] = Idle THEN {"idle"}
    ELSE {"done"} \cup (IF left[s] > 0 THEN {"run"} ELSE {})
         \cup (IF inflight[s].req \in gone THEN {"gone"} ELSE {})
         \cup (IF MayFail("grammar") \/ MayFail("pages") THEN {"fail"} ELSE {})
         \cup (IF MayFail("grammar") THEN {"incomplete"} ELSE {})

Step ==
    /\ pc = "step"
    /\ \E fate \in [Slots -> {"idle", "run", "done", "gone", "fail", "incomplete"}] :
          /\ \A s \in Slots : fate[s] \in Fates(s)
          /\ LET Of(F) == {s \in Slots : fate[s] \in F}
                 Ended == Of({"done", "gone", "fail", "incomplete"})
                 Closed == {inflight[s].session : s \in Of({"gone", "fail"})}
                 Kept == {inflight[s].session : s \in Of({"run", "done", "incomplete"})}
                 AnswerOf(s) == IF fate[s] \in {"done", "gone"} THEN "done" ELSE "rejected"
             IN
             /\ inflight' = [s \in Slots |-> IF s \in Ended THEN Idle ELSE inflight[s]]
             /\ left' = [s \in Slots |-> IF fate[s] = "run" THEN left[s] - 1 ELSE 0]
             /\ fair' = fair \ {inflight[s].session : s \in Ended}
             /\ CloseAll(Closed) /\ swap' = swap \ Closed
             /\ last_used' = Touch(Kept, [i \in Ids |-> sess[i].slot])
             /\ answers' = [r \in Requests |->
                   IF \E s \in Ended : inflight[s].req = r
                   THEN Append(answers[r], AnswerOf(CHOOSE s \in Ended : inflight[s].req = r))
                   ELSE answers[r]]
    /\ pc' = "recv"
    /\ UNCHANGED <<next_id, queue, admitting, clients>>

\* A HIP failure or a panic of the step, or no sender left and nothing in
\* flight: fail_all_active, then every parked request is rejected.
Shutdown ==
    /\ \/ pc = "step" /\ MayFail("poison")
       \/ pc \in {"recv", "sleep"} /\ ~senders /\ AllIdle
    /\ LET open == {inflight[s].req : s \in Slots} \ {NoReq} IN RejectAll(open \cup Waiting)
    /\ Unpark(Waiting)
    /\ CloseAll(Busy) /\ swap' = swap \ Busy /\ fair' = fair \ Busy
    /\ inflight' = [s \in Slots |-> Idle] /\ left' = [s \in Slots |-> 0]
    /\ pc' = "down"
    /\ UNCHANGED <<ids, admitting, clients>>

(***************************************************************************)
(* Beside the engine: clients vanish, senders go away, deadlines pass      *)
(***************************************************************************)
Vanish(r) ==
    /\ r \in (submitted \cap Leavers) \ gone /\ answers[r] = <<>>
    /\ gone' = gone \cup {r}
    /\ UNCHANGED <<table, ids, swap, active, queue, pc, admitting, senders, submitted, told, answers>>

Disconnect ==
    /\ senders /\ senders' = FALSE
    /\ UNCHANGED <<table, ids, swap, active, queue, pc, admitting, submitted, gone, told, answers>>

\* The deadlines are a fixed time after enqueued_at: the oldest passes first.
Deadline(r) ==
    /\ QueueTimeout
    /\ r \in Waiting \ overdue
    /\ \A q \in Waiting \ overdue : parked[r] <= parked[q]
    /\ overdue' = overdue \cup {r}
    /\ UNCHANGED <<table, ids, swap, active, wait_queue, parked, stamps, pc,
                   admitting, clients, answers>>

-----------------------------------------------------------------------------
Command ==
    \/ \E r \in Requests : Submit(r) \/ SubmitParks(r) \/ CancelWaiting(r)
    \/ \E i \in Ids : Close(i)
    \/ Reset

Admit ==
    \/ AdmitSweeps \/ NoMatch
    \/ \E i \in Ids : MatchResident(i) \/ MatchSwapped(i) \/ MatchEvicts(i) \/ MatchNoSlot(i)
    \/ RestoreOk \/ RestoreFails
    \/ TurnFull \/ TurnRefused \/ TurnReclaims \/ TurnNoPages \/ TurnFails \/ TurnBegins
    \/ PromptTooLong \/ (\E i \in Ids : Open(i)) \/ OpenEvicts \/ OpenNever \/ OpenWaits
    \/ PlaceReclaims \/ PlaceFails \/ PlaceSchemaFails \/ Places

Loop == RecvDone \/ Expire \/ Drain \/ DrainDone \/ Wake \/ Step \/ Shutdown

Environment == (\E r \in Requests : Vanish(r) \/ Deadline(r)) \/ Disconnect

\* The engine thread has returned.
Stopped == pc = "down" /\ UNCHANGED vars

Next == Command \/ Admit \/ Loop \/ IdleSweep \/ Environment \/ Stopped

Spec == Init /\ [][Next]_vars

\* The thread runs on whenever it is not blocked in a recv, and time passes.
Fairness ==
    /\ WF_vars(Admit \/ Loop)
    /\ \A r \in Requests : WF_vars(Deadline(r))
FairSpec == Spec /\ Fairness
-----------------------------------------------------------------------------
Session == [residency : {"None", "Resident", "Swapped", "Cold"}, slot : Slots \cup {NoSlot},
            admitted : BOOLEAN, ctx : Nat,
            convo : {<<>>} \cup (Conversations \X Nat)]

EngineTypeOK ==
    /\ sess \in [Ids -> Session] /\ next_id \in 1..(Cardinality(Requests) + 1)
    /\ free \subseteq Slots /\ adm \in [Ids -> Nat] /\ swap \subseteq Ids
    /\ inflight \in [Slots -> [req : Requests \cup {NoReq}, session : Ids \cup {NoId}]]
    /\ fair \subseteq Ids /\ overdue \subseteq Requests /\ gone \subseteq submitted
    /\ cur \in Requests \cup {NoReq} /\ existing \in Ids \cup {NoId}
    /\ target \in Slots \cup {NoSlot} /\ cold_reuse \in Ids \cup {NoId}

\* Every slot of the pool is free, reserved for a restore, or held by exactly
\* one session, and a request in flight runs on the slot its session holds,
\* with the FairQueue scheduling exactly those: no step of admission,
\* eviction, restore, sweep, close or shutdown loses a slot, gives it to two
\* sessions, takes it from under a generation or leaves one unscheduled.
SlotsExact ==
    /\ \A s \in Slots :
          Cardinality({i \in Ids : sess[i].slot = s})
              + (IF s \in free THEN 1 ELSE 0) + (IF target = s THEN 1 ELSE 0) = 1
    /\ \A s \in Slots : inflight[s] # Idle => sess[inflight[s].session].slot = s
    /\ fair = Busy

\* A session holds a slot exactly while it is Resident, and a grant exactly
\* as long: a parked session gives both back, and no grant outlives it.  All
\* grants together with the weights leave at least a byte of the budget.
GrantsExact ==
    /\ \A i \in Ids :
          /\ sess[i].residency = "Resident" <=> sess[i].slot # NoSlot
          /\ sess[i].admitted <=> sess[i].slot # NoSlot
          /\ adm[i] = (IF sess[i].admitted THEN sess[i].ctx ELSE 0)
    /\ used_bytes = 0 \/ used_bytes < Budget

\* The swap store holds snapshots of Swapped sessions only: a snapshot of a
\* session that runs, went Cold or was closed would be restored over newer state.
SnapshotsOwned == \A i \in swap : sess[i].residency = "Swapped"

\* The wait queue and parked_requests hold the same requests, once each and
\* within the bound; a retried request finds its place still free.
WaitersExact ==
    /\ Len(wait_queue) <= MAX_WAITERS
    /\ \A a, b \in DOMAIN wait_queue : wait_queue[a] = wait_queue[b] => a = b
    /\ {wait_queue[a] : a \in DOMAIN wait_queue} = Waiting
    /\ overdue \subseteq Waiting
    /\ repark_age # 0 => Len(wait_queue) < MAX_WAITERS

\* A submitted request is in admission, waiting, in flight or answered, and
\* only one of them; it is answered once.
OneAnswer ==
    \A r \in Requests :
        (IF cur = r THEN 1 ELSE 0) + (IF r \in Waiting THEN 1 ELSE 0)
            + Cardinality({s \in Slots : inflight[s].req = r}) + Len(answers[r])
        = (IF r \in submitted THEN 1 ELSE 0)

\* A request keeps the age it was first parked with through every retry, so
\* its queue deadline does not slide.
Age(r) == IF cur = r THEN repark_age ELSE parked[r]
AgeKept == [][\A r \in Requests : Age(r) # 0 /\ Age(r)' # 0 => Age(r)' = Age(r)]_vars

\* The KV and recurrent state of a session only ever serve one conversation.
ConversationsApart ==
    [][\A i \in Ids : sess[i].convo # <<>> /\ sess'[i].convo # <<>>
                         => sess'[i].convo[1] = sess[i].convo[1]]_vars

\* With a queue deadline configured every submitted request is answered,
\* whatever else the clients do.
AllAnswered == \A r \in Requests : r \in submitted ~> answers[r] # <<>>

\* run_loop: when the drain stops short with a slot free, the next waiter
\* is popped.
NextWaiterPopped ==
    \A r \in Requests :
        (pc = "drained" /\ AllIdle /\ wait_queue # <<>> /\ Head(wait_queue) = r) ~> r \notin Waiting

=============================================================================
