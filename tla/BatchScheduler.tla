--------------------------- MODULE BatchScheduler ---------------------------
(***************************************************************************)
(* ContinuousBatchScheduler (crates/hipfire-engine/src/scheduler.rs): the  *)
(* host side of continuous batching.  It owns the decode lanes, a FIFO     *)
(* inbox of requests waiting for one, and the sampling cohort all occupied *)
(* lanes must share.  It runs on the daemon's main thread only, but every  *)
(* lane is tied to an entry of the keyed terminal registry, which the      *)
(* stdin reader thread changes at any time.                                *)
(*                                                                         *)
(* pending_sampling holds the sampling of exactly the requests in pending  *)
(* and is folded into it.  Empty lanes keep a generation nothing reads;    *)
(* the Seeding variant is never constructed.                               *)
(***************************************************************************)
EXTENDS TerminalControl, Sequences

CONSTANT Samplings      \* BatchSamplingKey values

ASSUME LanesAssumption == Lanes \subseteq Nat

VARIABLES
    lanes,          \* [Lanes -> occupied lane or None for Empty]
    inbox,          \* queued keys, oldest first
    pending,        \* [Keys -> request or None]
    cohort_key,     \* sampling of the occupied lanes
    lane_next       \* next_generation of lane tickets

schedulerVars == <<lanes, inbox, pending, cohort_key, lane_next>>
batchVars == <<terminalVars, schedulerVars>>

\* BatchLane::Running and BatchLane::AwaitingClient.  The deadline of
\* BatchPendingTerminal is computed just after the one of the registry entry.
OccupiedLanes ==
    [state : {"Running", "AwaitingClient"}, key : Keys, ticket : Tickets,
     deadline : {"unset", "armed", "passed"}]

\* BatchPendingRequest: the admission token and the sampling key
Requests == [admission : Generations, sampling : Samplings]

ASSUME SchedulerAssumption ==
    None \notin OccupiedLanes /\ None \notin Requests /\ None \notin Samplings

\* Variant: lane generations start at zero.
SchedulerInitFromZero ==
    /\ lanes = [l \in Lanes |-> None]
    /\ inbox = <<>>
    /\ pending = [k \in Keys |-> None]
    /\ cohort_key = None
    /\ lane_next = 0

SchedulerInit ==
    /\ lanes = [l \in Lanes |-> None]
    /\ inbox = <<>>
    /\ pending = [k \in Keys |-> None]
    /\ cohort_key = None
    /\ lane_next = 1

----------------------------------------------------------------------------
(* Queries *)

Occupied == {l \in Lanes : lanes[l] # None}

\* running_count and awaiting_count, as the sets they count
Running == {l \in Occupied : lanes[l].state = "Running"}
Awaiting == {l \in Occupied : lanes[l].state = "AwaitingClient"}

LaneKeys == {lanes[l].key : l \in Occupied}
Queued == {inbox[i] : i \in DOMAIN inbox}

\* The lane holds the admission g of request k.
Holds(l, k, g) == lanes[l] # None /\ lanes[l].key = k /\ lanes[l].ticket.admission = g

\* Position of the first empty lane
FirstEmpty == CHOOSE l \in Lanes \ Occupied : \A m \in Lanes \ Occupied : l <= m

\* maybe_clear_cohort, once the lanes are ls
CohortAfter(ls) == IF \A l \in Lanes : ls[l] = None THEN None ELSE cohort_key

\* inbox.retain(|c| c != k): the inbox has a key once at most (HeldOnce).
Without(q, k) ==
    LET at == CHOOSE i \in DOMAIN q : q[i] = k
    IN  IF \E i \in DOMAIN q : q[i] = k
          THEN SubSeq(q, 1, at - 1) \o SubSeq(q, at + 1, Len(q))
          ELSE q

----------------------------------------------------------------------------
(* Operations *)

\* Variant: a key already pending is queued again.
enqueue_again(k, g, sampling) ==
    /\ batch_is_current(k, g)
    /\ Len(inbox) < 2
    /\ inbox' = Append(inbox, k)
    /\ pending' = [pending EXCEPT ![k] = [admission |-> g, sampling |-> sampling]]
    /\ UNCHANGED <<terminalVars, lanes, cohort_key, lane_next>>

enqueue(k, g, sampling) ==
    /\ batch_is_current(k, g)
    /\ pending[k] = None
    /\ k \notin Queued
    /\ inbox' = Append(inbox, k)
    /\ pending' = [pending EXCEPT ![k] = [admission |-> g, sampling |-> sampling]]
    /\ UNCHANGED <<terminalVars, lanes, cohort_key, lane_next>>

\* There is an empty lane, and the oldest request fits the cohort.
Assignable ==
    /\ Occupied # Lanes
    /\ inbox # <<>>
    /\ cohort_key \in {None, pending[Head(inbox)].sampling}

\* The oldest request gets the first empty lane.  Its entry is queued and
\* bound; a request whose admission is no longer current, or already has a
\* lane, is dropped.
try_assign_one ==
    LET k == Head(inbox)
        request == pending[k]
        ticket == [lane |-> FirstEmpty, generation |-> lane_next,
                   admission |-> request.admission]
    IN  /\ Assignable
        /\ lane_next <= MaxGeneration
        /\ inbox' = Tail(inbox)
        /\ IF Queueable(k, request.admission)
             THEN /\ entries' = [entries EXCEPT ![k] = Bound(@, ticket)]
                  /\ lanes' = [lanes EXCEPT ![FirstEmpty] =
                        [state |-> "Running", key |-> k, ticket |-> ticket, deadline |-> "unset"]]
                  /\ cohort_key' = request.sampling
                  /\ UNCHANGED pending
             ELSE /\ pending' = [pending EXCEPT ![k] = None]
                  /\ cohort_key' = CohortAfter(lanes)
                  /\ UNCHANGED <<entries, lanes>>
        /\ lane_next' = IF batch_is_current(k, request.admission) THEN lane_next + 1 ELSE lane_next
        /\ UNCHANGED <<active, terminal_next, handoffs, batch_next, transfers, claims>>

\* Installs a promoted singleton straight into a lane.
adopt_running(k, g, sampling) ==
    LET ticket == [lane |-> FirstEmpty, generation |-> lane_next, admission |-> g]
    IN  /\ Occupied # Lanes
        /\ cohort_key \in {None, sampling}
        /\ pending[k] = None
        /\ k \notin Queued
        /\ lane_next <= MaxGeneration
        /\ Queueable(k, g)
        /\ entries' = [entries EXCEPT ![k] = Bound(@, ticket)]
        /\ lane_next' = lane_next + 1
        /\ pending' = [pending EXCEPT ![k] = [admission |-> g, sampling |-> sampling]]
        /\ lanes' = [lanes EXCEPT ![FirstEmpty] =
              [state |-> "Running", key |-> k, ticket |-> ticket, deadline |-> "unset"]]
        /\ cohort_key' = sampling
        /\ UNCHANGED <<active, terminal_next, handoffs, batch_next, transfers, claims, inbox>>

\* Variant: the registry entry is not made Ready.
mark_awaiting_lane_only(l) ==
    /\ l \in Running
    /\ lanes' = [lanes EXCEPT ![l].state = "AwaitingClient", ![l].deadline = "armed"]
    /\ UNCHANGED <<terminalVars, inbox, pending, cohort_key, lane_next>>

\* The registry entry is Ready before the lane awaits the client.
mark_awaiting_commit(l) ==
    /\ l \in Running
    /\ batch_mark_ready_with_pending(lanes[l].key, lanes[l].ticket.admission, lanes[l].ticket)
    /\ lanes' = [lanes EXCEPT ![l].state = "AwaitingClient", ![l].deadline = "armed"]
    /\ UNCHANGED <<inbox, pending, cohort_key, lane_next>>

\* The lane's deadline follows the one of its entry.
LaneDeadlinePasses(l) ==
    /\ l \in Awaiting
    /\ lanes[l].deadline = "armed"
    /\ entries[lanes[l].key] # None => entries[lanes[l].key].deadline = "passed"
    /\ lanes' = [lanes EXCEPT ![l].deadline = "passed"]
    /\ UNCHANGED <<terminalVars, inbox, pending, cohort_key, lane_next>>

\* Variant: the decision is not polled again.
committable_unpolled(l, k, g) ==
    /\ l \in Awaiting
    /\ Holds(l, k, g)
    /\ batch_ready_owner_matches(k, g, lanes[l].ticket)

\* commit_lane_inner accepts: the decision is polled again at commit time.
Committable(l, k, g) ==
    /\ l \in Awaiting
    /\ Holds(l, k, g)
    /\ batch_poll_decision(k, g) = "Commit"
    /\ batch_ready_owner_matches(k, g, lanes[l].ticket)

\* Frees the lane and keeps the entry for the writer of the staged done.
commit_lane_retain_terminal(l, k, g) ==
    /\ Committable(l, k, g)
    /\ lanes' = [lanes EXCEPT ![l] = None]
    /\ pending' = [pending EXCEPT ![k] = None]
    /\ cohort_key' = CohortAfter(lanes')
    /\ UNCHANGED <<terminalVars, inbox, lane_next>>

\* Variant: maybe_clear_cohort is not called.
release_keeps_cohort(l, k) ==
    /\ lanes' = [lanes EXCEPT ![l] = None]
    /\ pending' = [pending EXCEPT ![k] = None]
    /\ inbox' = Without(inbox, k)
    /\ UNCHANGED <<cohort_key, lane_next>>

\* Frees the lane and forgets the request.
ReleaseLane(l, k) ==
    /\ lanes' = [lanes EXCEPT ![l] = None]
    /\ pending' = [pending EXCEPT ![k] = None]
    /\ inbox' = Without(inbox, k)
    /\ cohort_key' = CohortAfter(lanes')
    /\ UNCHANGED lane_next

abort_lane(l, k, g) ==
    /\ Holds(l, k, g)
    /\ \/ batch_active_owner_matches(k, g, lanes[l].ticket)
       \/ batch_ready_owner_matches(k, g, lanes[l].ticket)
    /\ ReleaseLane(l, k)
    /\ batch_clear_terminal_at_generation(k, g)

\* A running lane keeps its entry for the handoff that follows.
retire_lane_for_singleton(l, k, g) ==
    /\ Holds(l, k, g)
    /\ batch_active_owner_matches(k, g, lanes[l].ticket)
    /\ ReleaseLane(l, k)
    /\ UNCHANGED terminalVars

\* Variant: the request stays in pending.
abort_queued_keeps_request(k, g) ==
    /\ k \in Queued
    /\ pending[k] # None
    /\ pending[k].admission = g
    /\ batch_check_abort(k, g)
    /\ inbox' = Without(inbox, k)
    /\ cohort_key' = CohortAfter(lanes)
    /\ batch_clear_terminal_at_generation(k, g)
    /\ UNCHANGED <<lanes, pending, lane_next>>

abort_queued(k, g) ==
    /\ k \in Queued
    /\ pending[k] # None
    /\ pending[k].admission = g
    /\ batch_is_current(k, g)
    /\ batch_check_abort(k, g)
    /\ inbox' = Without(inbox, k)
    /\ pending' = [pending EXCEPT ![k] = None]
    /\ cohort_key' = CohortAfter(lanes)
    /\ batch_clear_terminal_at_generation(k, g)
    /\ UNCHANGED <<lanes, lane_next>>

\* The admissions fail_all_active retires: of every lane and queued request.
Retired(k) ==
    \/ \E l \in Occupied : lanes[l].key = k /\ batch_is_current(k, lanes[l].ticket.admission)
    \/ k \in Queued /\ pending[k] # None /\ batch_is_current(k, pending[k].admission)

EmptyScheduler ==
    /\ lanes' = [l \in Lanes |-> None]
    /\ pending' = [k \in Keys |-> IF k \in LaneKeys \cup Queued THEN None ELSE pending[k]]
    /\ inbox' = <<>>
    /\ cohort_key' = None
    /\ UNCHANGED lane_next

fail_all_active ==
    /\ EmptyScheduler
    /\ entries' = [k \in Keys |-> IF Retired(k) THEN None ELSE entries[k]]
    /\ UNCHANGED <<active, terminal_next, handoffs, batch_next, transfers, claims>>

----------------------------------------------------------------------------
(* The scheduler and its surroundings: the driver calls the operations with *)
(* any key and token; the reader announces and latches; main retires, hands *)
(* off and promotes requests the scheduler does not hold.                   *)

ReaderStep(k) ==
    /\ \/ batch_announce_terminal(k)
       \/ \E kind \in Controls : batch_apply_terminal_control(kind, k)
       \/ DeadlinePasses(k)
    /\ UNCHANGED schedulerVars

\* Callers that move or clear an entry directly do it for requests that were
\* not enqueued, or that the scheduler has just given back.
MainStep(k) ==
    /\ pending[k] = None
    /\ \/ entries[k] = None /\ activate_terminal_control(k)
       \/ singleton_handoff_to_batch(k)
       \/ \E g \in Generations :
             \/ batch_transition_to_queued(k, g)
             \/ batch_clear_terminal_at_generation(k, g)
             \/ batch_handoff_to_singleton_and_clear(k, g)
       \/ \E t \in transfers : t.key = k /\ adopt_singleton_transfer(t)
       \/ Owns(k) /\ clear_terminal_control
    /\ UNCHANGED schedulerVars

\* The reset arm: no lane is active, the scheduler is emptied, and then every
\* entry and tombstone goes.
ResetTerminals ==
    /\ \A k \in Keys : pending[k] = None
    /\ batch_clear_all_terminals
    /\ UNCHANGED schedulerVars

DriverStep ==
    \/ try_assign_one
    \/ fail_all_active
    \/ \E l \in Lanes : mark_awaiting_commit(l) \/ LaneDeadlinePasses(l)
    \/ \E k \in Keys, g \in Generations :
          \/ abort_queued(k, g)
          \/ \E sampling \in Samplings : enqueue(k, g, sampling) \/ adopt_running(k, g, sampling)
          \/ \E l \in Lanes :
                \/ commit_lane_retain_terminal(l, k, g)
                \/ abort_lane(l, k, g)
                \/ retire_lane_for_singleton(l, k, g)

BatchInit == TerminalInit /\ SchedulerInit

BatchNext ==
    \/ \E k \in Keys : ReaderStep(k) \/ MainStep(k)
    \/ ResetTerminals
    \/ DriverStep

BatchSpec == BatchInit /\ [][BatchNext]_batchVars

----------------------------------------------------------------------------
(* Properties *)

\* The scheduler's fields hold values of their types.
SchedulerTypeOK ==
    /\ lanes \in [Lanes -> OccupiedLanes \cup {None}]
    /\ inbox \in Seq(Keys)
    /\ pending \in [Keys -> Requests \cup {None}]
    /\ cohort_key \in Samplings \cup {None}
    /\ lane_next \in 1 .. MaxGeneration + 1

\* A lane and the registry agree on who owns it: a running lane's ticket is
\* the Active owner of a live entry, and the ticket of a lane awaiting the
\* client is the Ready owner.  Otherwise abort_lane and commit_lane would
\* refuse and the lane would never be freed.
LaneOwnsItsEntry ==
    \A l \in Occupied :
        LET lane == lanes[l]
        IN  /\ lane.ticket.lane = l
            /\ lane.state = "Running" =>
                  batch_active_owner_matches(lane.key, lane.ticket.admission, lane.ticket)
            /\ lane.state = "AwaitingClient" =>
                  batch_ready_owner_matches(lane.key, lane.ticket.admission, lane.ticket)

\* A request is in one place: it is pending exactly while it waits in the
\* inbox or runs in a lane, never in both and never twice.
HeldOnce ==
    /\ \A k \in Keys : pending[k] # None <=> k \in Queued \cup LaneKeys
    /\ Queued \cap LaneKeys = {}
    /\ \A i, j \in DOMAIN inbox : inbox[i] = inbox[j] => i = j
    /\ \A l, m \in Occupied : lanes[l].key = lanes[m].key => l = m

\* The scheduler never holds a request whose admission has been retired: the
\* stale-token branches of try_assign_one never drop a live request.
PendingIsCurrent ==
    \A k \in Keys : pending[k] # None => batch_is_current(k, pending[k].admission)

\* All occupied lanes share one sampling key, and an idle scheduler has no
\* cohort that could keep every queued request out.
OneCohort ==
    /\ \A l \in Occupied : pending[lanes[l].key].sampling = cohort_key
    /\ Occupied = {} => cohort_key = None

\* A lane is freed by a commit only while the client's commit stands: in the
\* step that frees an awaiting lane and keeps its entry, the entry is Ready,
\* committed, not aborted and not expired.
CommittedLaneIsAuthorised ==
    [][\A l \in Awaiting :
         LET k == lanes[l].key
         IN  lanes'[l] = None /\ entries'[k] # None =>
               /\ entries[k].commit_latched
               /\ ~entries[k].abort_latched
               /\ entries[k].deadline # "passed"
      ]_batchVars

----------------------------------------------------------------------------
(* What the proofs speak of *)

\* What the scheduler's five invariants say together.
SchedulerInv == SchedulerTypeOK /\ LaneOwnsItsEntry /\ HeldOnce /\ PendingIsCurrent /\ OneCohort

Elements(q) == {q[i] : i \in DOMAIN q}
Distinct(q) == \A i, j \in DOMAIN q : q[i] = q[j] => i = j

=============================================================================
