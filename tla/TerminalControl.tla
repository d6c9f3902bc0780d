-------------------------- MODULE TerminalControl --------------------------
(***************************************************************************)
(* Terminal ownership of the hipfire daemon                                *)
(* (crates/hipfire-engine/src/terminal.rs).                                *)
(*                                                                         *)
(* Every generate request (id, attempt_id) must put exactly one terminal   *)
(* (done, aborted or error) on the wire.  The right to write it is owned   *)
(* by one of two mutex-protected cells:                                    *)
(*   - the singleton cell (TerminalControlState), one sequential request   *)
(*     at a time;                                                          *)
(*   - the keyed batch registry (BatchTerminalState), one entry for each   *)
(*     announced request, and one tombstone for each request on its way    *)
(*     from the registry to the singleton cell.                            *)
(* The stdin reader thread latches the client's abort and commit in both;  *)
(* producers move requests between them and claim the terminal.            *)
(*                                                                         *)
(* Each function of terminal.rs that changes a cell holds the locks of     *)
(* every cell it touches for its whole body, so each is one action.  An    *)
(* action is disabled where the function returns without a change, except  *)
(* the two control appliers, which composing modules call as total steps.  *)
(* This module's specification is the most general client: any function    *)
(* called at any time with any key, and with any token that was minted.    *)
(***************************************************************************)
EXTENDS Naturals

CONSTANTS
    Ids,            \* wire request ids
    AttemptIds,     \* wire attempt ids (nonzero; zero is never admitted)
    Lanes,          \* decode lanes a ticket can name
    None,           \* Rust's Option::None
    MaxGeneration   \* bound on the u64 generation counters

ASSUME MaxGenerationAssumption == MaxGeneration \in Nat

VARIABLES
    active,         \* TerminalControlState.active
    terminal_next,  \* TerminalControlState.next_generation
    entries,        \* BatchTerminalState.entries
    handoffs,       \* BatchTerminalState.handoffs
    batch_next,     \* BatchTerminalState.next_generation
    transfers,      \* every SingletonTransfer value handed out so far
    claims          \* history: terminals granted to each owner generation

terminalVars == <<active, terminal_next, entries, handoffs, batch_next, transfers, claims>>

----------------------------------------------------------------------------
(* The types of terminal.rs *)

Generations == 1 .. MaxGeneration

\* AttemptKey
Keys == [id : Ids, attempt_id : AttemptIds]

\* TerminalControlDecision
Decisions == {"Commit", "Abort"}

\* The two control messages of the wire protocol
Controls == {"commit", "abort"}

\* ActiveTerminalControl
Singletons ==
    [key : Keys, generation : Generations, ready : BOOLEAN,
     decision : Decisions \cup {None}, terminal_claimed : BOOLEAN]

\* LaneTicket; the lane-reuse generation counts like the other generations
Tickets == [lane : Lanes, generation : Generations, admission : Generations]

\* BatchRegistryEntry.  The Instant deadline is abstracted to whether it is
\* set and whether it has passed; pending_done is data no rule looks at.
Entries ==
    [state : {"Announced", "Queued", "Active", "Ready"},
     owner : Tickets \cup {None}, abort_latched : BOOLEAN,
     commit_latched : BOOLEAN, terminal_claimed : BOOLEAN,
     generation : Generations, deadline : {"unset", "armed", "passed"}]

\* SingletonHandoff: the tombstone of a request in transfer
Handoffs ==
    [admission : Generations, singleton : Singletons \cup {None},
     abort_latched : BOOLEAN, adopted : BOOLEAN]

\* SingletonTransfer: the token the new owner presents
Transfers ==
    [key : Keys, admission : Generations, batch_abort_latched : BOOLEAN,
     singleton : Singletons \cup {None}]

\* What a terminal is claimed against: one admission or one singleton
Owners == [plane : {"batch", "singleton"}, generation : Generations]

ASSUME NoneAssumption ==
    /\ None \notin Keys
    /\ None \notin Singletons
    /\ None \notin Entries
    /\ None \notin Handoffs
    /\ None \notin Tickets
    /\ None \notin Decisions
    /\ None \notin Nat

FreshSingleton(k, g) ==
    [key |-> k, generation |-> g, ready |-> FALSE, decision |-> None,
     terminal_claimed |-> FALSE]

FreshEntry(g, state, abort) ==
    [state |-> state, owner |-> None, abort_latched |-> abort,
     commit_latched |-> FALSE, terminal_claimed |-> FALSE,
     generation |-> g, deadline |-> "unset"]

\* TerminalControlState::new and BatchTerminalState::new
TerminalInit ==
    /\ active = None
    /\ terminal_next = 0
    /\ entries = [k \in Keys |-> None]
    /\ handoffs = [k \in Keys |-> None]
    /\ batch_next = 0
    /\ transfers = {}
    /\ claims = [o \in Owners |-> 0]

----------------------------------------------------------------------------
(* Queries *)

\* The active singleton is the one of request k.
Owns(k) == active # None /\ active.key = k

batch_is_current(k, g) == entries[k] # None /\ entries[k].generation = g

batch_active_owner_matches(k, g, ticket) ==
    batch_is_current(k, g) /\ entries[k].state = "Active" /\ entries[k].owner = ticket

batch_ready_owner_matches(k, g, ticket) ==
    batch_is_current(k, g) /\ entries[k].state = "Ready" /\ entries[k].owner = ticket

\* Of an entry, or of a tombstone waiting for adoption
batch_check_abort(k, g) ==
    IF entries[k] # None
      THEN batch_is_current(k, g) /\ entries[k].abort_latched
      ELSE /\ handoffs[k] # None
           /\ handoffs[k].admission = g
           /\ ~handoffs[k].adopted
           /\ handoffs[k].abort_latched

\* Abort and expiry win over a commit; a request handed
\* off and not yet adopted reads as aborted on the batch plane
batch_poll_decision(k, g) ==
    LET e == entries[k]
        h == handoffs[k]
        own == e # None /\ e.generation = g
        stopped == e.abort_latched \/ e.deadline = "passed"
    IN  CASE own /\ stopped -> "Abort"
          [] own /\ ~stopped /\ e.commit_latched /\ e.state = "Ready" -> "Commit"
          [] e = None /\ h # None /\ h.admission = g /\ ~h.adopted -> "Abort"
          [] OTHER -> None

\* Looks at the request id only, not at the attempt
check_abort(id) ==
    \/ active # None /\ active.key.id = id /\ active.decision = "Abort"
    \/ \E k \in Keys : k.id = id /\ handoffs[k] # None /\ handoffs[k].abort_latched

----------------------------------------------------------------------------
(* The singleton cell *)

\* A tombstone waiting for adoption may not be overwritten.
activate_terminal_control(k) ==
    /\ handoffs[k] = None
    /\ terminal_next < MaxGeneration
    /\ terminal_next' = terminal_next + 1
    /\ active' = FreshSingleton(k, terminal_next + 1)
    /\ UNCHANGED <<entries, handoffs, batch_next, transfers, claims>>

\* The tombstone is released with the singleton that adopted it.
clear_terminal_control ==
    /\ active # None
    /\ active' = None
    /\ handoffs' = [handoffs EXCEPT ![active.key] =
                        IF @ # None /\ @.adopted THEN None ELSE @]
    /\ UNCHANGED <<terminal_next, entries, batch_next, transfers, claims>>

mark_terminal_control_ready(k) ==
    /\ Owns(k)
    /\ active' = [active EXCEPT !.ready = TRUE]
    /\ UNCHANGED <<terminal_next, entries, handoffs, batch_next, transfers, claims>>

\* wait_terminal_control_decision gives up: the timeout is latched as Abort.
TerminalWaitTimesOut(k) ==
    /\ Owns(k)
    /\ active.ready
    /\ active.decision = None
    /\ active' = [active EXCEPT !.decision = "Abort"]
    /\ UNCHANGED <<terminal_next, entries, handoffs, batch_next, transfers, claims>>

----------------------------------------------------------------------------
(* Controls from the stdin reader *)

\* Variant: a later control replaces the decision.
decided_again(s, kind) ==
    IF kind = "abort" \/ s.ready
      THEN [s EXCEPT !.decision = IF kind = "abort" THEN "Abort" ELSE "Commit"]
      ELSE s

\* The first decision stays; a commit needs readiness.
Decided(s, kind) ==
    IF s.decision = None /\ (kind = "abort" \/ s.ready)
      THEN [s EXCEPT !.decision = IF kind = "abort" THEN "Abort" ELSE "Commit"]
      ELSE s

\* Variant: a commit is latched before readiness.
latched_early(e, kind) ==
    IF kind = "abort"
      THEN [e EXCEPT !.abort_latched = TRUE]
      ELSE [e EXCEPT !.commit_latched = @ \/ ~e.abort_latched]

\* Variant: the last control wins.
latched_last(e, kind) ==
    IF kind = "abort"
      THEN [e EXCEPT !.abort_latched = TRUE, !.commit_latched = FALSE]
      ELSE [e EXCEPT !.commit_latched = e.state = "Ready",
                     !.abort_latched = @ /\ e.state # "Ready"]

\* What a control does to a registry entry.
Latched(e, kind) ==
    IF kind = "abort"
      THEN [e EXCEPT !.abort_latched = TRUE]
      ELSE [e EXCEPT !.commit_latched = @ \/ (~e.abort_latched /\ e.state = "Ready")]

\* A tombstone takes the control for its request: an abort always, a commit
\* unless an abort came first.
apply_handoff_control(kind, k) ==
    LET h == handoffs[k]
        accepted == kind = "abort" \/ ~h.abort_latched
    IN  /\ handoffs' = [handoffs EXCEPT ![k] =
              IF accepted
                THEN [h EXCEPT !.abort_latched = @ \/ kind = "abort",
                               !.singleton = IF @ = None THEN None ELSE Decided(@, kind)]
                ELSE h]
        /\ active' = IF accepted /\ h.adopted /\ Owns(k) THEN Decided(active, kind) ELSE active
        /\ UNCHANGED entries

\* The reader's first call for a control line.
apply_terminal_control(kind, k) ==
    /\ IF handoffs[k] # None
         THEN apply_handoff_control(kind, k)
         ELSE /\ active' = IF Owns(k) THEN Decided(active, kind) ELSE active
              /\ UNCHANGED <<entries, handoffs>>
    /\ UNCHANGED <<terminal_next, batch_next, transfers, claims>>

\* The reader's second call for a control line.
batch_apply_terminal_control(kind, k) ==
    /\ IF handoffs[k] # None
         THEN apply_handoff_control(kind, k)
         ELSE /\ entries' = [entries EXCEPT ![k] = IF @ = None THEN None ELSE Latched(@, kind)]
              /\ UNCHANGED <<active, handoffs>>
    /\ UNCHANGED <<terminal_next, batch_next, transfers, claims>>

----------------------------------------------------------------------------
(* The keyed batch registry *)

\* Variant: the entry gets the counter's value from before the increment.
announce_before_increment(k) ==
    /\ entries[k] = None
    /\ handoffs[k] = None
    /\ batch_next < MaxGeneration
    /\ batch_next' = batch_next + 1
    /\ entries' = [entries EXCEPT ![k] = FreshEntry(batch_next, "Announced", FALSE)]
    /\ UNCHANGED <<active, terminal_next, handoffs, transfers, claims>>

\* A live entry or a tombstone reserves its key.
batch_announce_terminal(k) ==
    /\ entries[k] = None
    /\ handoffs[k] = None
    /\ batch_next < MaxGeneration
    /\ batch_next' = batch_next + 1
    /\ entries' = [entries EXCEPT ![k] = FreshEntry(batch_next + 1, "Announced", FALSE)]
    /\ UNCHANGED <<active, terminal_next, handoffs, transfers, claims>>

\* batch_transition_to_queued succeeds on an admission that has no lane yet.
Queueable(k, g) == batch_is_current(k, g) /\ entries[k].state \in {"Announced", "Queued"}

batch_transition_to_queued(k, g) ==
    /\ Queueable(k, g)
    /\ entries' = [entries EXCEPT ![k].state = "Queued"]
    /\ UNCHANGED <<active, terminal_next, handoffs, batch_next, transfers, claims>>

\* The entry of an admission once ticket owns its lane.
Bound(e, ticket) == [e EXCEPT !.state = "Active", !.owner = ticket]

batch_bind_active(k, g, ticket) ==
    /\ batch_is_current(k, g)
    /\ ticket.admission = g
    /\ entries[k].state = "Queued"
    /\ entries' = [entries EXCEPT ![k] = Bound(@, ticket)]
    /\ UNCHANGED <<active, terminal_next, handoffs, batch_next, transfers, claims>>

batch_mark_ready_with_pending(k, g, ticket) ==
    /\ ticket.admission = g
    /\ batch_active_owner_matches(k, g, ticket)
    /\ entries' = [entries EXCEPT ![k].state = "Ready", ![k].deadline = "armed"]
    /\ UNCHANGED <<active, terminal_next, handoffs, batch_next, transfers, claims>>

\* The 30 s of CLIENT_TERMINAL_COMMIT_TIMEOUT are over.
DeadlinePasses(k) ==
    /\ entries[k] # None
    /\ entries[k].deadline = "armed"
    /\ entries' = [entries EXCEPT ![k].deadline = "passed"]
    /\ UNCHANGED <<active, terminal_next, handoffs, batch_next, transfers, claims>>

batch_clear_terminal(k) ==
    /\ entries[k] # None
    /\ entries' = [entries EXCEPT ![k] = None]
    /\ UNCHANGED <<active, terminal_next, handoffs, batch_next, transfers, claims>>

batch_clear_terminal_at_generation(k, g) ==
    /\ batch_is_current(k, g)
    /\ batch_clear_terminal(k)

batch_clear_all_terminals ==
    /\ entries' = [k \in Keys |-> None]
    /\ handoffs' = [k \in Keys |-> None]
    /\ UNCHANGED <<active, terminal_next, batch_next, transfers, claims>>

----------------------------------------------------------------------------
(* Claims *)

\* Variant: a claimed singleton can be claimed again.
claimable_again(k) == Owns(k)

\* claim_terminal_state
SingletonClaimable(k) == Owns(k) /\ ~active.terminal_claimed

\* Whether claim_wire_terminal grants a writer for k whose thread-local
\* ACTIVE_BATCH_GENERATION is scope.  The batch plane is asked first, then
\* the tombstone, and only a writer outside every batch scope reaches the
\* singleton of an id that has no entry.
ClaimGranted(k, scope) ==
    IF entries[k] # None
      THEN scope = entries[k].generation /\ ~entries[k].terminal_claimed
      ELSE /\ scope = None
           /\ SingletonClaimable(k)
           /\ IF handoffs[k] # None
                THEN handoffs[k].adopted
                ELSE \A c \in Keys : c.id = k.id => entries[c] = None

\* The owner a granted claim is charged to.
ClaimOwner(k) ==
    IF entries[k] # None
      THEN [plane |-> "batch", generation |-> entries[k].generation]
      ELSE [plane |-> "singleton", generation |-> active.generation]

claim_wire_terminal(k, scope) ==
    /\ ClaimGranted(k, scope)
    /\ claims' = [claims EXCEPT ![ClaimOwner(k)] = @ + 1]
    /\ IF entries[k] # None
         THEN /\ entries' = [entries EXCEPT ![k].terminal_claimed = TRUE]
              /\ UNCHANGED active
         ELSE /\ active' = [active EXCEPT !.terminal_claimed = TRUE]
              /\ UNCHANGED entries
    /\ UNCHANGED <<terminal_next, handoffs, batch_next, transfers>>

----------------------------------------------------------------------------
(* Moves between the planes *)

\* The transfer batch_handoff_to_singleton_and_clear returns for k.
TransferOf(k) ==
    [key |-> k, admission |-> entries[k].generation,
     batch_abort_latched |-> entries[k].abort_latched,
     singleton |-> IF Owns(k) THEN active ELSE None]

\* Variant: the entry stays behind.
handoff_without_clear(k, g) ==
    /\ handoffs[k] = None
    /\ batch_is_current(k, g)
    /\ handoffs' = [handoffs EXCEPT ![k] =
          [admission |-> g, singleton |-> TransferOf(k).singleton,
           abort_latched |-> entries[k].abort_latched, adopted |-> FALSE]]
    /\ active' = IF Owns(k) THEN None ELSE active
    /\ transfers' = transfers \cup {TransferOf(k)}
    /\ UNCHANGED <<terminal_next, entries, batch_next, claims>>

\* Variant: the tombstone does not take over a latched abort.
handoff_without_abort(k, g) ==
    /\ handoffs[k] = None
    /\ batch_is_current(k, g)
    /\ entries' = [entries EXCEPT ![k] = None]
    /\ handoffs' = [handoffs EXCEPT ![k] =
          [admission |-> g, singleton |-> TransferOf(k).singleton,
           abort_latched |-> FALSE, adopted |-> FALSE]]
    /\ active' = IF Owns(k) THEN None ELSE active
    /\ transfers' = transfers \cup {TransferOf(k)}
    /\ UNCHANGED <<terminal_next, batch_next, claims>>

batch_handoff_to_singleton_and_clear(k, g) ==
    /\ handoffs[k] = None
    /\ batch_is_current(k, g)
    /\ entries' = [entries EXCEPT ![k] = None]
    /\ handoffs' = [handoffs EXCEPT ![k] =
          [admission |-> g, singleton |-> TransferOf(k).singleton,
           abort_latched |-> entries[k].abort_latched, adopted |-> FALSE]]
    /\ active' = IF Owns(k) THEN None ELSE active
    /\ transfers' = transfers \cup {TransferOf(k)}
    /\ UNCHANGED <<terminal_next, batch_next, claims>>

\* Variant: the admission of the token is not compared.
adoptable_by_key(t) ==
    /\ handoffs[t.key] # None
    /\ ~handoffs[t.key].adopted

\* adopt_singleton_transfer accepts t.
Adoptable(t) ==
    /\ handoffs[t.key] # None
    /\ handoffs[t.key].admission = t.admission
    /\ ~handoffs[t.key].adopted

\* The snapshot adoption restores: the tombstone's, else the token's.
Snapshot(t) ==
    IF handoffs[t.key].singleton # None THEN handoffs[t.key].singleton ELSE t.singleton

\* The singleton adoption installs: the snapshot, or a fresh one of
\* generation g, carrying an abort latched on either side of the transfer.
Adopted(t, g) ==
    LET s == IF Snapshot(t) # None THEN Snapshot(t) ELSE FreshSingleton(t.key, g)
    IN  IF (handoffs[t.key].abort_latched \/ t.batch_abort_latched) /\ s.decision = None
          THEN [s EXCEPT !.decision = "Abort"]
          ELSE s

adopt_singleton_transfer(t) ==
    LET fresh == Snapshot(t) = None
        s == Adopted(t, terminal_next + 1)
    IN  /\ Adoptable(t)
        /\ fresh => terminal_next < MaxGeneration
        /\ s.key = t.key
        /\ terminal_next' = IF fresh THEN terminal_next + 1 ELSE terminal_next
        /\ handoffs' = [handoffs EXCEPT ![t.key].singleton = s, ![t.key].adopted = TRUE]
        /\ active' = s
        /\ UNCHANGED <<entries, batch_next, transfers, claims>>

\* Promotion: the running singleton becomes a queued batch admission.
singleton_handoff_to_batch(k) ==
    /\ Owns(k)
    /\ ~active.terminal_claimed
    /\ entries[k] = None
    /\ handoffs[k] # None => handoffs[k].adopted
    /\ batch_next < MaxGeneration
    /\ batch_next' = batch_next + 1
    /\ entries' = [entries EXCEPT ![k] =
                      FreshEntry(batch_next + 1, "Queued", active.decision = "Abort")]
    /\ handoffs' = [handoffs EXCEPT ![k] = None]
    /\ active' = None
    /\ UNCHANGED <<terminal_next, transfers, claims>>

----------------------------------------------------------------------------
(* The most general client *)

TerminalNext ==
    \/ \E k \in Keys :
          \/ activate_terminal_control(k)
          \/ mark_terminal_control_ready(k)
          \/ TerminalWaitTimesOut(k)
          \/ batch_announce_terminal(k)
          \/ DeadlinePasses(k)
          \/ batch_clear_terminal(k)
          \/ singleton_handoff_to_batch(k)
          \/ \E kind \in Controls :
                \/ apply_terminal_control(kind, k)
                \/ batch_apply_terminal_control(kind, k)
          \/ \E g \in Generations :
                \/ batch_transition_to_queued(k, g)
                \/ batch_clear_terminal_at_generation(k, g)
                \/ batch_handoff_to_singleton_and_clear(k, g)
                \/ \E ticket \in Tickets :
                      \/ batch_bind_active(k, g, ticket)
                      \/ batch_mark_ready_with_pending(k, g, ticket)
          \/ \E scope \in Generations \cup {None} : claim_wire_terminal(k, scope)
    \/ \E t \in transfers : adopt_singleton_transfer(t)
    \/ clear_terminal_control
    \/ batch_clear_all_terminals

TerminalSpec == TerminalInit /\ [][TerminalNext]_terminalVars

----------------------------------------------------------------------------
(* Properties *)

\* Every cell holds a value of its Rust type.
TerminalTypeOK ==
    /\ active \in Singletons \cup {None}
    /\ terminal_next \in 0 .. MaxGeneration
    /\ entries \in [Keys -> Entries \cup {None}]
    /\ handoffs \in [Keys -> Handoffs \cup {None}]
    /\ batch_next \in 0 .. MaxGeneration
    /\ transfers \subseteq Transfers
    /\ claims \in [Owners -> Nat]

\* The singletons a writer can still come to own: the active one, and the
\* snapshots of tombstones waiting for adoption.
LiveSingletons ==
    ({active} \cup {handoffs[k].singleton :
                      k \in {c \in Keys : handoffs[c] # None /\ ~handoffs[c].adopted}}) \ {None}

\* A request's terminal is never owned twice: while a request has an entry it
\* has no tombstone, and while its tombstone waits for adoption it is not the
\* active singleton (the "removal-before-adoption gap" comment on
\* BatchTerminalState).
SoleOwner ==
    \A k \in Keys :
        /\ entries[k] # None => handoffs[k] = None
        /\ handoffs[k] # None /\ ~handoffs[k].adopted => ~Owns(k)

\* claim_wire_terminal grants at most one terminal to an admission and at
\* most one to a singleton lifecycle, whatever handoffs, adoptions,
\* promotions and re-announcements of the same wire key come in between.
OneTerminalPerOwner == \A o \in Owners : claims[o] <= 1

\* A commit is recorded only for an owner that published commit_ready: only a
\* Ready entry, and only a ready singleton.
CommitNeedsReady ==
    /\ \A k \in Keys : entries[k] # None /\ entries[k].commit_latched => entries[k].state = "Ready"
    /\ \A s \in LiveSingletons : s.decision = "Commit" => s.ready

\* A transfer token that adopt_singleton_transfer would accept is the one
\* token of the handoff that is waiting: it restores exactly the singleton
\* lifecycle captured then, and no older token of a reused key is accepted.
AdoptionIsExact ==
    \A t \in transfers : Adoptable(t) =>
        /\ \A u \in transfers : u.key = t.key /\ Adoptable(u) => u = t
        /\ handoffs[t.key].singleton = None <=> t.singleton = None
        /\ t.singleton # None => handoffs[t.key].singleton.generation = t.singleton.generation
        /\ t.batch_abort_latched => handoffs[t.key].abort_latched

\* An abort latched on a request survives each move of its ownership: from
\* the entry to the tombstone, from the tombstone to the adopted singleton
\* (unless that was committed before), from the singleton to the promoted
\* entry.  It ends only when the owner itself is cleared.
AbortSurvivesTransfer ==
    [][\A k \in Keys :
         /\ entries[k] # None /\ entries[k].abort_latched =>
              \/ entries'[k] # None /\ entries'[k].abort_latched
              \/ handoffs'[k] # None /\ handoffs'[k].abort_latched
              \/ entries'[k] = None /\ handoffs'[k] = None
         /\ handoffs[k] # None /\ handoffs[k].abort_latched =>
              /\ handoffs'[k] # None => handoffs'[k].abort_latched
              /\ Adoptable([key |-> k, admission |-> handoffs[k].admission])
                    /\ handoffs'[k] # None /\ handoffs'[k].adopted =>
                  active' # None /\ active'.key = k /\ active'.decision # None
         /\ Owns(k) /\ active.decision = "Abort" /\ entries[k] = None /\ entries'[k] # None
              /\ active' = None => entries'[k].abort_latched
      ]_terminalVars

\* The first decision on a singleton lifecycle is final: no later control,
\* timeout, handoff or adoption replaces it.
DecisionIsFinal ==
    [][\A s \in LiveSingletons : \A u \in LiveSingletons' :
         s.generation = u.generation /\ s.decision # None => u.decision = s.decision
      ]_terminalVars

=============================================================================
