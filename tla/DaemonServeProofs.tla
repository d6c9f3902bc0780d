-------------------------- MODULE DaemonServeProofs --------------------------
(***************************************************************************)
(* That the daemon's threads keep the contract of an attempt, and the      *)
(* scheduler's invariants with it, and own nothing between two messages.   *)
(***************************************************************************)
EXTENDS DaemonServeDriver, DaemonServeOwners, BatchSchedulerProofs

\* The provers tried on a leaf that names none, in this order.
USE SMT, Zenon, SMTT(20), SMTT(30)

----------------------------------------------------------------------------
(* The registry *)

\* A registry that keeps its entries leaves the scheduler as it is.
LEMMA EntriesKeep ==
    ASSUME SchedulerInv, UNCHANGED schedulerVars, UNCHANGED entries
    PROVE  SchedulerInv'
<1>1. \A k \in Keys : pending[k] # None => SameEntry(k)
  BY DEF SameEntry, SchedulerInv, PendingIsCurrent, batch_is_current
<1> QED
  BY <1>1, RegistryKeeps

\* A claim marks an entry and leaves it with its owner.
LEMMA ClaimedEntry ==
    ASSUME TerminalTypeOK, NEW k \in Keys, NEW scope, claim_wire_terminal(k, scope), NEW c \in Keys,
           entries[c] # None
    PROVE  SameEntry(c) /\ entries'[c].commit_latched = entries[c].commit_latched
<1>1. entries[c] \in Entries /\ entries \in [Keys -> Entries \cup {None}]
  BY DEF TerminalTypeOK
<1>2. CASE entries' = entries
  BY <1>2 DEF SameEntry
<1>3. CASE entries' = [entries EXCEPT ![k].terminal_claimed = TRUE] /\ c # k
  BY <1>1, <1>3 DEF SameEntry
<1>4. CASE entries' = [entries EXCEPT ![k].terminal_claimed = TRUE] /\ c = k
  <2> DEFINE e == [entries[c] EXCEPT !.terminal_claimed = TRUE]
  <2>1. entries'[c] = e
    BY <1>1, <1>4
  <2>2. /\ e \in Entries /\ e.generation = entries[c].generation /\ e.state = entries[c].state
        /\ e.owner = entries[c].owner /\ e.commit_latched = entries[c].commit_latched
    BY Zenon, <1>1 DEF Entries
  <2> HIDE DEF e
  <2> QED
    BY <2>1, <2>2, NoneAssumption DEF SameEntry
<1> QED
  BY <1>2, <1>3, <1>4 DEF claim_wire_terminal

\* A quiet step is one the registry's most general client may take.
LEMMA QuietTypes ==
    ASSUME TerminalTypeOK, NEW k \in Keys, Quiet(k)
    PROVE  TerminalTypeOK'
<1>1. [TerminalNext]_terminalVars
  BY DEF Quiet, TerminalNext
<1> QED
  BY <1>1, TypeStep

\* A quiet step keeps the scheduler and its entries together.
LEMMA QuietScheduler ==
    ASSUME TerminalTypeOK, SchedulerInv, NEW k \in Keys, Quiet(k), UNCHANGED schedulerVars
    PROVE  SchedulerInv'
<1>1. CASE UNCHANGED entries
  BY <1>1, EntriesKeep
<1>2. ASSUME NEW scope \in Generations \cup {None}, claim_wire_terminal(k, scope) PROVE SchedulerInv'
  <2>1. \A c \in Keys : pending[c] # None => entries[c] # None
    BY DEF SchedulerInv, PendingIsCurrent, batch_is_current
  <2>2. \A c \in Keys : pending[c] # None => SameEntry(c)
    BY <1>2, <2>1, ClaimedEntry
  <2> QED
    BY <2>2, RegistryKeeps
<1>3. CASE DeadlinePasses(k)
  BY <1>3, ReaderKeeps DEF ReaderStep
<1>4. CASE /\ pending[k] = None
           /\ \E g \in Generations :
                 \/ batch_transition_to_queued(k, g)
                 \/ batch_clear_terminal_at_generation(k, g)
                 \/ batch_handoff_to_singleton_and_clear(k, g)
  BY <1>4, MainKeeps DEF MainStep
<1> QED
  BY Zenon, <1>1, <1>2, <1>3, <1>4 DEF Quiet, terminalVars, activate_terminal_control,
     mark_terminal_control_ready, TerminalWaitTimesOut, clear_terminal_control, adopt_singleton_transfer

\* No quiet step makes a commit decision of anything else.
LEMMA QuietCommits ==
    ASSUME TerminalTypeOK, CommitInv, NEW k \in Keys, Quiet(k), UNCHANGED lines
    PROVE  CommitInv'
<1> USE NoneAssumption
<1>1. \A c : Lines(c)' = Lines(c)
  BY DEF Lines
<1>2. /\ entries \in [Keys -> Entries \cup {None}] /\ handoffs \in [Keys -> Handoffs \cup {None}]
      /\ active \in Singletons \cup {None} /\ transfers \subseteq Transfers
  BY DEF TerminalTypeOK
<1>3. CASE UNCHANGED terminalVars
  BY <1>1, <1>3 DEF CommitInv, terminalVars
<1>4. ASSUME NEW scope \in Generations \cup {None}, claim_wire_terminal(k, scope) PROVE CommitInv'
  <2>1. /\ UNCHANGED <<handoffs, transfers>>
        /\ active' = active \/ (active # None /\ active' = [active EXCEPT !.terminal_claimed = TRUE])
    BY <1>4 DEF claim_wire_terminal, ClaimGranted, SingletonClaimable, Owns
  <2>2. active' # None => active # None /\ active'.decision = active.decision /\ active'.key = active.key
    BY <1>2, <2>1 DEF Singletons
  <2>3. \A c \in Keys : entries'[c] # None => entries[c] # None
    BY <1>2, <1>4 DEF claim_wire_terminal
  <2>4. \A c \in Keys : entries'[c] # None => entries'[c].commit_latched = entries[c].commit_latched
    BY <1>4, <2>3, ClaimedEntry
  <2> QED
    BY <1>1, <2>1, <2>2, <2>3, <2>4 DEF CommitInv
<1>5. CASE activate_terminal_control(k)
  BY <1>1, <1>5 DEF CommitInv, activate_terminal_control, FreshSingleton, Decisions
<1>6. CASE mark_terminal_control_ready(k) \/ TerminalWaitTimesOut(k)
  <2>1. /\ UNCHANGED <<entries, handoffs, transfers>>
        /\ active # None /\ active \in Singletons
        /\ active' = [active EXCEPT !.ready = TRUE] \/ active' = [active EXCEPT !.decision = "Abort"]
    BY <1>2, <1>6 DEF mark_terminal_control_ready, TerminalWaitTimesOut, Owns
  <2>2. active'.decision \in {active.decision, "Abort"} /\ active'.key = active.key
    BY <2>1 DEF Singletons
  <2> QED
    BY <1>1, <2>1, <2>2 DEF CommitInv
<1>7. ASSUME entries' \in [Keys -> Entries \cup {None}], UNCHANGED <<active, handoffs, transfers>>,
             \A c \in Keys : entries'[c] # None =>
                entries[c] # None /\ entries'[c].commit_latched = entries[c].commit_latched
      PROVE  CommitInv'
  BY <1>1, <1>7 DEF CommitInv
<1>8. CASE DeadlinePasses(k) \/ \E g \in Generations : batch_transition_to_queued(k, g)
  <2>1. /\ UNCHANGED <<active, handoffs, transfers>> /\ entries[k] # None /\ entries[k] \in Entries
        /\ \/ entries' = [entries EXCEPT ![k].deadline = "passed"]
           \/ entries' = [entries EXCEPT ![k].state = "Queued"]
    BY <1>2, <1>8 DEF DeadlinePasses, batch_transition_to_queued, Queueable, batch_is_current
  <2> DEFINE e == [entries[k] EXCEPT !.deadline = "passed"]
             f == [entries[k] EXCEPT !.state = "Queued"]
  <2>2. /\ e \in Entries /\ e.commit_latched = entries[k].commit_latched
        /\ f \in Entries /\ f.commit_latched = entries[k].commit_latched
    BY <2>1 DEF Entries
  <2>3. entries' = [entries EXCEPT ![k] = e] \/ entries' = [entries EXCEPT ![k] = f]
    BY <1>2, <2>1
  <2> HIDE DEF e, f
  <2> QED
    BY <1>2, <1>7, <2>1, <2>2, <2>3
<1>9. CASE \E g \in Generations : batch_clear_terminal_at_generation(k, g)
  BY <1>2, <1>7, <1>9 DEF batch_clear_terminal_at_generation, batch_clear_terminal
<1>10. CASE clear_terminal_control
  BY <1>1, <1>2, <1>10 DEF CommitInv, clear_terminal_control
<1>11. ASSUME NEW g \in Generations, batch_handoff_to_singleton_and_clear(k, g) PROVE CommitInv'
  <2> DEFINE t == TransferOf(k)
             h == [admission |-> g, singleton |-> t.singleton,
                   abort_latched |-> entries[k].abort_latched, adopted |-> FALSE]
  <2>1. /\ entries' = [entries EXCEPT ![k] = None] /\ handoffs' = [handoffs EXCEPT ![k] = h]
        /\ active' \in {active, None} /\ transfers' = transfers \cup {t}
    BY <1>11 DEF batch_handoff_to_singleton_and_clear
  <2>2. t.key = k /\ h.singleton = t.singleton /\ (t.singleton # None => active # None /\ t.singleton = active /\ active.key = k)
    BY DEF TransferOf, Owns
  <2> HIDE DEF t, h
  <2>3. t.singleton # None /\ t.singleton.decision = "Commit" => "commit" \in Lines(k)
    BY <2>2 DEF CommitInv
  <2> QED
    BY <1>1, <1>2, <2>1, <2>2, <2>3 DEF CommitInv
<1>12. ASSUME NEW t \in transfers, adopt_singleton_transfer(t) PROVE CommitInv'
  <2> DEFINE s == Adopted(t, terminal_next + 1)
             h == [handoffs[t.key] EXCEPT !.singleton = s, !.adopted = TRUE]
  <2>1. /\ t.key \in Keys /\ handoffs[t.key] \in Handoffs /\ s \in Singletons /\ h \in Handoffs
    BY Zenon, <1>12, AdoptedTypes
  <2>2. /\ handoffs' = [handoffs EXCEPT ![t.key].singleton = s, ![t.key].adopted = TRUE]
        /\ active' = s /\ s.key = t.key /\ UNCHANGED <<entries, transfers>> /\ handoffs[t.key] # None
    BY <1>12, <2>1 DEF adopt_singleton_transfer
  <2>3. handoffs' = [handoffs EXCEPT ![t.key] = h] /\ h.singleton = s
    BY Zenon, <1>2, <2>1, <2>2 DEF Handoffs
  <2>4. s.decision = "Commit" => Snapshot(t) # None /\ Snapshot(t).decision = "Commit"
    <3> DEFINE z == IF Snapshot(t) # None THEN Snapshot(t) ELSE FreshSingleton(t.key, terminal_next + 1)
    <3>1. s = z \/ (z.decision = None /\ s = [z EXCEPT !.decision = "Abort"])
      BY DEF Adopted
    <3>2. z \in Singletons \/ z = FreshSingleton(t.key, terminal_next + 1)
      BY <1>2, <2>1 DEF Snapshot, Handoffs, Transfers
    <3>3. "decision" \in DOMAIN z
      BY <3>2 DEF Singletons, FreshSingleton
    <3>4. s.decision = "Commit" => z.decision = "Commit"
      BY <3>1, <3>3
    <3> QED
      BY <3>4 DEF FreshSingleton, Decisions
  <2>5. s.decision = "Commit" => "commit" \in Lines(t.key)
    BY <2>1, <2>2, <2>4 DEF Snapshot, CommitInv
  <2> HIDE DEF s, h
  <2> QED
    BY <1>1, <1>2, <2>1, <2>2, <2>3, <2>5 DEF CommitInv
<1> QED
  BY <1>3, <1>4, <1>5, <1>6, <1>8, <1>9, <1>10, <1>11, <1>12 DEF Quiet

\* A quiet step keeps what holds of the registry, and every token.
LEMMA QuietKeeps ==
    ASSUME RegistryInv, NEW k \in Keys, Quiet(k), UNCHANGED schedulerVars, UNCHANGED lines
    PROVE  RegistryInv' /\ transfers \subseteq transfers'
<1>1. transfers \subseteq transfers'
  BY Zenon DEF Quiet, terminalVars, claim_wire_terminal, activate_terminal_control,
     mark_terminal_control_ready, TerminalWaitTimesOut, DeadlinePasses, clear_terminal_control,
     adopt_singleton_transfer, batch_transition_to_queued, batch_clear_terminal_at_generation,
     batch_clear_terminal, batch_handoff_to_singleton_and_clear
<1> QED
  BY <1>1, QuietTypes, QuietScheduler, QuietCommits DEF RegistryInv

\* A control from the reader: commits it records were sent.
LEMMA ControlCommits ==
    ASSUME TerminalTypeOK, CommitInv, NEW k \in Keys, NEW kind \in Controls, LinesGrow,
           kind \in Lines(k)',
           apply_terminal_control(kind, k) \/ batch_apply_terminal_control(kind, k)
    PROVE  CommitInv'
<1> USE NoneAssumption
<1>1. /\ entries \in [Keys -> Entries \cup {None}] /\ handoffs \in [Keys -> Handoffs \cup {None}]
      /\ active \in Singletons \cup {None} /\ transfers \subseteq Transfers
  BY DEF TerminalTypeOK
<1>2. ASSUME NEW s \in Singletons, Decided(s, kind).decision = "Commit"
      PROVE  s.decision = "Commit" \/ kind = "commit"
  BY <1>2 DEF Decided, Singletons, Decisions, Controls
<1>3. ASSUME NEW e \in Entries, Latched(e, kind).commit_latched
      PROVE  e.commit_latched \/ kind = "commit"
  BY <1>3 DEF Latched, Entries, Controls
<1>4. transfers' = transfers
  BY DEF apply_terminal_control, batch_apply_terminal_control
<1>5. active' = active \/ (active # None /\ active.key = k /\ active' = Decided(active, kind))
  BY DEF apply_terminal_control, batch_apply_terminal_control, apply_handoff_control, Owns
<1>6. (active # None /\ active.decision = "Commit" => "commit" \in Lines(active.key))'
  <2>1. CASE active' = active
    BY <1>1, <2>1 DEF CommitInv, LinesGrow, Singletons
  <2>2. CASE active # None /\ active.key = k /\ active' = Decided(active, kind)
    BY <1>1, <1>2, <2>2, DecidedType DEF CommitInv, LinesGrow
  <2> QED
    BY <1>5, <2>1, <2>2
<1>7. \A c \in Keys : entries'[c] = entries[c] \/ (c = k /\ entries[c] # None /\ entries'[c] = Latched(entries[c], kind))
  BY <1>1 DEF apply_terminal_control, batch_apply_terminal_control, apply_handoff_control
<1>8. ASSUME NEW c \in Keys, entries'[c] # None, entries'[c].commit_latched PROVE "commit" \in Lines(c)'
  BY <1>1, <1>3, <1>7, <1>8 DEF CommitInv, LinesGrow
<1>9. ASSUME NEW c \in Keys
      PROVE  \/ handoffs'[c] = handoffs[c]
             \/ /\ c = k /\ handoffs[c] # None
                /\ handoffs'[c].singleton = IF handoffs[c].singleton = None THEN None
                                                ELSE Decided(handoffs[c].singleton, kind)
  <2> DEFINE h == handoffs[k]
             g == [h EXCEPT !.abort_latched = @ \/ kind = "abort",
                            !.singleton = IF @ = None THEN None ELSE Decided(@, kind)]
  <2>1. handoffs' = handoffs \/ (h # None /\ handoffs' = [handoffs EXCEPT ![k] = g])
        \/ handoffs' = [handoffs EXCEPT ![k] = h]
    BY DEF apply_terminal_control, batch_apply_terminal_control, apply_handoff_control
  <2>2. h # None => g.singleton = IF h.singleton = None THEN None ELSE Decided(h.singleton, kind)
    BY <1>1 DEF Handoffs
  <2> HIDE DEF g
  <2> QED
    BY <1>1, <2>1, <2>2
<1>10. ASSUME NEW c \in Keys, handoffs'[c] # None, handoffs'[c].singleton # None,
              handoffs'[c].singleton.decision = "Commit"
       PROVE  "commit" \in Lines(c)'
  <2>1. handoffs[c] \in Handoffs \cup {None}
    BY <1>1
  <2>2. handoffs[c] # None /\ handoffs[c].singleton # None => handoffs[c].singleton \in Singletons
    BY <2>1 DEF Handoffs
  <2> QED
    BY <1>2, <1>9, <1>10, <2>2 DEF CommitInv, LinesGrow
<1>11. \A t \in transfers : t.key \in Keys
  BY <1>1 DEF Transfers
<1> QED
  BY <1>4, <1>6, <1>8, <1>10, <1>11 DEF CommitInv, LinesGrow

\* A control from the reader.
LEMMA ControlKeeps ==
    ASSUME RegistryInv, NEW k \in Keys, NEW kind \in Controls, LinesGrow, kind \in Lines(k)',
           UNCHANGED schedulerVars,
           apply_terminal_control(kind, k) \/ batch_apply_terminal_control(kind, k)
    PROVE  RegistryInv' /\ transfers' = transfers
<1>1. TerminalTypeOK'
  BY TypeStep DEF TerminalNext, RegistryInv
<1>2. SchedulerInv'
  <2>1. CASE apply_terminal_control(kind, k)
    <3>1. UNCHANGED entries
      BY <2>1 DEF apply_terminal_control, apply_handoff_control
    <3> QED
      BY <3>1, EntriesKeep DEF RegistryInv
  <2>2. CASE batch_apply_terminal_control(kind, k)
    BY <2>2, ReaderKeeps DEF ReaderStep, RegistryInv
  <2> QED
    BY <2>1, <2>2
<1>3. transfers' = transfers
  BY DEF apply_terminal_control, batch_apply_terminal_control
<1> QED
  BY <1>1, <1>2, <1>3, ControlCommits DEF RegistryInv

\* A generate from the reader.
LEMMA AnnounceKeeps ==
    ASSUME RegistryInv, NEW k \in Keys, LinesGrow, UNCHANGED schedulerVars, batch_announce_terminal(k)
    PROVE  RegistryInv' /\ transfers' = transfers
<1>1. TerminalTypeOK' /\ SchedulerInv'
  BY SchedulerStep DEF RegistryInv, BatchNext, ReaderStep
<1>2. CommitInv'
  <2>1. \A t \in transfers : t.key \in Keys
    BY DEF RegistryInv, TerminalTypeOK, Transfers
  <2>2. active # None => active.key \in Keys
    BY DEF RegistryInv, TerminalTypeOK, Singletons
  <2> QED
    BY <2>1, <2>2 DEF RegistryInv, CommitInv, LinesGrow, batch_announce_terminal, FreshEntry, TerminalTypeOK
<1> QED
  BY <1>1, <1>2 DEF RegistryInv, batch_announce_terminal

\* A driver's step takes no commit that was not latched before.
LEMMA DriverEntries ==
    ASSUME TerminalTypeOK, SchedulerInv, DriverStep
    PROVE  /\ UNCHANGED <<active, handoffs, transfers>>
           /\ \A c \in Keys : entries'[c] # None =>
                 entries[c] # None /\ entries'[c].commit_latched = entries[c].commit_latched
<1> USE NoneAssumption
<1> DEFINE Fine == \A c \in Keys : entries'[c] # None =>
                 entries[c] # None /\ entries'[c].commit_latched = entries[c].commit_latched
<1>1. entries \in [Keys -> Entries \cup {None}]
  BY DEF TerminalTypeOK
<1>2. ASSUME NEW k \in Keys, entries[k] # None, NEW f, f.commit_latched = entries[k].commit_latched,
             entries' = [entries EXCEPT ![k] = f]
      PROVE  Fine
  BY <1>1, <1>2
<1>3. ASSUME NEW k \in Keys, entries[k] # None, NEW ticket, entries' = [entries EXCEPT ![k] = Bound(@, ticket)]
      PROVE  Fine
  <2>1. Bound(entries[k], ticket).commit_latched = entries[k].commit_latched
    BY <1>1, <1>3 DEF Bound, Entries
  <2> QED
    BY <1>1, <1>2, <1>3, <2>1
<1>4. CASE try_assign_one
  <2> DEFINE k == Head(inbox)
             ticket == [lane |-> FirstEmpty, generation |-> lane_next, admission |-> pending[k].admission]
  <2>1. UNCHANGED <<active, handoffs, transfers>>
    BY <1>4 DEF try_assign_one
  <2>2. entries' = entries \/ (entries[k] # None /\ entries' = [entries EXCEPT ![k] = Bound(@, ticket)])
    BY <1>4 DEF try_assign_one, Queueable, batch_is_current
  <2>3. k \in Keys
    BY <1>4, HeadTailProperties DEF try_assign_one, Assignable, SchedulerInv, SchedulerTypeOK
  <2> HIDE DEF k, ticket
  <2> QED
    BY <1>3, <2>1, <2>2, <2>3
<1>5. CASE fail_all_active
  BY <1>1, <1>5 DEF fail_all_active
<1>6. ASSUME NEW l \in Lanes, mark_awaiting_commit(l) PROVE Fine /\ UNCHANGED <<active, handoffs, transfers>>
  <2> DEFINE k == lanes[l].key
             f == [entries[k] EXCEPT !.state = "Ready", !.deadline = "armed"]
  <2>1. /\ entries[k] # None /\ UNCHANGED <<active, handoffs, transfers>>
        /\ entries' = [entries EXCEPT ![k].state = "Ready", ![k].deadline = "armed"]
    BY <1>6 DEF mark_awaiting_commit, batch_mark_ready_with_pending, batch_active_owner_matches, batch_is_current
  <2>2. k \in Keys
    BY <1>6, LaneFacts DEF mark_awaiting_commit, Running
  <2>3. entries' = [entries EXCEPT ![k] = f] /\ f.commit_latched = entries[k].commit_latched
    BY Zenon, <1>1, <2>1, <2>2 DEF Entries
  <2> HIDE DEF k, f
  <2> QED
    BY Zenon, <1>2, <2>1, <2>2, <2>3
<1>7. ASSUME NEW l \in Lanes, LaneDeadlinePasses(l) PROVE Fine /\ UNCHANGED <<active, handoffs, transfers>>
  BY <1>7 DEF LaneDeadlinePasses, terminalVars
<1>8. ASSUME NEW k \in Keys, NEW g \in Generations, abort_queued(k, g)
      PROVE  Fine /\ UNCHANGED <<active, handoffs, transfers>>
  BY <1>1, <1>8 DEF abort_queued, batch_clear_terminal_at_generation, batch_clear_terminal
<1>9. ASSUME NEW k \in Keys, NEW g \in Generations, NEW sampling \in Samplings, enqueue(k, g, sampling)
      PROVE  Fine /\ UNCHANGED <<active, handoffs, transfers>>
  BY <1>9 DEF enqueue, terminalVars
<1>10. ASSUME NEW k \in Keys, NEW g \in Generations, NEW sampling \in Samplings, adopt_running(k, g, sampling)
       PROVE  Fine /\ UNCHANGED <<active, handoffs, transfers>>
  BY Zenon, <1>3, <1>10 DEF adopt_running, Queueable, batch_is_current
<1>11. ASSUME NEW k \in Keys, NEW g \in Generations, NEW l \in Lanes,
              commit_lane_retain_terminal(l, k, g) \/ retire_lane_for_singleton(l, k, g)
       PROVE  Fine /\ UNCHANGED <<active, handoffs, transfers>>
  BY <1>11 DEF commit_lane_retain_terminal, retire_lane_for_singleton, terminalVars
<1>12. ASSUME NEW k \in Keys, NEW g \in Generations, NEW l \in Lanes, abort_lane(l, k, g)
       PROVE  Fine /\ UNCHANGED <<active, handoffs, transfers>>
  BY <1>1, <1>12 DEF abort_lane, batch_clear_terminal_at_generation, batch_clear_terminal
<1> QED
  BY <1>4, <1>5, <1>6, <1>7, <1>8, <1>9, <1>10, <1>11, <1>12 DEF DriverStep, fail_all_active

\* A step of the scheduler.
LEMMA DriverKeeps ==
    ASSUME RegistryInv, DriverStep, UNCHANGED lines
    PROVE  RegistryInv' /\ transfers' = transfers
<1>1. TerminalTypeOK' /\ SchedulerInv'
  BY SchedulerStep DEF RegistryInv, BatchNext
<1>2. \A c : Lines(c)' = Lines(c)
  BY DEF Lines
<1>3. CommitInv'
  BY <1>2, DriverEntries DEF RegistryInv, CommitInv
<1> QED
  BY <1>1, <1>3, DriverEntries DEF RegistryInv

\* The registry is cleared under an empty scheduler.
LEMMA ClearKeeps ==
    ASSUME RegistryInv, ResetTerminals, UNCHANGED lines
    PROVE  RegistryInv'
<1>1. TerminalTypeOK' /\ SchedulerInv'
  BY SchedulerStep DEF RegistryInv, BatchNext
<1>2. \A c : Lines(c)' = Lines(c)
  BY DEF Lines
<1>3. CommitInv'
  BY <1>2 DEF RegistryInv, CommitInv, ResetTerminals, batch_clear_all_terminals
<1> QED
  BY <1>1, <1>3 DEF RegistryInv

\* A registry and a scheduler nobody touches.
LEMMA RegistryRests ==
    ASSUME RegistryInv, UNCHANGED terminalVars, UNCHANGED schedulerVars, UNCHANGED lines
    PROVE  RegistryInv' /\ transfers \subseteq transfers'
<1>1. TerminalTypeOK' /\ transfers' = transfers /\ UNCHANGED <<entries, active, handoffs>>
  BY DEF RegistryInv, TerminalTypeOK, terminalVars
<1>2. SchedulerInv'
  BY <1>1, EntriesKeep DEF RegistryInv
<1>3. CommitInv'
  BY <1>1 DEF RegistryInv, CommitInv, Lines
<1> QED
  BY <1>1, <1>2, <1>3 DEF RegistryInv

\* What a tame step does to the registry keeps what holds of it.
LEMMA TameKeeps ==
    ASSUME ServeInv, Kept
    PROVE  ServeInv'
<1>1. RegistryInv /\ UNCHANGED lines
  BY DEF ServeInv, Kept, Tame
<1>2. RegistryInv'
  BY <1>1, RegistryRests, QuietKeeps, DriverKeeps, ClearKeeps DEF Kept, Tame
<1> QED
  BY <1>2 DEF ServeInv, Kept

----------------------------------------------------------------------------
(* The reader and the deadlines *)

\* The reader takes a generate.
LEMMA ReadGenerateStep ==
    ASSUME ServeInv, NEW k \in Keys, ReadGenerate(k)
    PROVE  ServeInv' /\ [Contract!Next]_(Contract!contract)
<1>1. FlowInv /\ ThreadTypes /\ RegistryInv
  BY DEF ServeInv, FlowInv
<1>2. /\ "generate" \notin Lines(k) /\ Took(k, "generate") /\ batch_announce_terminal(k)
      /\ UNCHANGED schedulerVars /\ reader' = reader /\ resets' = resets
      /\ UNCHANGED <<main, work, streamed, batch_poisoned, wire>>
  BY DEF ReadGenerate
<1>3. PICK m : m = Generate(k, batch_next + 1, None)
  OBVIOUS
<1>4. queue' = Append(queue, m)
  BY <1>3 DEF ReadGenerate
<1>5. m \in Generates /\ m.key = k /\ m.transfer = None
  <2>1. batch_next + 1 \in Generations
    BY <1>1, <1>2, MaxGenerationAssumption DEF batch_announce_terminal, RegistryInv, TerminalTypeOK, Generations
  <2> QED
    BY <1>3, <2>1 DEF Generates, Generate
<1>6. /\ lines' \in [Keys -> Seq(Controls \cup {"generate"})]
      /\ Lines(k)' = Lines(k) \cup {"generate"} /\ \A c \in Keys : c # k => Lines(c)' = Lines(c)
  BY <1>1, <1>2, TookLine DEF ThreadTypes
<1>7. LinesGrow
  BY <1>6 DEF LinesGrow
<1>8. RegistryInv' /\ transfers' = transfers
  BY <1>1, <1>2, <1>7, AnnounceKeeps
<1>9. /\ wire[k] = <<>> /\ pending[k] = None /\ ~Handles(k) /\ \A n \in Mail : n.key # k
  BY <1>1, <1>2 DEF FlowInv, ReadInv, HeldInv, MainInv, QueueInv, Handles, Key
<1>10. /\ queue' \in Seq(Generates \cup {Reset}) /\ Apart(queue', Generates)
       /\ Elements(queue') = Elements(queue) \cup {m}
  <2>1. PICK T : T = Generates \cup {Reset}
    BY Zenon
  <2>2. queue \in Seq(T) /\ m \in T /\ Apart(queue, Generates)
    BY <1>1, <1>5, <2>1 DEF ThreadTypes, FlowInv, QueueInv
  <2>3. \A y \in Elements(queue) : m \in Generates /\ y \in Generates => y.key # m.key
    BY Zenon, <1>5, <1>9 DEF Mail
  <2>4. Append(queue, m) \in Seq(T) /\ Elements(Append(queue, m)) = Elements(queue) \cup {m} /\ Apart(Append(queue, m), Generates)
    BY <2>2, <2>3, PushedApart
  <2> QED
    BY <1>4, <2>1, <2>4
<1>11. queue # <<>> => queue' # <<>> /\ Head(queue') = Head(queue)
  BY <1>1, <1>4, <1>5 DEF ThreadTypes
<1>12. \A n \in Mail' : \/ n \in Mail
                        \/ /\ "generate" \in Lines(n.key)' /\ wire[n.key] = <<>>
                           /\ ~Handles(n.key) /\ pending[n.key] = None /\ n.transfer = None
  BY <1>5, <1>6, <1>9, <1>10 DEF Mail
<1>13. SameLanes /\ pending' = pending
  BY <1>2 DEF SameLanes, schedulerVars
<1>14. /\ resets' \in 0 .. Resets /\ reader' \in ReaderCalls \cup {None}
       /\ (reader # None => reader.kind \in Lines(reader.key))'
  BY <1>2 DEF ReadGenerate, ServeInv, FlowInv, ThreadTypes
<1>15. FlowInv'
  BY <1>1, <1>2, <1>6, <1>7, <1>8, <1>10, <1>11, <1>12, <1>13, <1>14, BesideMain
<1>16. [Contract!Next]_(Contract!contract)
  <2> DEFINE phases == [c \in Keys |-> Phase(c)]
             commits == {c \in Keys : "commit" \in Lines(c)}
  <2>1. commits' = commits
    BY <1>6
  <2>2. phases[k] = "new" /\ phases'[k] = "open"
    <3>1. PhaseOf(<<>>, FALSE) = "new" /\ PhaseOf(<<>>, TRUE) = "open"
      BY DEF PhaseOf
    <3>2. ("generate" \in Lines(k)) = FALSE /\ ("generate" \in Lines(k)') = TRUE /\ wire[k] = <<>> /\ wire'[k] = <<>>
      BY <1>2, <1>6, <1>9
    <3>3. Phase(k) = "new" /\ Phase(k)' = "open"
      BY Zenon, <3>1, <3>2 DEF Phase
    <3> QED
      BY <3>3
  <2>3. \A c \in Keys : c # k => phases'[c] = phases[c]
    BY <1>2, <1>6 DEF Phase
  <2>4. phases' = [phases EXCEPT ![k] = "open"]
    BY Zenon, <2>2, <2>3
  <2>5. Contract!Open(k)
    BY <2>1, <2>2, <2>4 DEF Contract!Open, Contract!Move
  <2> QED
    BY <2>5 DEF Contract!Next
<1> QED
  BY <1>8, <1>15, <1>16 DEF ServeInv

\* The reader takes a control: its first call.
LEMMA ReadControlStep ==
    ASSUME ServeInv, NEW k \in Keys, NEW kind \in Controls, ReadControl(kind, k)
    PROVE  ServeInv' /\ [Contract!Next]_(Contract!contract)
<1>1. FlowInv /\ ThreadTypes /\ RegistryInv
  BY DEF ServeInv, FlowInv
<1>2. /\ kind \notin Lines(k) /\ Took(k, kind) /\ apply_terminal_control(kind, k)
      /\ UNCHANGED schedulerVars /\ reader' = [kind |-> kind, key |-> k] /\ resets' = resets
      /\ queue' = queue /\ UNCHANGED <<main, work, streamed, batch_poisoned, wire>>
  BY DEF ReadControl
<1>3. /\ lines' \in [Keys -> Seq(Controls \cup {"generate"})]
      /\ Lines(k)' = Lines(k) \cup {kind} /\ \A c \in Keys : c # k => Lines(c)' = Lines(c)
  BY <1>1, <1>2, TookLine DEF ThreadTypes
<1>4. LinesGrow /\ kind \in Lines(k)'
  BY <1>3 DEF LinesGrow
<1>5. RegistryInv' /\ transfers' = transfers
  BY <1>1, <1>2, <1>4, ControlKeeps
<1>6. SameLanes /\ pending' = pending
  BY <1>2 DEF SameLanes, schedulerVars
<1>7. /\ reader' \in ReaderCalls \cup {None} /\ reader'.kind = kind /\ reader'.key = k
      /\ resets' \in 0 .. Resets
  BY <1>1, <1>2 DEF ReaderCalls, ThreadTypes
<1>8. (reader # None => reader.kind \in Lines(reader.key))'
  BY <1>4, <1>7
<1>9. /\ queue' \in Seq(Generates \cup {Reset}) /\ Apart(queue', Generates) /\ Mail' = Mail
      /\ queue # <<>> => queue' # <<>> /\ Head(queue') = Head(queue)
  BY <1>1, <1>2 DEF FlowInv, ThreadTypes, QueueInv, Mail
<1>10. FlowInv'
  BY <1>1, <1>2, <1>3, <1>4, <1>5, <1>6, <1>7, <1>8, <1>9, BesideMain
<1>11. [Contract!Next]_(Contract!contract)
  <2> DEFINE phases == [c \in Keys |-> Phase(c)]
             commits == {c \in Keys : "commit" \in Lines(c)}
  <2>1. phases' = phases
    <3>1. \A c \in Keys : ("generate" \in Lines(c)') = ("generate" \in Lines(c))
      BY <1>3 DEF Controls
    <3>2. \A c \in Keys : Phase(c)' = Phase(c)
      BY <1>2, <3>1 DEF Phase
    <3> QED
      BY <3>2
  <2>2. CASE kind = "commit"
    <3>1. k \notin commits /\ commits' = commits \cup {k}
      BY <1>2, <1>3, <2>2
    <3>2. Contract!Commit(k)
      BY <2>1, <3>1 DEF Contract!Commit
    <3> QED
      BY <3>2 DEF Contract!Next
  <2>3. CASE kind # "commit"
    <3>1. commits' = commits
      BY <1>3, <2>3
    <3> QED
      BY <2>1, <3>1 DEF Contract!contract
  <2> QED
    BY <2>2, <2>3
<1> QED
  BY <1>5, <1>10, <1>11 DEF ServeInv

\* The second call, a reset, the deadlines, and nothing at all.
LEMMA BesideSteps ==
    ASSUME ServeInv,
           \/ ReadControlBatch \/ ReadReset
           \/ \E k \in Keys : DeadlinePasses(k) /\ UNCHANGED <<schedulerVars, threadVars>>
           \/ \E l \in Lanes : LaneDeadlinePasses(l) /\ UNCHANGED threadVars
           \/ UNCHANGED serveVars
    PROVE  ServeInv' /\ UNCHANGED <<wire, lines>>
<1>1. FlowInv /\ ThreadTypes /\ RegistryInv /\ SchedulerInv
  BY DEF ServeInv, FlowInv, RegistryInv
<1>2. UNCHANGED <<wire, lines>> /\ UNCHANGED <<main, work, streamed, batch_poisoned, wire>>
  BY DEF ReadControlBatch, ReadReset, threadVars, serveVars
<1>3. LinesGrow /\ lines' \in [Keys -> Seq(Controls \cup {"generate"})] /\ \A c : Lines(c)' = Lines(c)
  BY <1>1, <1>2 DEF LinesGrow, Lines, ThreadTypes
<1>4. ASSUME SameLanes, pending' = pending, RegistryInv', transfers \subseteq transfers',
             reader' = reader \/ reader' = None, resets' \in 0 .. Resets,
             queue' = queue \/ queue' = Append(queue, Reset)
      PROVE  ServeInv'
  <2>1. reader' \in ReaderCalls \cup {None} /\ (reader # None => reader.kind \in Lines(reader.key))'
    <3>1. reader # None => reader.kind \in Lines(reader.key)
      BY <1>1 DEF FlowInv, ReadInv
    <3> QED
      BY <1>1, <1>3, <1>4, <3>1 DEF ThreadTypes
  <2>2. /\ queue' \in Seq(Generates \cup {Reset}) /\ Apart(queue', Generates) /\ Mail' = Mail
        /\ queue # <<>> => queue' # <<>> /\ Head(queue') = Head(queue)
    <3>1. CASE queue' = queue
      BY <1>1, <3>1 DEF FlowInv, ThreadTypes, QueueInv, Mail
    <3>2. CASE queue' = Append(queue, Reset)
      <4>1. PICK T : T = Generates \cup {Reset}
        BY Zenon
      <4>2. Reset \notin Generates
        BY DEF Reset, Generates
      <4>3. queue \in Seq(T) /\ Reset \in T /\ Apart(queue, Generates)
        BY <1>1, <4>1 DEF ThreadTypes, FlowInv, QueueInv
      <4>4. PICK r : r = Reset
        OBVIOUS
      <4>5. r \in T /\ \A y \in Elements(queue) : r \in Generates /\ y \in Generates => y.key # r.key
        BY <4>2, <4>3, <4>4
      <4>6. Append(queue, r) \in Seq(T) /\ Elements(Append(queue, r)) = Elements(queue) \cup {r} /\ Apart(Append(queue, r), Generates)
        BY <4>3, <4>5, PushedApart
      <4>7. queue # <<>> => queue' # <<>> /\ Head(queue') = Head(queue)
        BY <3>2, <4>3, <4>4, <4>5
      <4>8. Mail' = Mail
        BY <3>2, <4>2, <4>4, <4>6 DEF Mail
      <4> QED
        BY <3>2, <4>1, <4>4, <4>6, <4>7, <4>8
    <3> QED
      BY <1>4, <3>1, <3>2
  <2>3. FlowInv'
    BY <1>1, <1>2, <1>3, <1>4, <2>1, <2>2, BesideMain
  <2> QED
    BY <1>4, <2>3 DEF ServeInv
<1>5. UNCHANGED schedulerVars => SameLanes /\ pending' = pending
  BY DEF SameLanes, schedulerVars
<1>6. CASE ReadControlBatch
  <2>1. PICK k, kind : k = reader.key /\ kind = reader.kind
    OBVIOUS
  <2>2. k \in Keys /\ kind \in Controls /\ kind \in Lines(k)
    BY <1>1, <1>6, <2>1 DEF ReadControlBatch, FlowInv, ThreadTypes, ReadInv, ReaderCalls
  <2>3. batch_apply_terminal_control(kind, k) /\ UNCHANGED schedulerVars /\ reader' = None /\ resets' = resets /\ queue' = queue
    BY <1>6, <2>1 DEF ReadControlBatch
  <2>4. RegistryInv' /\ transfers' = transfers
    BY <1>1, <1>3, <2>2, <2>3, ControlKeeps
  <2> QED
    BY <1>1, <1>2, <1>4, <1>5, <2>3, <2>4 DEF ThreadTypes
<1>7. CASE ReadReset
  <2>1. /\ UNCHANGED terminalVars /\ UNCHANGED schedulerVars /\ reader' = reader /\ queue' = Append(queue, Reset)
        /\ resets < Resets /\ resets' = resets + 1
    BY <1>7 DEF ReadReset, batchVars
  <2>3. resets' \in 0 .. Resets
    BY <1>1, <2>1, ServeAssumption DEF ThreadTypes
  <2>4. RegistryInv' /\ transfers \subseteq transfers'
    BY <1>1, <1>2, <2>1, RegistryRests
  <2> QED
    BY <1>2, <1>4, <1>5, <2>1, <2>3, <2>4
<1>8. ASSUME NEW k \in Keys, DeadlinePasses(k), UNCHANGED <<schedulerVars, threadVars>>
      PROVE  ServeInv'
  <2>1. RegistryInv' /\ transfers \subseteq transfers'
    BY <1>1, <1>2, <1>8, QuietKeeps DEF Quiet
  <2> QED
    BY <1>1, <1>2, <1>4, <1>5, <1>8, <2>1 DEF ThreadTypes, threadVars
<1>9. ASSUME NEW l \in Lanes, LaneDeadlinePasses(l), UNCHANGED threadVars
      PROVE  ServeInv'
  <2>1. DriverStep
    BY <1>9 DEF DriverStep
  <2>2. RegistryInv' /\ transfers' = transfers
    BY <1>1, <1>2, <2>1, DriverKeeps
  <2>3. SameLanes /\ pending' = pending
    <3>1. l \in Occupied /\ lanes' = [lanes EXCEPT ![l].deadline = "passed"] /\ pending' = pending
      BY <1>9 DEF LaneDeadlinePasses, Awaiting
    <3>2. lanes[l] \in OccupiedLanes /\ lanes \in [Lanes -> OccupiedLanes \cup {None}]
      BY <1>1, <3>1, LaneFacts DEF SchedulerInv, SchedulerTypeOK
    <3> DEFINE lane == [lanes[l] EXCEPT !.deadline = "passed"]
    <3>3. /\ lane \in OccupiedLanes /\ lane.state = lanes[l].state /\ lane.key = lanes[l].key
          /\ lane.ticket = lanes[l].ticket
      BY <3>2 DEF OccupiedLanes
    <3>4. lanes' = [lanes EXCEPT ![l] = lane]
      BY <3>1
    <3> HIDE DEF lane
    <3>5. lane # None /\ lanes[l] # None
      BY <3>2, <3>3, SchedulerAssumption
    <3> QED
      BY <3>1, <3>2, <3>3, <3>4, <3>5 DEF SameLanes
  <2> QED
    BY <1>1, <1>2, <1>4, <1>9, <2>2, <2>3 DEF ThreadTypes, threadVars
<1>10. CASE UNCHANGED serveVars
  <2>1. UNCHANGED terminalVars /\ UNCHANGED schedulerVars /\ UNCHANGED threadVars
    BY <1>10 DEF serveVars, batchVars
  <2>2. RegistryInv' /\ transfers \subseteq transfers'
    BY <1>1, <1>2, <2>1, RegistryRests
  <2> QED
    BY <1>1, <1>2, <1>4, <1>5, <2>1, <2>2 DEF ThreadTypes, threadVars
<1> QED
  BY <1>2, <1>6, <1>7, <1>8, <1>9, <1>10

----------------------------------------------------------------------------
(* The daemon *)

\* A step of main.
LEMMA MainStepKeeps ==
    ASSUME ServeInv, MainNext \/ (AwaitTimeout /\ UNCHANGED readerVars)
    PROVE  ServeInv' /\ Proper /\ UNCHANGED lines
<1>1. UNCHANGED readerVars /\ UNCHANGED lines
  BY DEF MainNext, readerVars
<1>2. ASSUME \/ RefusePoisoned \/ RefuseInvalid \/ SequentialError \/ SequentialTerminal
             \/ RetireRefused \/ Leave \/ Left
             \/ SequentialCancel \/ SequentialFinish \/ AwaitDecision \/ AwaitTimeout
             \/ Activate \/ AdoptHandoff \/ RouteBatch \/ RouteHandoff \/ AdoptOwn \/ AdoptThink
             \/ RouteSequential \/ AdmitThink \/ AdmitAborted \/ GenerateStart \/ PublishReady \/ Poison
      PROVE  Kept /\ Lawful
  BY <1>1, <1>2, TerminalSteps, LeavingSteps, SequentialSteps, RouteSteps, HandOffSteps, EventSteps, PoisonStep
<1>3. ASSUME \/ Recv \/ HandleReset \/ AdmitEnqueue \/ Poll \/ Sweep \/ Decode
             \/ SweepDone \/ DrainBarrier \/ DrainEmpty \/ AssignDone \/ PublishDone
             \/ DriveFails \/ FailAll
      PROVE  Kept /\ Proper
  BY <1>1, <1>3, RecvStep, ResetStep, AdmitEnqueueStep, PollStep, SweepStep, DecodeStep,
     TurnSteps, DriveFailsStep, FailAllStep
<1>4. ASSUME \/ CancelItem \/ RetireItem \/ CommitItem \/ DoneItem \/ ClearItem
             \/ MarkAwaiting \/ AnnounceReady \/ FailItem
             \/ DrainAborted \/ DrainRefused \/ DrainThink \/ DrainHandoff \/ DrainQueue \/ DrainEnqueue
      PROVE  Kept /\ Proper
  BY <1>1, <1>4, ItemSteps, AnsweredSteps, PreparedSteps, DrainHandoffStep, DrainEnqueueStep
<1>5. ASSUME Assign PROVE Kept /\ Proper
  <2>1. FirstEmpty \in Lanes /\ lanes[FirstEmpty] = None
    BY Zenon, <1>5, FirstEmptyLane DEF Assign, try_assign_one, Assignable
  <2> QED
    BY <1>1, <1>5, <2>1, AssignStep
<1>6. Kept /\ Proper
  BY <1>2, <1>3, <1>4, <1>5 DEF MainNext, Proper
<1> QED
  BY <1>1, <1>6, TameKeeps

\* Every step keeps the invariant and is a step of the contract.
LEMMA ServeStep ==
    ASSUME ServeInv, [ServeNext]_serveVars
    PROVE  ServeInv' /\ [Contract!Next]_(Contract!contract)
<1>1. CASE MainNext \/ (AwaitTimeout /\ UNCHANGED readerVars)
  <2>1. ServeInv' /\ Proper /\ UNCHANGED lines
    BY <1>1, MainStepKeeps
  <2>2. ThreadTypes
    BY DEF ServeInv, FlowInv
  <2> QED
    BY <2>1, <2>2, LawfulStep, ContractRests DEF Proper
<1>2. CASE \/ ReadControlBatch \/ ReadReset
           \/ \E k \in Keys : DeadlinePasses(k) /\ UNCHANGED <<schedulerVars, threadVars>>
           \/ \E l \in Lanes : LaneDeadlinePasses(l) /\ UNCHANGED threadVars
           \/ UNCHANGED serveVars
  <2>1. ServeInv' /\ UNCHANGED <<wire, lines>>
    BY <1>2, BesideSteps
  <2> QED
    BY <2>1, ContractRests
<1>3. CASE \E k \in Keys : ReadGenerate(k) \/ \E kind \in Controls : ReadControl(kind, k)
  BY <1>3, ReadGenerateStep, ReadControlStep
<1>4. Rest => UNCHANGED serveVars
  BY DEF Rest
<1> QED
  BY <1>1, <1>2, <1>3, <1>4 DEF ServeNext, ReaderNext, Timeout

\* The daemon starts with nothing to do.
LEMMA ServeStart == ServeInit => ServeInv /\ Contract!Init
<1> SUFFICES ASSUME ServeInit PROVE ServeInv /\ Contract!Init
  OBVIOUS
<1> USE DEF ServeInit
<1>1. TerminalTypeOK /\ SchedulerInv
  BY SchedulerStart
<1>2. /\ \A k \in Keys : pending[k] = None /\ entries[k] = None /\ handoffs[k] = None
      /\ \A l \in Lanes : lanes[l] = None
      /\ active = None /\ transfers = {}
  BY DEF BatchInit, SchedulerInit, TerminalInit
<1>3. \A k \in Keys : Lines(k) = {} /\ wire[k] = <<>>
  BY DEF Lines
<1>4. Todo = {} /\ Mail = {}
  BY DEF Todo, Mail, Elements
<1>5. main.pc = "recv" /\ main.msg = None /\ main.scope = None /\ main.item = None /\ main.pc \in Idle /\ main.pc \notin Driver
  BY DEF Idle, Driver
<1>6. ThreadTypes
  <2>1. main \in MainRecords
    BY <1>5 DEF MainRecords, Places
  <2>2. lines \in [Keys -> Seq(Controls \cup {"generate"})] /\ wire \in [Keys -> Seq(WireEvents)]
    OBVIOUS
  <2>3. resets \in 0 .. Resets /\ streamed \in [Lanes -> 0 .. MaxTokens]
    BY ServeAssumption
  <2>4. queue \in Seq(Generates \cup {Reset}) /\ work \in Seq(ListItems)
    OBVIOUS
  <2>5. reader \in ReaderCalls \cup {None} /\ batch_poisoned \in BOOLEAN
    BY Zenon
  <2> QED
    BY <1>5, <2>1, <2>2, <2>3, <2>4, <2>5 DEF ThreadTypes
<1>7. ReadInv /\ MainInv
  BY <1>2, <1>3, <1>5 DEF ReadInv, MainInv
<1>8. QueueInv /\ WorkInv /\ TokenInv
  BY <1>4, <1>5, NoItemAssumption DEF QueueInv, WorkInv, TokenInv, Apart
<1>9. ItemInv /\ HeldInv /\ StreamInv
  BY <1>2, <1>5 DEF ItemInv, HeldInv, StreamInv, Running, Occupied
<1>10. CommitInv
  BY <1>2 DEF CommitInv
<1>11. Contract!Init
  <2>1. \A k \in Keys : Phase(k) = "new"
    <3>1. PhaseOf(<<>>, FALSE) = "new"
      BY DEF PhaseOf
    <3>2. \A k \in Keys : ("generate" \in Lines(k)) = FALSE
      BY <1>3
    <3> QED
      BY Zenon, <1>3, <3>1, <3>2 DEF Phase
  <2>2. {k \in Keys : "commit" \in Lines(k)} = {}
    BY <1>3
  <2> QED
    BY <2>1, <2>2 DEF Contract!Init
<1> QED
  BY <1>1, <1>6, <1>7, <1>8, <1>9, <1>10, <1>11 DEF ServeInv, RegistryInv, FlowInv

\* The invariant of the daemon's threads holds in every state.
LEMMA ServeInvariant == ServeSpec => []ServeInv
<1>1. ServeInit => ServeInv
  BY ServeStart
<1>2. ServeInv /\ [ServeNext]_serveVars => ServeInv'
  BY ServeStep
<1> QED
  BY <1>1, <1>2, PTL DEF ServeSpec

\* The threads' state is well formed in every state: the reader's calls, the
\* queue, main's place and message, the driver's list and item, the wires.
THEOREM ServeTypeCorrect == ServeSpec => []ServeTypeOK
<1>1. ServeInv => ServeTypeOK
  BY DEF ServeInv, RegistryInv, SchedulerInv, FlowInv, ThreadTypes, MainRecords, WireEvents, ServeTypeOK
<1> QED
  BY <1>1, ServeInvariant, PTL

\* The reader, the main loop, the batch driver and the sequential producer
\* implement the contract of an attempt: at most one start, at most one
\* terminal and nothing behind it, commit_ready only after start, done only
\* after commit_ready and a commit line.
THEOREM ServeKeepsContract == ServeSpec => KeepsContract
<1>1. ServeInit => Contract!Init
  BY ServeStart
<1>2. ServeInv /\ [ServeNext]_serveVars => [Contract!Next]_(Contract!contract)
  BY ServeStep
<1> QED
  BY <1>1, <1>2, ServeInvariant, PTL DEF ServeSpec, KeepsContract, Contract!Safety

\* In the daemon, too, a lane and the registry agree on who owns the lane, a
\* request is in one place, the scheduler holds no retired admission and its
\* lanes share one sampling key: the calls main makes beside the scheduler's
\* own, and the reader's, disturb none of it.
THEOREM ServeKeepsScheduler ==
    ServeSpec => [](LaneOwnsItsEntry /\ HeldOnce /\ PendingIsCurrent /\ OneCohort)
<1>1. ServeInv => LaneOwnsItsEntry /\ HeldOnce /\ PendingIsCurrent /\ OneCohort
  BY DEF ServeInv, RegistryInv, SchedulerInv
<1> QED
  BY <1>1, ServeInvariant, PTL

\* The owners are kept with the rest.
LEMMA OwnersKept ==
    ASSUME ServeInv, OwnerInv, [ServeNext]_serveVars
    PROVE  OwnerInv'
<1>1. CASE MainNext \/ AwaitTimeout
  <2>1. ASSUME Assign PROVE FirstEmpty \in Lanes /\ lanes[FirstEmpty] = None
    BY <2>1, FirstEmptyLane DEF Assign, try_assign_one, Assignable
  <2>2. ASSUME NEW t \in transfers, adopt_singleton_transfer(t) PROVE active' # None
    <3>1. active' = Adopted(t, terminal_next + 1) /\ TerminalTypeOK
      BY <2>2 DEF adopt_singleton_transfer, ServeInv, RegistryInv
    <3> QED
      BY Zenon, <2>2, <3>1, AdoptedTypes, NoneAssumption
  <2> QED
    BY <1>1, <2>1, <2>2, MainOwners
<1>2. CASE \E k \in Keys : ReadGenerate(k)
  BY <1>2, ReadGenerateOwners
<1>3. CASE \/ \E k \in Keys, kind \in Controls : ReadControl(kind, k)
           \/ ReadControlBatch \/ ReadReset
           \/ \E k \in Keys : DeadlinePasses(k) /\ UNCHANGED <<schedulerVars, threadVars>>
           \/ \E l \in Lanes : LaneDeadlinePasses(l) /\ UNCHANGED threadVars
           \/ UNCHANGED serveVars
  BY <1>3, BesideStepOwners
<1>4. Rest => UNCHANGED serveVars
  BY DEF Rest
<1> QED
  BY <1>1, <1>2, <1>3, <1>4 DEF ServeNext, ReaderNext, Timeout

\* Main waits for a message with nothing of its own: no singleton, no lane,
\* no queued request, and no entry or tombstone but those of messages still
\* in its queue.  So no key is left blocked, through handoffs, refusals,
\* aborts, resets, failed batches and poisoning alike.
THEOREM IdleIsClean == ServeSpec => []IdleOwnsNothing
<1>1. ServeInit => ServeInv /\ OwnerInv
  BY ServeStart, OwnersStart
<1>2. ServeInv /\ OwnerInv /\ [ServeNext]_serveVars => ServeInv' /\ OwnerInv'
  BY ServeStep, OwnersKept
<1> QED
  BY <1>1, <1>2, OwnersWhenIdle, PTL DEF ServeSpec

=============================================================================
