------------------------ MODULE BatchSchedulerProofs ------------------------
(***************************************************************************)
(* Proofs about the terminal registry (TerminalControl) and the scheduler  *)
(* that shares it (BatchScheduler), for any ids, attempts, lanes, requests *)
(* and samplings and every bound on the generation counters.               *)
(*                                                                         *)
(* The registry:                                                           *)
(*   - every cell keeps its type (TypeCorrect);                            *)
(*   - no terminal is owned twice (SoleOwnership), none is granted twice   *)
(*     (ExactlyOneClaim);                                                  *)
(*   - a commit needs readiness (CommitAfterReady), and a transfer token   *)
(*     is good for its own handoff only (ExactAdoption).                   *)
(*                                                                         *)
(* OneTerminalPerOwner alone is not inductive: that a claim finds an owner *)
(* without one rests on live owners having distinct generations that were  *)
(* handed out, which across a handoff rests on a token never matching the  *)
(* tombstone of a later admission.  Ownership collects these facts.  The   *)
(* actions fall into those that leave every owner in place (SameOwners),   *)
(* those that drop owners (ClearStep), and the six that make or move one.  *)
(*                                                                         *)
(* The scheduler's invariants each need the others: a lane keeps its entry *)
(* because nobody moves an entry of a pending request, a request in a lane *)
(* is pending because it is held once, and a request that is assigned is   *)
(* not in another lane because its entry would be Active or Ready.         *)
(***************************************************************************)
EXTENDS BatchScheduler, SequenceTheorems, WellFoundedInduction, TLAPS

\* The provers tried on a leaf that names none, in this order.
USE SMT, Zenon, SMTT(20), SMTT(30)

----------------------------------------------------------------------------
(* The registry *)

\* Decided is an operation on singletons that changes the decision only.
LEMMA DecidedType ==
    ASSUME NEW s \in Singletons, NEW kind \in Controls
    PROVE  /\ Decided(s, kind) \in Singletons
           /\ Decided(s, kind).key = s.key
           /\ Decided(s, kind).generation = s.generation
           /\ Decided(s, kind).terminal_claimed = s.terminal_claimed
           /\ Decided(s, kind).ready = s.ready
  BY DEF Decided, Singletons, Decisions, Controls

\* Latched raises a latch of an entry and changes nothing else; a commit only
\* on a Ready entry.
LEMMA LatchedType ==
    ASSUME NEW e \in Entries, NEW kind \in Controls
    PROVE  /\ Latched(e, kind) \in Entries
           /\ Latched(e, kind).generation = e.generation
           /\ Latched(e, kind).terminal_claimed = e.terminal_claimed
           /\ Latched(e, kind).state = e.state
           /\ Latched(e, kind).commit_latched /\ ~e.commit_latched => e.state = "Ready"
  BY Zenon DEF Latched, Entries, Controls

\* New singletons and entries are well typed.
LEMMA FreshTypes ==
    ASSUME NEW k \in Keys, NEW g \in Generations
    PROVE  /\ FreshSingleton(k, g) \in Singletons
           /\ FreshEntry(g, "Announced", FALSE) \in Entries
           /\ \A abort \in BOOLEAN : FreshEntry(g, "Queued", abort) \in Entries
  BY DEF FreshSingleton, FreshEntry, Singletons, Entries

\* Adoption installs a singleton, and leaves a tombstone, of their types.
LEMMA AdoptedTypes ==
    ASSUME TerminalTypeOK, NEW t \in transfers, adopt_singleton_transfer(t)
    PROVE  /\ t.key \in Keys
           /\ handoffs[t.key] \in Handoffs
           /\ Adopted(t, terminal_next + 1) \in Singletons
           /\ [handoffs[t.key] EXCEPT !.singleton = Adopted(t, terminal_next + 1), !.adopted = TRUE]
                 \in Handoffs
<1> USE MaxGenerationAssumption, NoneAssumption
<1>1. t \in Transfers /\ t.key \in Keys
  BY DEF TerminalTypeOK, Transfers
<1>2. handoffs[t.key] \in Handoffs
  BY <1>1 DEF adopt_singleton_transfer, Adoptable, TerminalTypeOK
<1>3. Snapshot(t) \in Singletons \cup {None}
  BY <1>1, <1>2 DEF Snapshot, Handoffs, Transfers
<1>4. Snapshot(t) = None => terminal_next + 1 \in Generations
  BY DEF adopt_singleton_transfer, TerminalTypeOK, Generations
<1>5. (IF Snapshot(t) # None THEN Snapshot(t) ELSE FreshSingleton(t.key, terminal_next + 1))
         \in Singletons
  BY Zenon, <1>1, <1>3, <1>4, FreshTypes
<1>6. Adopted(t, terminal_next + 1) \in Singletons
  BY <1>5 DEF Adopted, Singletons, Decisions
<1>7. [handoffs[t.key] EXCEPT !.singleton = Adopted(t, terminal_next + 1), !.adopted = TRUE]
         \in Handoffs
  BY Zenon, <1>2, <1>6 DEF Handoffs
<1> QED
  BY <1>1, <1>2, <1>6, <1>7

\* Every step of terminal.rs keeps every cell within its type.
LEMMA TypeStep ==
    ASSUME TerminalTypeOK, [TerminalNext]_terminalVars
    PROVE  TerminalTypeOK'
<1> USE MaxGenerationAssumption, NoneAssumption
<1>1. ASSUME NEW k \in Keys, activate_terminal_control(k) PROVE TerminalTypeOK'
  <2>1. terminal_next + 1 \in Generations
    BY <1>1 DEF activate_terminal_control, TerminalTypeOK, Generations
  <2>2. FreshSingleton(k, terminal_next + 1) \in Singletons
    BY Zenon, <2>1, FreshTypes
  <2> QED
    BY <1>1, <2>1, <2>2 DEF activate_terminal_control, TerminalTypeOK, Generations
<1>2. ASSUME NEW k \in Keys, mark_terminal_control_ready(k) PROVE TerminalTypeOK'
  BY Zenon, <1>2 DEF mark_terminal_control_ready, Owns, TerminalTypeOK, Singletons
<1>3. ASSUME NEW k \in Keys, TerminalWaitTimesOut(k) PROVE TerminalTypeOK'
  BY <1>3 DEF TerminalWaitTimesOut, Owns, TerminalTypeOK, Singletons, Decisions
<1>4. ASSUME NEW k \in Keys, batch_announce_terminal(k) PROVE TerminalTypeOK'
  <2>1. batch_next + 1 \in Generations
    BY <1>4 DEF batch_announce_terminal, TerminalTypeOK, Generations
  <2>2. FreshEntry(batch_next + 1, "Announced", FALSE) \in Entries
    BY Zenon, <2>1, FreshTypes
  <2>3. entries' \in [Keys -> Entries \cup {None}]
    BY Zenon, <1>4, <2>2 DEF batch_announce_terminal, TerminalTypeOK
  <2>4. batch_next' \in 0 .. MaxGeneration
    BY <1>4, <2>1 DEF batch_announce_terminal, Generations
  <2> QED
    BY Zenon, <1>4, <2>3, <2>4 DEF batch_announce_terminal, TerminalTypeOK
<1>5. ASSUME NEW k \in Keys, DeadlinePasses(k) PROVE TerminalTypeOK'
  BY <1>5 DEF DeadlinePasses, TerminalTypeOK, Entries
<1>6. ASSUME NEW k \in Keys, batch_clear_terminal(k) PROVE TerminalTypeOK'
  BY <1>6 DEF batch_clear_terminal, TerminalTypeOK
<1>7. ASSUME NEW k \in Keys, singleton_handoff_to_batch(k) PROVE TerminalTypeOK'
  <2>1. batch_next + 1 \in Generations
    BY <1>7 DEF singleton_handoff_to_batch, TerminalTypeOK, Generations
  <2>2. FreshEntry(batch_next + 1, "Queued", active.decision = "Abort") \in Entries
    BY Zenon, <2>1, FreshTypes
  <2> QED
    BY <1>7, <2>1, <2>2 DEF singleton_handoff_to_batch, TerminalTypeOK, Generations
<1>8. ASSUME NEW k \in Keys, NEW kind \in Controls, handoffs[k] # None,
             apply_handoff_control(kind, k)
      PROVE  /\ active' \in Singletons \cup {None}
             /\ entries' \in [Keys -> Entries \cup {None}]
             /\ handoffs' \in [Keys -> Handoffs \cup {None}]
  <2> DEFINE h == handoffs[k]
             accepted == kind = "abort" \/ ~h.abort_latched
  <2>1. h \in Handoffs
    BY <1>8 DEF TerminalTypeOK
  <2>2. active' \in Singletons \cup {None}
    BY <1>8, DecidedType DEF apply_handoff_control, Owns, TerminalTypeOK
  <2>3. h.singleton = None \/ Decided(h.singleton, kind) \in Singletons
    BY <2>1, DecidedType DEF Handoffs
  <2>4. [h EXCEPT !.abort_latched = @ \/ kind = "abort",
                  !.singleton = IF @ = None THEN None ELSE Decided(@, kind)] \in Handoffs
    BY Zenon, <2>1, <2>3 DEF Handoffs
  <2> QED
    BY <1>8, <2>1, <2>2, <2>4 DEF apply_handoff_control, TerminalTypeOK
<1>9. ASSUME NEW k \in Keys, NEW kind \in Controls, apply_terminal_control(kind, k)
      PROVE  TerminalTypeOK'
  BY <1>8, <1>9, DecidedType DEF apply_terminal_control, Owns, TerminalTypeOK
<1>10. ASSUME NEW k \in Keys, NEW kind \in Controls, batch_apply_terminal_control(kind, k)
       PROVE  TerminalTypeOK'
  BY <1>8, <1>10, LatchedType DEF batch_apply_terminal_control, TerminalTypeOK
<1>11. ASSUME NEW k \in Keys, NEW g \in Generations, batch_transition_to_queued(k, g)
       PROVE  TerminalTypeOK'
  BY <1>11 DEF batch_transition_to_queued, Queueable, batch_is_current, TerminalTypeOK, Entries
<1>12. ASSUME NEW k \in Keys, NEW g \in Generations, batch_clear_terminal_at_generation(k, g)
       PROVE  TerminalTypeOK'
  BY <1>6, <1>12 DEF batch_clear_terminal_at_generation
<1>13. ASSUME NEW k \in Keys, NEW g \in Generations, batch_handoff_to_singleton_and_clear(k, g)
       PROVE  TerminalTypeOK'
  BY <1>13 DEF batch_handoff_to_singleton_and_clear, batch_is_current, TransferOf, Owns,
               TerminalTypeOK, Entries, Handoffs, Transfers
<1>14. ASSUME NEW k \in Keys, NEW g \in Generations, NEW ticket \in Tickets,
              batch_bind_active(k, g, ticket)
       PROVE  TerminalTypeOK'
  <2>1. entries[k] \in Entries
    BY <1>14 DEF batch_bind_active, batch_is_current, TerminalTypeOK
  <2>2. Bound(entries[k], ticket) \in Entries
    BY Zenon, <2>1 DEF Bound, Entries
  <2> QED
    BY <1>14, <2>2 DEF batch_bind_active, TerminalTypeOK
<1>15. ASSUME NEW k \in Keys, NEW g \in Generations, NEW ticket \in Tickets,
              batch_mark_ready_with_pending(k, g, ticket)
       PROVE  TerminalTypeOK'
  <2>1. entries[k] \in Entries
    BY <1>15 DEF batch_mark_ready_with_pending, batch_active_owner_matches, batch_is_current,
                 TerminalTypeOK
  <2>2. [entries[k] EXCEPT !.state = "Ready", !.deadline = "armed"] \in Entries
    BY Zenon, <2>1 DEF Entries
  <2>3. entries' = [entries EXCEPT ![k] = [entries[k] EXCEPT !.state = "Ready", !.deadline = "armed"]]
    BY Zenon, <1>15 DEF batch_mark_ready_with_pending, TerminalTypeOK
  <2> QED
    BY <1>15, <2>2, <2>3 DEF batch_mark_ready_with_pending, TerminalTypeOK
<1>16. ASSUME NEW k \in Keys, NEW scope \in Generations \cup {None}, claim_wire_terminal(k, scope)
       PROVE  TerminalTypeOK'
  <2>1. ClaimOwner(k) \in Owners
    BY <1>16 DEF claim_wire_terminal, ClaimGranted, ClaimOwner, SingletonClaimable, Owns,
                 TerminalTypeOK, Owners, Entries, Singletons
  <2>2. claims' \in [Owners -> Nat]
    BY <1>16, <2>1 DEF claim_wire_terminal, TerminalTypeOK
  <2>3. CASE entries[k] # None
    <3>1. [entries[k] EXCEPT !.terminal_claimed = TRUE] \in Entries
      BY Zenon, <2>3 DEF TerminalTypeOK, Entries
    <3>2. entries' = [entries EXCEPT ![k] = [entries[k] EXCEPT !.terminal_claimed = TRUE]]
      BY <1>16, <2>3 DEF claim_wire_terminal, TerminalTypeOK
    <3>3. entries' \in [Keys -> Entries \cup {None}]
      BY <3>1, <3>2 DEF TerminalTypeOK
    <3> QED
      BY <1>16, <2>2, <2>3, <3>3 DEF claim_wire_terminal, TerminalTypeOK
  <2>4. CASE entries[k] = None
    <3>1. active # None
      BY <1>16, <2>4 DEF claim_wire_terminal, ClaimGranted, SingletonClaimable, Owns
    <3>2. [active EXCEPT !.terminal_claimed = TRUE] \in Singletons
      BY Zenon, <3>1 DEF TerminalTypeOK, Singletons
    <3> QED
      BY Zenon, <1>16, <2>2, <2>4, <3>2 DEF claim_wire_terminal, TerminalTypeOK
  <2> QED
    BY <2>3, <2>4
<1>17. ASSUME NEW t \in transfers, adopt_singleton_transfer(t) PROVE TerminalTypeOK'
  <2>1. /\ t.key \in Keys
        /\ Adopted(t, terminal_next + 1) \in Singletons
        /\ [handoffs[t.key] EXCEPT !.singleton = Adopted(t, terminal_next + 1), !.adopted = TRUE]
              \in Handoffs
    BY Zenon, <1>17, AdoptedTypes
  <2>2. handoffs' \in [Keys -> Handoffs \cup {None}]
    BY Zenon, <1>17, <2>1 DEF adopt_singleton_transfer, TerminalTypeOK
  <2>3. terminal_next' \in 0 .. MaxGeneration
    BY <1>17 DEF adopt_singleton_transfer, TerminalTypeOK
  <2> QED
    BY <1>17, <2>1, <2>2, <2>3 DEF adopt_singleton_transfer, TerminalTypeOK
<1>18. CASE clear_terminal_control
  BY Zenon, <1>18 DEF clear_terminal_control, TerminalTypeOK
<1>19. CASE batch_clear_all_terminals
  BY <1>19 DEF batch_clear_all_terminals, TerminalTypeOK
<1>20. CASE UNCHANGED terminalVars
  BY <1>20 DEF terminalVars, TerminalTypeOK
<1> QED
  BY <1>1, <1>2, <1>3, <1>4, <1>5, <1>6, <1>7, <1>9, <1>10, <1>11, <1>12, <1>13, <1>14,
     <1>15, <1>16, <1>17, <1>18, <1>19, <1>20 DEF TerminalNext

\* The cells of terminal.rs hold values of their types in every reachable
\* state, for every set of ids, attempts and lanes and every counter bound.
THEOREM TypeCorrect == TerminalSpec => []TerminalTypeOK
<1>1. TerminalInit => TerminalTypeOK
  BY MaxGenerationAssumption DEF TerminalInit, TerminalTypeOK
<1> QED
  BY <1>1, TypeStep, PTL DEF TerminalSpec

----------------------------------------------------------------------------
(* The strengthening of the safety invariants *)

\* Request k is between handoff and adoption, and carries a singleton.
Held(k) == handoffs[k] # None /\ ~handoffs[k].adopted /\ handoffs[k].singleton # None

BatchOwner(g) == [plane |-> "batch", generation |-> g]

SingletonOwner(g) == [plane |-> "singleton", generation |-> g]

\* Generations of live admissions were handed out, each to one request.
EntryGenerations ==
    \A k \in Keys : entries[k] # None =>
        /\ entries[k].generation <= batch_next
        /\ \A c \in Keys :
              entries[c] # None /\ entries[c].generation = entries[k].generation => c = k

\* The same for singleton lifecycles, active or on their way to be adopted.
SingletonGenerations ==
    /\ active # None => active.generation <= terminal_next
    /\ \A k \in Keys : Held(k) =>
        /\ handoffs[k].singleton.generation <= terminal_next
        /\ active # None => active.generation # handoffs[k].singleton.generation
        /\ \A c \in Keys :
              Held(c) /\ handoffs[c].singleton.generation = handoffs[k].singleton.generation
                => c = k

\* No terminal was granted to a generation that was not handed out yet.
FreshClaims ==
    \A g \in Generations :
        /\ g > batch_next => claims[BatchOwner(g)] = 0
        /\ g > terminal_next => claims[SingletonOwner(g)] = 0

\* A live owner whose terminal_claimed flag is down was granted none.
UnclaimedOwners ==
    /\ \A k \in Keys : entries[k] # None /\ ~entries[k].terminal_claimed =>
          claims[BatchOwner(entries[k].generation)] = 0
    /\ active # None /\ ~active.terminal_claimed => claims[SingletonOwner(active.generation)] = 0
    /\ \A k \in Keys : Held(k) /\ ~handoffs[k].singleton.terminal_claimed =>
          claims[SingletonOwner(handoffs[k].singleton.generation)] = 0

\* A transfer token names an admission that is over, and no two tokens the
\* same admission.
TransferAdmissions ==
    \A t \in transfers :
        /\ t.admission <= batch_next
        /\ \A k \in Keys : entries[k] # None => entries[k].generation # t.admission
        /\ \A u \in transfers : u.admission = t.admission => u = t

\* The tombstone a token would be accepted for still is what the handoff that
\* minted the token left, up to controls that came in since.
TransferMatches ==
    \A t \in transfers : Adoptable(t) =>
        /\ handoffs[t.key].singleton = None <=> t.singleton = None
        /\ t.singleton # None => handoffs[t.key].singleton.generation = t.singleton.generation
        /\ t.batch_abort_latched => handoffs[t.key].abort_latched

\* Who may write which terminal, and which tokens may still move it.
Ownership ==
    /\ SoleOwner
    /\ OneTerminalPerOwner
    /\ EntryGenerations
    /\ SingletonGenerations
    /\ FreshClaims
    /\ UnclaimedOwners
    /\ TransferAdmissions
    /\ TransferMatches

----------------------------------------------------------------------------
(* Steps that change what is recorded of an owner, but no ownership *)

\* What a control, a timeout or an entry's progress keeps of each request.
SameOwners ==
    /\ \A k \in Keys :
        /\ entries'[k] = None <=> entries[k] = None
        /\ entries[k] # None =>
              /\ entries'[k].generation = entries[k].generation
              /\ entries'[k].terminal_claimed = entries[k].terminal_claimed
        /\ handoffs'[k] = None <=> handoffs[k] = None
        /\ handoffs[k] # None =>
              /\ handoffs'[k].admission = handoffs[k].admission
              /\ handoffs'[k].adopted = handoffs[k].adopted
              /\ handoffs[k].abort_latched => handoffs'[k].abort_latched
              /\ handoffs'[k].singleton = None <=> handoffs[k].singleton = None
              /\ handoffs[k].singleton # None =>
                    /\ handoffs'[k].singleton.generation = handoffs[k].singleton.generation
                    /\ handoffs'[k].singleton.terminal_claimed
                          = handoffs[k].singleton.terminal_claimed
    /\ active' = None <=> active = None
    /\ active # None =>
        /\ active'.key = active.key
        /\ active'.generation = active.generation
        /\ active'.terminal_claimed = active.terminal_claimed
    /\ UNCHANGED <<terminal_next, batch_next, transfers, claims>>

\* Controls reach exactly the owner they find, and leave it in place.
LEMMA ControlKeepsOwners ==
    ASSUME TerminalTypeOK, NEW k \in Keys, NEW kind \in Controls,
           apply_terminal_control(kind, k) \/ batch_apply_terminal_control(kind, k)
    PROVE  SameOwners
<1> USE NoneAssumption
<1>1. CASE handoffs[k] # None
  <2>1. apply_handoff_control(kind, k) /\ UNCHANGED <<terminal_next, batch_next, transfers, claims>>
    BY <1>1 DEF apply_terminal_control, batch_apply_terminal_control
  <2>2. handoffs[k] \in Handoffs
    BY <1>1 DEF TerminalTypeOK
  <2>3. /\ handoffs[k].singleton # None => Decided(handoffs[k].singleton, kind) \in Singletons
        /\ handoffs[k].singleton # None =>
              /\ Decided(handoffs[k].singleton, kind).generation = handoffs[k].singleton.generation
              /\ Decided(handoffs[k].singleton, kind).terminal_claimed
                    = handoffs[k].singleton.terminal_claimed
    BY <2>2, DecidedType DEF Handoffs
  <2>4. /\ active # None => Decided(active, kind) \in Singletons
        /\ active # None => /\ Decided(active, kind).key = active.key
                            /\ Decided(active, kind).generation = active.generation
                            /\ Decided(active, kind).terminal_claimed = active.terminal_claimed
    BY DecidedType DEF TerminalTypeOK
  <2>5. /\ handoffs'[k].admission = handoffs[k].admission
        /\ handoffs'[k].adopted = handoffs[k].adopted
        /\ handoffs[k].abort_latched => handoffs'[k].abort_latched
        /\ handoffs'[k].singleton = None <=> handoffs[k].singleton = None
        /\ handoffs[k].singleton # None =>
              /\ handoffs'[k].singleton.generation = handoffs[k].singleton.generation
              /\ handoffs'[k].singleton.terminal_claimed = handoffs[k].singleton.terminal_claimed
        /\ handoffs'[k] # None
    BY Zenon, <1>1, <2>1, <2>2, <2>3 DEF apply_handoff_control, TerminalTypeOK, Handoffs
  <2>6. \A c \in Keys : c # k => handoffs'[c] = handoffs[c]
    BY <2>1 DEF apply_handoff_control, TerminalTypeOK
  <2>7. /\ active' = None <=> active = None
        /\ active # None => /\ active'.key = active.key
                            /\ active'.generation = active.generation
                            /\ active'.terminal_claimed = active.terminal_claimed
        /\ entries' = entries
    BY <2>1, <2>4 DEF apply_handoff_control, Owns
  <2> QED
    BY <1>1, <2>1, <2>5, <2>6, <2>7 DEF SameOwners
<1>2. CASE handoffs[k] = None
  BY <1>2, DecidedType, LatchedType
     DEF apply_terminal_control, batch_apply_terminal_control, SameOwners, Owns, TerminalTypeOK
<1> QED
  BY <1>1, <1>2

\* So do the steps of an entry towards Ready and the waits for a decision.
LEMMA ProgressKeepsOwners ==
    ASSUME TerminalTypeOK, NEW k \in Keys,
           \/ mark_terminal_control_ready(k)
           \/ TerminalWaitTimesOut(k)
           \/ DeadlinePasses(k)
           \/ \E g \in Generations :
                 \/ batch_transition_to_queued(k, g)
                 \/ \E ticket \in Tickets :
                       batch_bind_active(k, g, ticket) \/ batch_mark_ready_with_pending(k, g, ticket)
    PROVE  SameOwners
<1> USE NoneAssumption DEF SameOwners, TerminalTypeOK
<1>1. CASE mark_terminal_control_ready(k)
  BY Zenon, <1>1 DEF mark_terminal_control_ready, Owns, Singletons
<1>2. CASE TerminalWaitTimesOut(k)
  BY <1>2 DEF TerminalWaitTimesOut, Owns, Singletons, Decisions
<1>3. CASE DeadlinePasses(k)
  BY <1>3 DEF DeadlinePasses, Entries
<1>4. ASSUME NEW g \in Generations, batch_transition_to_queued(k, g) PROVE SameOwners
  BY <1>4 DEF batch_transition_to_queued, Queueable, batch_is_current, Entries
<1>5. ASSUME NEW g \in Generations, NEW ticket \in Tickets, batch_bind_active(k, g, ticket)
      PROVE  SameOwners
  BY Zenon, <1>5 DEF batch_bind_active, batch_is_current, Bound, Entries
<1>6. ASSUME NEW g \in Generations, NEW ticket \in Tickets,
             batch_mark_ready_with_pending(k, g, ticket)
      PROVE  SameOwners
  BY <1>6 DEF batch_mark_ready_with_pending, batch_active_owner_matches, batch_is_current, Entries
<1> QED
  BY <1>1, <1>2, <1>3, <1>4, <1>5, <1>6

----------------------------------------------------------------------------
(* Ownership is inductive *)

\* A step that leaves every owner in place keeps Ownership.
LEMMA SameOwnersStep ==
    ASSUME TerminalTypeOK, TerminalTypeOK', Ownership, SameOwners
    PROVE  Ownership'
<1>1. \A k \in Keys : Held(k)' <=> Held(k)
  BY DEF SameOwners, Held
<1>2. \A t \in transfers : t.key \in Keys /\ (Adoptable(t)' <=> Adoptable(t))
  BY DEF SameOwners, Adoptable, TerminalTypeOK, Transfers
<1>3. SoleOwner'
  BY DEF Ownership, SoleOwner, SameOwners, Owns
<1>4. OneTerminalPerOwner' /\ FreshClaims'
  BY DEF Ownership, OneTerminalPerOwner, FreshClaims, SameOwners
<1>5. EntryGenerations'
  BY DEF Ownership, EntryGenerations, SameOwners
<1>6. SingletonGenerations'
  BY <1>1 DEF Ownership, SingletonGenerations, SameOwners, Held
<1>7. UnclaimedOwners'
  BY <1>1 DEF Ownership, UnclaimedOwners, SameOwners, Held, BatchOwner, SingletonOwner
<1>8. TransferAdmissions'
  BY DEF Ownership, TransferAdmissions, SameOwners
<1>9. TransferMatches'
  BY <1>2 DEF Ownership, TransferMatches, SameOwners, Adoptable
<1> QED
  BY <1>3, <1>4, <1>5, <1>6, <1>7, <1>8, <1>9 DEF Ownership

\* An owner that is dropped takes its generation with it.
LEMMA ClearStep ==
    ASSUME TerminalTypeOK, Ownership,
           \/ \E k \in Keys : batch_clear_terminal(k)
           \/ clear_terminal_control
           \/ batch_clear_all_terminals
    PROVE  Ownership'
<1>1. /\ \A k \in Keys : entries'[k] \in {entries[k], None}
      /\ \A k \in Keys : handoffs'[k] = handoffs[k]
                           \/ handoffs'[k] = None
      /\ active' \in {active, None}
      /\ UNCHANGED <<terminal_next, batch_next, transfers, claims>>
  BY DEF batch_clear_terminal, clear_terminal_control, batch_clear_all_terminals, TerminalTypeOK
<1>2. \A k \in Keys : Held(k)' => Held(k) /\ handoffs'[k] = handoffs[k]
  BY <1>1 DEF Held
<1>3. \A t \in transfers : t.key \in Keys
                             /\ (Adoptable(t)' => Adoptable(t) /\ handoffs'[t.key] = handoffs[t.key])
  BY <1>1 DEF Adoptable, TerminalTypeOK, Transfers
<1>4. SoleOwner'
  BY <1>1 DEF Ownership, SoleOwner, Owns
<1>5. OneTerminalPerOwner' /\ FreshClaims'
  BY <1>1 DEF Ownership, OneTerminalPerOwner, FreshClaims
<1>6. EntryGenerations'
  BY <1>1 DEF Ownership, EntryGenerations
<1>7. SingletonGenerations'
  BY <1>1, <1>2 DEF Ownership, SingletonGenerations
<1>8. UnclaimedOwners'
  BY <1>1, <1>2 DEF Ownership, UnclaimedOwners
<1>9. TransferAdmissions'
  BY <1>1 DEF Ownership, TransferAdmissions
<1>10. TransferMatches'
  BY <1>1, <1>3 DEF Ownership, TransferMatches
<1> QED
  BY <1>4, <1>5, <1>6, <1>7, <1>8, <1>9, <1>10 DEF Ownership

\* A new singleton lifecycle gets a generation no owner had.
LEMMA ActivateStep ==
    ASSUME TerminalTypeOK, Ownership, NEW k \in Keys, activate_terminal_control(k)
    PROVE  Ownership'
<1> USE MaxGenerationAssumption, NoneAssumption
<1> DEFINE g == terminal_next + 1
<1>1. /\ g \in Generations
      /\ terminal_next \in Nat
      /\ active' # None /\ active'.key = k /\ active'.generation = g
      /\ terminal_next' = g
      /\ UNCHANGED <<entries, handoffs, batch_next, transfers, claims>>
  <2>1. g \in Generations /\ terminal_next \in Nat
    BY DEF activate_terminal_control, TerminalTypeOK, Generations
  <2>2. FreshSingleton(k, g) # None
    BY Zenon, <2>1, FreshTypes
  <2> QED
    BY <2>1, <2>2 DEF activate_terminal_control, FreshSingleton
<1>2. \A c \in Keys : Held(c)' <=> Held(c)
  BY <1>1 DEF Held
<1>3. \A c \in Keys : Held(c) => handoffs[c].singleton.generation \in Generations
  BY DEF Held, TerminalTypeOK, Handoffs, Singletons
<1>4. SoleOwner'
  BY <1>1 DEF Ownership, SoleOwner, Owns, activate_terminal_control
<1>5. OneTerminalPerOwner' /\ EntryGenerations' /\ TransferAdmissions'
  BY <1>1 DEF Ownership, OneTerminalPerOwner, EntryGenerations, TransferAdmissions
<1>6. FreshClaims'
  BY <1>1 DEF Ownership, FreshClaims, Generations
<1>7. SingletonGenerations'
  BY <1>1, <1>2, <1>3 DEF Ownership, SingletonGenerations, Generations
<1>8. UnclaimedOwners'
  <2>1. claims[SingletonOwner(g)] = 0
    BY <1>1 DEF Ownership, FreshClaims
  <2> QED
    BY <1>1, <1>2, <2>1 DEF Ownership, UnclaimedOwners
<1>9. TransferMatches'
  BY <1>1 DEF Ownership, TransferMatches, Adoptable
<1> QED
  BY <1>4, <1>5, <1>6, <1>7, <1>8, <1>9 DEF Ownership

\* So does a new admission, announced by the reader.
LEMMA AnnounceStep ==
    ASSUME TerminalTypeOK, Ownership, NEW k \in Keys, batch_announce_terminal(k)
    PROVE  Ownership'
<1> USE MaxGenerationAssumption, NoneAssumption
<1> DEFINE g == batch_next + 1
<1>1. g \in Generations /\ batch_next \in Nat
  BY DEF batch_announce_terminal, TerminalTypeOK, Generations
<1>2. /\ entries'[k] # None /\ entries'[k].generation = g
      /\ \A c \in Keys : c # k => entries'[c] = entries[c]
      /\ batch_next' = g
      /\ handoffs[k] = None
      /\ UNCHANGED <<active, terminal_next, handoffs, transfers, claims>>
  BY <1>1, FreshTypes DEF batch_announce_terminal, TerminalTypeOK, FreshEntry
<1>3. \A c \in Keys : entries[c] # None => entries[c].generation \in Generations
  BY DEF TerminalTypeOK, Entries
<1>4. \A t \in transfers : t.admission \in Generations
  BY DEF TerminalTypeOK, Transfers
<1>5. SoleOwner'
  BY <1>2 DEF Ownership, SoleOwner, Owns
<1>6. OneTerminalPerOwner' /\ SingletonGenerations'
  BY <1>2 DEF Ownership, OneTerminalPerOwner, SingletonGenerations, Held
<1>7. EntryGenerations'
  BY <1>1, <1>2, <1>3 DEF Ownership, EntryGenerations, Generations
<1>8. FreshClaims'
  BY <1>1, <1>2 DEF Ownership, FreshClaims, Generations
<1>9. UnclaimedOwners'
  <2>1. claims[BatchOwner(g)] = 0
    BY <1>1 DEF Ownership, FreshClaims
  <2> QED
    BY <1>2, <2>1 DEF Ownership, UnclaimedOwners, Held
<1>10. TransferAdmissions'
  BY <1>1, <1>2, <1>4 DEF Ownership, TransferAdmissions, Generations
<1>11. TransferMatches'
  BY <1>2 DEF Ownership, TransferMatches, Adoptable
<1> QED
  BY <1>5, <1>6, <1>7, <1>8, <1>9, <1>10, <1>11 DEF Ownership

\* And so does an admission made by promotion, whose singleton is dropped.
LEMMA PromoteStep ==
    ASSUME TerminalTypeOK, Ownership, NEW k \in Keys, singleton_handoff_to_batch(k)
    PROVE  Ownership'
<1> USE MaxGenerationAssumption, NoneAssumption
<1> DEFINE g == batch_next + 1
<1>1. g \in Generations /\ batch_next \in Nat
  BY DEF singleton_handoff_to_batch, TerminalTypeOK, Generations
<1>2. /\ entries'[k] # None /\ entries'[k].generation = g
      /\ \A c \in Keys : c # k => entries'[c] = entries[c]
      /\ batch_next' = g
      /\ \A c \in Keys : c # k => handoffs'[c] = handoffs[c]
      /\ handoffs'[k] = None
      /\ active' = None
      /\ UNCHANGED <<terminal_next, transfers, claims>>
  <2>1. FreshEntry(g, "Queued", active.decision = "Abort") # None
    BY Zenon, <1>1, FreshTypes
  <2>2. FreshEntry(g, "Queued", active.decision = "Abort").generation = g
    BY DEF FreshEntry
  <2> QED
    BY <2>1, <2>2 DEF singleton_handoff_to_batch, TerminalTypeOK
<1>3. \A c \in Keys : entries[c] # None => entries[c].generation \in Generations
  BY DEF TerminalTypeOK, Entries
<1>4. \A t \in transfers : t.admission \in Generations /\ t.key \in Keys
  BY DEF TerminalTypeOK, Transfers
<1>5. \A c \in Keys : Held(c)' => Held(c) /\ handoffs'[c] = handoffs[c]
  BY <1>2 DEF Held
<1>6. SoleOwner'
  BY <1>2 DEF Ownership, SoleOwner, Owns
<1>7. OneTerminalPerOwner' /\ SingletonGenerations'
  BY <1>2, <1>5 DEF Ownership, OneTerminalPerOwner, SingletonGenerations
<1>8. EntryGenerations'
  BY <1>1, <1>2, <1>3 DEF Ownership, EntryGenerations, Generations
<1>9. FreshClaims'
  BY <1>1, <1>2 DEF Ownership, FreshClaims, Generations
<1>10. UnclaimedOwners'
  <2>1. claims[BatchOwner(g)] = 0
    BY <1>1 DEF Ownership, FreshClaims
  <2> QED
    BY <1>2, <1>5, <2>1 DEF Ownership, UnclaimedOwners
<1>11. TransferAdmissions'
  BY <1>1, <1>2, <1>4 DEF Ownership, TransferAdmissions, Generations
<1>12. TransferMatches'
  BY <1>2, <1>4 DEF Ownership, TransferMatches, Adoptable
<1> QED
  BY <1>6, <1>7, <1>8, <1>9, <1>10, <1>11, <1>12 DEF Ownership

\* A claim is charged to an owner that had none, and raises its flag.
LEMMA ClaimStep ==
    ASSUME TerminalTypeOK, Ownership, NEW k \in Keys, NEW scope \in Generations \cup {None},
           claim_wire_terminal(k, scope)
    PROVE  Ownership'
<1> USE MaxGenerationAssumption, NoneAssumption
<1> DEFINE o == ClaimOwner(k)
<1>1. /\ o \in Owners
      /\ claims' = [claims EXCEPT ![o] = @ + 1]
      /\ UNCHANGED <<terminal_next, handoffs, batch_next, transfers>>
  BY DEF claim_wire_terminal, ClaimGranted, ClaimOwner, SingletonClaimable, Owns,
         TerminalTypeOK, Owners, Entries, Singletons
<1>2. claims[o] = 0
  BY DEF claim_wire_terminal, ClaimGranted, ClaimOwner, SingletonClaimable, Owns,
         Ownership, UnclaimedOwners, BatchOwner, SingletonOwner
<1>3. /\ claims'[o] = 1
      /\ \A p \in Owners : p # o => claims'[p] = claims[p]
  BY <1>1, <1>2 DEF TerminalTypeOK
<1>4. /\ \A c \in Keys :
            /\ entries'[c] = None <=> entries[c] = None
            /\ entries[c] # None => entries'[c].generation = entries[c].generation
      /\ active' = None <=> active = None
      /\ active # None => active'.key = active.key /\ active'.generation = active.generation
  <2>1. CASE entries[k] # None
    <3>1. [entries[k] EXCEPT !.terminal_claimed = TRUE] \in Entries
      BY Zenon, <2>1 DEF TerminalTypeOK, Entries
    <3>2. [entries[k] EXCEPT !.terminal_claimed = TRUE].generation = entries[k].generation
      BY <2>1 DEF TerminalTypeOK, Entries
    <3> QED
      BY Zenon, <2>1, <3>1, <3>2 DEF claim_wire_terminal, TerminalTypeOK
  <2>2. CASE entries[k] = None
    <3>1. active \in Singletons
      BY <2>2 DEF claim_wire_terminal, ClaimGranted, SingletonClaimable, Owns, TerminalTypeOK
    <3>2. [active EXCEPT !.terminal_claimed = TRUE] \in Singletons
      BY Zenon, <3>1 DEF Singletons
    <3> QED
      BY Zenon, <2>2, <3>1, <3>2 DEF claim_wire_terminal, Singletons
  <2> QED
    BY <2>1, <2>2
<1>5. /\ \A g \in Generations : BatchOwner(g) \in Owners /\ SingletonOwner(g) \in Owners
      /\ \A c \in Keys : entries[c] # None => entries[c].generation \in Generations
      /\ active # None => active.generation \in Generations
      /\ \A c \in Keys : Held(c) => handoffs[c].singleton.generation \in Generations
  BY DEF BatchOwner, SingletonOwner, Owners, Held, TerminalTypeOK, Entries, Singletons, Handoffs
<1>6. \A c \in Keys : Held(c)' <=> Held(c)
  BY <1>1 DEF Held
<1>7. SoleOwner'
  BY <1>1, <1>4 DEF Ownership, SoleOwner, Owns
<1>8. OneTerminalPerOwner'
  BY <1>3 DEF Ownership, OneTerminalPerOwner
<1>9. EntryGenerations'
  BY <1>1, <1>4 DEF Ownership, EntryGenerations
<1>10. SingletonGenerations'
  BY <1>1, <1>4, <1>6 DEF Ownership, SingletonGenerations
<1>11. TransferAdmissions' /\ TransferMatches'
  BY <1>1, <1>4 DEF Ownership, TransferAdmissions, TransferMatches, Adoptable
<1>12. CASE entries[k] # None
  <2>1. /\ o = BatchOwner(entries[k].generation)
        /\ entries[k].generation <= batch_next
        /\ entries'[k].terminal_claimed
        /\ \A c \in Keys : c # k => entries'[c] = entries[c]
        /\ active' = active
    BY <1>12 DEF claim_wire_terminal, ClaimOwner, BatchOwner, Ownership, EntryGenerations,
                 TerminalTypeOK, Entries
  <2>2. \A c \in Keys : c # k /\ entries[c] # None => BatchOwner(entries[c].generation) # o
    BY <1>12, <2>1 DEF Ownership, EntryGenerations, BatchOwner
  <2>3. \A g \in Generations : SingletonOwner(g) # o
    BY <2>1 DEF BatchOwner, SingletonOwner
  <2>4. FreshClaims'
    <3>1. \A g \in Generations : g > batch_next => BatchOwner(g) # o
      BY <1>5, <1>12, <2>1 DEF BatchOwner, Generations, TerminalTypeOK
    <3> QED
      BY <1>1, <1>3, <1>5, <2>3, <3>1 DEF Ownership, FreshClaims
  <2>5. UnclaimedOwners'
    BY <1>1, <1>3, <1>4, <1>5, <1>6, <2>1, <2>2, <2>3 DEF Ownership, UnclaimedOwners
  <2> QED
    BY <1>7, <1>8, <1>9, <1>10, <1>11, <2>4, <2>5 DEF Ownership
<1>13. CASE entries[k] = None
  <2>1. /\ active # None
        /\ o = SingletonOwner(active.generation)
        /\ active.generation <= terminal_next
        /\ active'.terminal_claimed
        /\ entries' = entries
    BY <1>13 DEF claim_wire_terminal, ClaimGranted, SingletonClaimable, Owns, ClaimOwner,
                 SingletonOwner, Ownership, SingletonGenerations, TerminalTypeOK, Singletons
  <2>2. \A c \in Keys : Held(c) => SingletonOwner(handoffs[c].singleton.generation) # o
    BY <2>1 DEF Ownership, SingletonGenerations, SingletonOwner
  <2>3. \A g \in Generations : BatchOwner(g) # o
    BY <2>1 DEF BatchOwner, SingletonOwner
  <2>4. FreshClaims'
    <3>1. \A g \in Generations : g > terminal_next => SingletonOwner(g) # o
      BY <1>5, <2>1 DEF SingletonOwner, Generations, TerminalTypeOK
    <3> QED
      BY <1>1, <1>3, <1>5, <2>3, <3>1 DEF Ownership, FreshClaims
  <2>5. UnclaimedOwners'
    BY <1>1, <1>3, <1>4, <1>5, <1>6, <2>1, <2>2, <2>3 DEF Ownership, UnclaimedOwners
  <2> QED
    BY <1>7, <1>8, <1>9, <1>10, <1>11, <2>4, <2>5 DEF Ownership
<1> QED
  BY <1>12, <1>13

\* A handoff moves the request's owners into a tombstone, under an admission
\* no earlier token names.
LEMMA HandoffStep ==
    ASSUME TerminalTypeOK, Ownership, NEW k \in Keys, NEW g \in Generations,
           batch_handoff_to_singleton_and_clear(k, g)
    PROVE  Ownership'
<1> USE NoneAssumption
<1> DEFINE t == TransferOf(k)
<1>1. /\ entries[k] # None /\ entries[k].generation = g /\ handoffs[k] = None
      /\ t.key = k /\ t.admission = g
      /\ t.singleton = IF Owns(k) THEN active ELSE None
      /\ t.batch_abort_latched = entries[k].abort_latched
  BY DEF batch_handoff_to_singleton_and_clear, batch_is_current, TransferOf
<1>2. /\ handoffs'[k] = [admission |-> g, singleton |-> t.singleton,
                         abort_latched |-> entries[k].abort_latched, adopted |-> FALSE]
      /\ \A c \in Keys : c # k => handoffs'[c] = handoffs[c]
      /\ entries'[k] = None
      /\ \A c \in Keys : c # k => entries'[c] = entries[c]
      /\ active' = IF Owns(k) THEN None ELSE active
      /\ transfers' = transfers \cup {t}
      /\ UNCHANGED <<terminal_next, batch_next, claims>>
  BY DEF batch_handoff_to_singleton_and_clear, TerminalTypeOK
<1>3. \A c \in Keys : Held(c)' => \/ c # k /\ Held(c) /\ handoffs'[c] = handoffs[c]
                                  \/ c = k /\ Owns(k) /\ handoffs'[c].singleton = active
  BY <1>1, <1>2 DEF Held
<1>4. /\ \A u \in transfers : u.key \in Keys /\ u.admission # g
      /\ \A c \in Keys : c # k /\ entries[c] # None => entries[c].generation # g
      /\ g <= batch_next
  BY <1>1 DEF Ownership, TransferAdmissions, EntryGenerations, TerminalTypeOK, Transfers
<1>5. SoleOwner'
  BY <1>1, <1>2 DEF Ownership, SoleOwner, Owns
<1>6. OneTerminalPerOwner' /\ FreshClaims'
  BY <1>2 DEF Ownership, OneTerminalPerOwner, FreshClaims
<1>7. EntryGenerations'
  BY <1>2 DEF Ownership, EntryGenerations
<1>8. SingletonGenerations'
  BY <1>2, <1>3 DEF Ownership, SingletonGenerations, Owns
<1>9. UnclaimedOwners'
  BY <1>2, <1>3 DEF Ownership, UnclaimedOwners, Owns
<1>10. TransferAdmissions'
  BY <1>1, <1>2, <1>4 DEF Ownership, TransferAdmissions
<1>11. TransferMatches'
  <2> SUFFICES ASSUME NEW u \in transfers', Adoptable(u)'
               PROVE  /\ handoffs'[u.key].singleton = None <=> u.singleton = None
                      /\ u.singleton # None =>
                            handoffs'[u.key].singleton.generation = u.singleton.generation
                      /\ u.batch_abort_latched => handoffs'[u.key].abort_latched
    BY DEF TransferMatches
  <2>1. CASE u = t
    BY <1>1, <1>2, <2>1
  <2>2. CASE u # t
    <3>1. u \in transfers /\ u.key # k
      BY <1>2, <1>4, <2>2 DEF Adoptable
    <3> QED
      BY <1>2, <1>4, <3>1 DEF Ownership, TransferMatches, Adoptable
  <2> QED
    BY <2>1, <2>2
<1> QED
  BY <1>5, <1>6, <1>7, <1>8, <1>9, <1>10, <1>11 DEF Ownership

\* Adoption reinstates the singleton of the tombstone, or starts a new one.
LEMMA AdoptStep ==
    ASSUME TerminalTypeOK, TerminalTypeOK', Ownership, NEW t \in transfers,
           adopt_singleton_transfer(t)
    PROVE  Ownership'
<1> USE MaxGenerationAssumption, NoneAssumption
<1> DEFINE k == t.key
           s == Adopted(t, terminal_next + 1)
<1>1. /\ k \in Keys
      /\ Adoptable(t)
      /\ handoffs[k] \in Handoffs
  BY DEF adopt_singleton_transfer, Adoptable, TerminalTypeOK, Transfers
<1>2. /\ handoffs'[k] # None /\ handoffs'[k].adopted
      /\ \A c \in Keys : c # k => handoffs'[c] = handoffs[c]
      /\ active' = s /\ s.key = k
      /\ UNCHANGED <<entries, batch_next, transfers, claims>>
  <2>1. /\ handoffs' = [handoffs EXCEPT ![k] =
              [handoffs[k] EXCEPT !.singleton = s, !.adopted = TRUE]]
        /\ active' = s /\ s.key = k
        /\ UNCHANGED <<entries, batch_next, transfers, claims>>
    BY Zenon DEF adopt_singleton_transfer
  <2>2. DOMAIN handoffs = Keys /\ k \in Keys
    BY <1>1 DEF TerminalTypeOK
  <2>3. handoffs'[k] = [handoffs[k] EXCEPT !.singleton = s, !.adopted = TRUE]
    BY Zenon, <2>1, <2>2
  <2>4. \A c \in Keys : c # k => handoffs'[c] = handoffs[c]
    BY <2>1, <2>2
  <2>5. handoffs'[k] # None
    <3>1. [handoffs[k] EXCEPT !.singleton = s, !.adopted = TRUE] \in Handoffs
      BY Zenon, AdoptedTypes
    <3> QED
      BY <2>3, <3>1
  <2>6. handoffs'[k].adopted
    BY <1>1, <2>3 DEF Handoffs
  <2> QED
    BY <2>1, <2>4, <2>5, <2>6
<1>3. Snapshot(t) = handoffs[k].singleton
  BY <1>1 DEF Ownership, TransferMatches, Snapshot
<1>4. Snapshot(t) # None =>
        /\ s.generation = handoffs[k].singleton.generation
        /\ s.terminal_claimed = handoffs[k].singleton.terminal_claimed
        /\ terminal_next' = terminal_next
        /\ Held(k)
  BY <1>1, <1>3 DEF Adopted, adopt_singleton_transfer, Held, Adoptable, Handoffs, Singletons
<1>5. Snapshot(t) = None =>
        /\ s.generation = terminal_next + 1
        /\ terminal_next' = terminal_next + 1
        /\ terminal_next + 1 \in Generations
  BY DEF Adopted, adopt_singleton_transfer, FreshSingleton, Generations, TerminalTypeOK
<1>6. \A c \in Keys : Held(c)' => c # k /\ Held(c) /\ handoffs'[c] = handoffs[c]
  BY <1>2 DEF Held
<1>7. \A c \in Keys : Held(c) => handoffs[c].singleton.generation \in Generations
  BY DEF Held, TerminalTypeOK, Handoffs, Singletons
<1>8. SoleOwner'
  BY <1>1, <1>2 DEF Ownership, SoleOwner, Owns, Adoptable
<1>9. OneTerminalPerOwner' /\ EntryGenerations' /\ TransferAdmissions'
  BY <1>2 DEF Ownership, OneTerminalPerOwner, EntryGenerations, TransferAdmissions
<1>10. TransferMatches'
  <2>1. \A u \in transfers : u.key \in Keys
    BY DEF TerminalTypeOK, Transfers
  <2>2. \A u \in transfers : Adoptable(u)' => Adoptable(u) /\ handoffs'[u.key] = handoffs[u.key]
    BY <1>2, <2>1 DEF Adoptable
  <2> QED
    BY <1>2, <2>2 DEF Ownership, TransferMatches
<1>11. CASE Snapshot(t) # None
  <2>1. FreshClaims'
    BY <1>2, <1>4, <1>11 DEF Ownership, FreshClaims
  <2>2. SingletonGenerations'
    BY <1>1, <1>2, <1>4, <1>6, <1>11 DEF Ownership, SingletonGenerations
  <2>3. UnclaimedOwners'
    BY <1>1, <1>2, <1>4, <1>6, <1>11 DEF Ownership, UnclaimedOwners
  <2> QED
    BY <1>8, <1>9, <1>10, <2>1, <2>2, <2>3 DEF Ownership
<1>12. CASE Snapshot(t) = None
  <2>1. FreshClaims'
    BY <1>2, <1>5, <1>12 DEF Ownership, FreshClaims, Generations, TerminalTypeOK
  <2>2. SingletonGenerations'
    BY <1>1, <1>2, <1>5, <1>6, <1>7, <1>12
       DEF Ownership, SingletonGenerations, Generations, TerminalTypeOK
  <2>3. UnclaimedOwners'
    <3>1. claims[SingletonOwner(terminal_next + 1)] = 0
      BY <1>5, <1>12 DEF Ownership, FreshClaims, TerminalTypeOK
    <3> QED
      BY <1>2, <1>5, <1>6, <1>12, <3>1 DEF Ownership, UnclaimedOwners
  <2> QED
    BY <1>8, <1>9, <1>10, <2>1, <2>2, <2>3 DEF Ownership
<1> QED
  BY <1>11, <1>12

\* Every step of terminal.rs keeps Ownership.
LEMMA OwnershipStep ==
    ASSUME TerminalTypeOK, Ownership, [TerminalNext]_terminalVars
    PROVE  Ownership'
<1>1. TerminalTypeOK'
  BY TypeStep
<1>2. ASSUME SameOwners PROVE Ownership'
  BY <1>1, <1>2, SameOwnersStep
<1>3. CASE UNCHANGED terminalVars
  BY <1>2, <1>3 DEF terminalVars, SameOwners
<1>4. ASSUME NEW k \in Keys, NEW g \in Generations, batch_clear_terminal_at_generation(k, g)
      PROVE  Ownership'
  BY <1>4, ClearStep DEF batch_clear_terminal_at_generation
<1>5. ASSUME NEW t \in transfers, adopt_singleton_transfer(t) PROVE Ownership'
  BY <1>1, <1>5, AdoptStep
<1>6. ASSUME NEW k \in Keys,
             \/ mark_terminal_control_ready(k)
             \/ TerminalWaitTimesOut(k)
             \/ DeadlinePasses(k)
             \/ \E g \in Generations :
                   \/ batch_transition_to_queued(k, g)
                   \/ \E ticket \in Tickets :
                         batch_bind_active(k, g, ticket) \/ batch_mark_ready_with_pending(k, g, ticket)
      PROVE  Ownership'
  BY <1>2, <1>6, ProgressKeepsOwners
<1>7. ASSUME NEW k \in Keys, NEW kind \in Controls,
             apply_terminal_control(kind, k) \/ batch_apply_terminal_control(kind, k)
      PROVE  Ownership'
  BY <1>2, <1>7, ControlKeepsOwners
<1> QED
  BY <1>3, <1>4, <1>5, <1>6, <1>7, ClearStep, ActivateStep, AnnounceStep, PromoteStep,
     ClaimStep, HandoffStep DEF TerminalNext

----------------------------------------------------------------------------
(* Commits *)

\* CommitNeedsReady, owner by owner.
LEMMA CommitOfEachOwner ==
    ASSUME TerminalTypeOK
    PROVE  CommitNeedsReady <=>
             /\ \A k \in Keys :
                   entries[k] # None /\ entries[k].commit_latched => entries[k].state = "Ready"
             /\ active # None /\ active.decision = "Commit" => active.ready
             /\ \A k \in Keys : Held(k) /\ handoffs[k].singleton.decision = "Commit"
                                => handoffs[k].singleton.ready
  BY DEF CommitNeedsReady, LiveSingletons, Held

\* Decided records a commit for a ready singleton only.
LEMMA DecidedCommit ==
    ASSUME NEW s \in Singletons, NEW kind \in Controls, s.decision = "Commit" => s.ready
    PROVE  Decided(s, kind).decision = "Commit" => Decided(s, kind).ready
<1> USE NoneAssumption
<1>1. CASE s.decision = None /\ (kind = "abort" \/ s.ready)
  <2>1. /\ Decided(s, kind).decision = IF kind = "abort" THEN "Abort" ELSE "Commit"
        /\ Decided(s, kind).ready = s.ready
    BY <1>1 DEF Decided, Singletons
  <2> QED
    BY <1>1, <2>1
<1>2. CASE ~(s.decision = None /\ (kind = "abort" \/ s.ready))
  <2>1. Decided(s, kind) = s
    BY <1>2 DEF Decided
  <2> QED
    BY <2>1
<1> QED
  BY <1>1, <1>2

\* No step records a commit for an owner that is not ready.
LEMMA CommitStep ==
    ASSUME TerminalTypeOK, Ownership, CommitNeedsReady, [TerminalNext]_terminalVars
    PROVE  CommitNeedsReady'
<1> USE NoneAssumption
<1> DEFINE E == \A k \in Keys :
                  entries[k] # None /\ entries[k].commit_latched => entries[k].state = "Ready"
           A == active # None /\ active.decision = "Commit" => active.ready
           H == \A k \in Keys : Held(k) /\ handoffs[k].singleton.decision = "Commit"
                               => handoffs[k].singleton.ready
<1>1. E /\ A /\ H
  BY CommitOfEachOwner
<1> SUFFICES E' /\ A' /\ H'
  <2>1. TerminalTypeOK'
    BY TypeStep
  <2> QED
    BY <2>1, CommitOfEachOwner, PTL
<1>2. ASSUME NEW k \in Keys, activate_terminal_control(k) PROVE E' /\ A' /\ H'
  BY <1>1, <1>2 DEF activate_terminal_control, FreshSingleton, Decisions, Held
<1>3. ASSUME NEW k \in Keys, mark_terminal_control_ready(k) PROVE E' /\ A' /\ H'
  BY <1>1, <1>3 DEF mark_terminal_control_ready, Owns, Held, TerminalTypeOK, Singletons
<1>4. ASSUME NEW k \in Keys, TerminalWaitTimesOut(k) PROVE E' /\ A' /\ H'
  BY <1>1, <1>4 DEF TerminalWaitTimesOut, Owns, Held, TerminalTypeOK, Singletons
<1>5. ASSUME NEW k \in Keys, batch_announce_terminal(k) PROVE E' /\ A' /\ H'
  BY <1>1, <1>5 DEF batch_announce_terminal, FreshEntry, Held, TerminalTypeOK
<1>6. ASSUME NEW k \in Keys, DeadlinePasses(k) PROVE E' /\ A' /\ H'
  BY <1>1, <1>6 DEF DeadlinePasses, Held, TerminalTypeOK, Entries
<1>7. ASSUME NEW k \in Keys, batch_clear_terminal(k) PROVE E' /\ A' /\ H'
  BY <1>1, <1>7 DEF batch_clear_terminal, Held, TerminalTypeOK
<1>8. ASSUME NEW k \in Keys, singleton_handoff_to_batch(k) PROVE E' /\ A' /\ H'
  BY <1>1, <1>8 DEF singleton_handoff_to_batch, FreshEntry, Held, TerminalTypeOK
<1>9. ASSUME NEW k \in Keys, NEW kind \in Controls, handoffs[k] # None,
             apply_handoff_control(kind, k)
      PROVE  E' /\ A' /\ H'
  <2>1. E'
    BY <1>1, <1>9 DEF apply_handoff_control
  <2>2. A'
    BY <1>1, <1>9, DecidedCommit, DecidedType DEF apply_handoff_control, Owns, TerminalTypeOK
  <2>3. handoffs[k] \in Handoffs
    BY <1>9 DEF TerminalTypeOK
  <2>4. /\ handoffs'[k].singleton \in {handoffs[k].singleton, Decided(handoffs[k].singleton, kind)}
        /\ handoffs'[k].adopted = handoffs[k].adopted
        /\ handoffs'[k].singleton = None <=> handoffs[k].singleton = None
        /\ \A c \in Keys : c # k => handoffs'[c] = handoffs[c]
    BY <1>9, <2>3, DecidedType DEF apply_handoff_control, TerminalTypeOK, Handoffs
  <2>5. H'
    <3>1. Held(k)' => /\ Held(k)
                      /\ handoffs[k].singleton \in Singletons
                      /\ handoffs[k].singleton.decision = "Commit" => handoffs[k].singleton.ready
      BY <1>1, <1>9, <2>3, <2>4 DEF Held, Handoffs
    <3>2. Held(k)' /\ handoffs'[k].singleton.decision = "Commit" => handoffs'[k].singleton.ready
      BY <2>4, <3>1, DecidedCommit
    <3> QED
      BY <1>1, <2>4, <3>2 DEF Held
  <2> QED
    BY <2>1, <2>2, <2>5
<1>10. ASSUME NEW k \in Keys, NEW kind \in Controls, apply_terminal_control(kind, k)
       PROVE  E' /\ A' /\ H'
  <2>1. CASE handoffs[k] # None
    BY <1>9, <1>10, <2>1 DEF apply_terminal_control
  <2>2. CASE handoffs[k] = None
    BY <1>1, <1>10, <2>2, DecidedCommit, DecidedType
       DEF apply_terminal_control, Owns, Held, TerminalTypeOK
  <2> QED
    BY <2>1, <2>2
<1>11. ASSUME NEW k \in Keys, NEW kind \in Controls, batch_apply_terminal_control(kind, k)
       PROVE  E' /\ A' /\ H'
  <2>1. CASE handoffs[k] # None
    BY <1>9, <1>11, <2>1 DEF batch_apply_terminal_control
  <2>2. CASE handoffs[k] = None
    BY <1>1, <1>11, <2>2, LatchedType DEF batch_apply_terminal_control, Held, TerminalTypeOK
  <2> QED
    BY <2>1, <2>2
<1>12. ASSUME NEW k \in Keys, NEW g \in Generations, batch_transition_to_queued(k, g)
       PROVE  E' /\ A' /\ H'
  BY <1>1, <1>12
     DEF batch_transition_to_queued, Queueable, batch_is_current, Held, TerminalTypeOK, Entries
<1>13. ASSUME NEW k \in Keys, NEW g \in Generations, batch_handoff_to_singleton_and_clear(k, g)
       PROVE  E' /\ A' /\ H'
  BY <1>1, <1>13
     DEF batch_handoff_to_singleton_and_clear, TransferOf, Owns, Held, TerminalTypeOK
<1>14. ASSUME NEW k \in Keys, NEW g \in Generations, NEW ticket \in Tickets,
              batch_bind_active(k, g, ticket)
       PROVE  E' /\ A' /\ H'
  BY <1>1, <1>14 DEF batch_bind_active, batch_is_current, Bound, Held, TerminalTypeOK, Entries
<1>15. ASSUME NEW k \in Keys, NEW g \in Generations, NEW ticket \in Tickets,
              batch_mark_ready_with_pending(k, g, ticket)
       PROVE  E' /\ A' /\ H'
  BY <1>1, <1>15 DEF batch_mark_ready_with_pending, batch_active_owner_matches, batch_is_current,
                     Held, TerminalTypeOK, Entries
<1>16. ASSUME NEW k \in Keys, NEW scope \in Generations \cup {None}, claim_wire_terminal(k, scope)
       PROVE  E' /\ A' /\ H'
  BY <1>1, <1>16 DEF claim_wire_terminal, ClaimGranted, SingletonClaimable, Owns, Held,
                     TerminalTypeOK, Entries, Singletons
<1>17. ASSUME NEW t \in transfers, adopt_singleton_transfer(t) PROVE E' /\ A' /\ H'
  <2>1. t.key \in Keys /\ Adoptable(t) /\ handoffs[t.key] \in Handoffs
    BY <1>17 DEF adopt_singleton_transfer, Adoptable, TerminalTypeOK, Transfers
  <2>2. Snapshot(t) = handoffs[t.key].singleton
    BY <2>1 DEF Ownership, TransferMatches, Snapshot
  <2>3. Snapshot(t) # None => Snapshot(t) \in Singletons /\ Held(t.key)
    BY <2>1, <2>2 DEF Held, Adoptable, Handoffs
  <2>4. Adopted(t, terminal_next + 1).decision = "Commit" => Adopted(t, terminal_next + 1).ready
    BY <1>1, <2>1, <2>2, <2>3 DEF Adopted, FreshSingleton, Decisions, Singletons
  <2>5. /\ handoffs'[t.key].adopted
        /\ \A c \in Keys : c # t.key => handoffs'[c] = handoffs[c]
    BY <1>17, <2>1 DEF adopt_singleton_transfer, TerminalTypeOK, Handoffs
  <2> QED
    BY Zenon, <1>1, <1>17, <2>1, <2>4, <2>5 DEF adopt_singleton_transfer, Held
<1>18. CASE clear_terminal_control
  BY <1>1, <1>18 DEF clear_terminal_control, Held, TerminalTypeOK
<1>19. CASE batch_clear_all_terminals
  BY <1>1, <1>19 DEF batch_clear_all_terminals, Held
<1>20. CASE UNCHANGED terminalVars
  BY <1>1, <1>20 DEF terminalVars, Held
<1> QED
  BY Zenon, <1>2, <1>3, <1>4, <1>5, <1>6, <1>7, <1>8, <1>10, <1>11, <1>12, <1>13, <1>14, <1>15,
     <1>16, <1>17, <1>18, <1>19, <1>20 DEF TerminalNext, batch_clear_terminal_at_generation

----------------------------------------------------------------------------
(* The safety theorems *)

\* The inductive invariant behind the theorems below.
LEMMA Inductive == TerminalSpec => [](TerminalTypeOK /\ Ownership /\ CommitNeedsReady)
<1>1. TerminalInit => TerminalTypeOK
  BY MaxGenerationAssumption DEF TerminalInit, TerminalTypeOK
<1>2. TerminalInit => Ownership
  BY DEF TerminalInit, Ownership, SoleOwner, OneTerminalPerOwner, EntryGenerations,
         SingletonGenerations, FreshClaims, UnclaimedOwners, TransferAdmissions, TransferMatches,
         Held, Owns, BatchOwner, SingletonOwner, Owners
<1>3. TerminalInit => CommitNeedsReady
  BY DEF TerminalInit, CommitNeedsReady, LiveSingletons
<1> QED
  BY <1>1, <1>2, <1>3, TypeStep, OwnershipStep, CommitStep, PTL DEF TerminalSpec

\* No request's terminal is ever owned by both planes: an entry excludes a
\* tombstone, and an unadopted tombstone excludes the active singleton.
THEOREM SoleOwnership == TerminalSpec => []SoleOwner
  BY Inductive, PTL DEF Ownership

\* claim_wire_terminal grants one terminal to each admission and to each
\* singleton lifecycle, however often a wire key is reused, handed off,
\* adopted or promoted.
THEOREM ExactlyOneClaim == TerminalSpec => []OneTerminalPerOwner
  BY Inductive, PTL DEF Ownership

\* A commit is recorded only for an owner that was made ready for it.
THEOREM CommitAfterReady == TerminalSpec => []CommitNeedsReady
  BY Inductive, PTL

\* adopt_singleton_transfer accepts only the token of the waiting handoff,
\* and restores the singleton lifecycle that handoff captured.
THEOREM ExactAdoption == TerminalSpec => []AdoptionIsExact
<1>1. TerminalTypeOK /\ Ownership => AdoptionIsExact
  BY DEF Ownership, TransferAdmissions, TransferMatches, AdoptionIsExact, Adoptable
<1> QED
  BY <1>1, Inductive, PTL

-----------------------------------------------------------------------------
(***************************************************************************)
(* What no step of the terminal registry may undo: a decision, once        *)
(* recorded on a singleton lifecycle (DecisionsFinal), and an abort, while *)
(* its request changes planes (AbortsSurvive).  Both are action properties *)
(* and rest on the inductive invariant above.                              *)
(*                                                                         *)
(* A decision could be lost by overwriting it, or by giving its lifecycle  *)
(* to another record.  The proof follows records instead of lifecycles:    *)
(* every singleton live after a step is new, or continues one live before  *)
(* it (LiveContinue), and generations tell the live ones apart.            *)
(***************************************************************************)

\* Singleton u, found after a step, is a new lifecycle, or one that was live
\* and keeps the decision it had.
Continues(u) ==
    \/ u.generation > terminal_next
    \/ \E s \in LiveSingletons :
          s.generation = u.generation /\ (s.decision # None => u.decision = s.decision)

\* The live singletons are the active one and those waiting for adoption.
LEMMA LiveOnes ==
    ASSUME TerminalTypeOK
    PROVE  /\ active # None => active \in LiveSingletons
           /\ \A k \in Keys : Held(k) => handoffs[k].singleton \in LiveSingletons
           /\ \A s \in LiveSingletons :
                 s = active \/ \E k \in Keys : Held(k) /\ s = handoffs[k].singleton
  BY DEF LiveSingletons, Held

\* A generation names one live singleton, and was handed out.
LEMMA LiveApart ==
    ASSUME TerminalTypeOK, Ownership, NEW s \in LiveSingletons
    PROVE  /\ s \in Singletons
           /\ s.generation <= terminal_next
           /\ \A u \in LiveSingletons : u.generation = s.generation => u = s
<1>1. SingletonGenerations
  BY DEF Ownership
<1>2. \A k \in Keys : Held(k) => handoffs[k].singleton \in Singletons
  BY DEF Held, TerminalTypeOK, Handoffs
<1>3. active # None => active \in Singletons
  BY DEF TerminalTypeOK
<1>4. \A u \in LiveSingletons : u # None
  BY DEF LiveSingletons
<1> QED
  BY <1>1, <1>2, <1>3, <1>4, LiveOnes DEF SingletonGenerations

\* A control keeps a decision.
LEMMA DecidedKeeps ==
    ASSUME NEW s \in Singletons, NEW kind \in Controls
    PROVE  s.decision # None => Decided(s, kind).decision = s.decision
  BY DEF Decided

\* A control on a tombstone keeps every decision, on the tombstone and on the
\* active singleton.
LEMMA HandoffControlContinues ==
    ASSUME TerminalTypeOK, NEW k \in Keys, NEW kind \in Controls, handoffs[k] # None,
           apply_handoff_control(kind, k)
    PROVE  /\ active' # None => Continues(active')
           /\ \A c \in Keys : Held(c)' => Continues(handoffs'[c].singleton)
<1> USE NoneAssumption
<1>1. handoffs[k] \in Handoffs
  BY DEF TerminalTypeOK
<1>2. active' # None => Continues(active')
  <2>1. active' \in {active, Decided(active, kind)} /\ (active = None => active' = None)
    BY DEF apply_handoff_control, Owns
  <2>2. active # None => active \in Singletons
    BY DEF TerminalTypeOK
  <2> QED
    BY <2>1, <2>2, LiveOnes, DecidedType, DecidedKeeps DEF Continues
<1>3. /\ handoffs'[k].singleton \in {handoffs[k].singleton, Decided(handoffs[k].singleton, kind)}
      /\ handoffs'[k].adopted = handoffs[k].adopted
      /\ handoffs'[k].singleton = None <=> handoffs[k].singleton = None
      /\ \A c \in Keys : c # k => handoffs'[c] = handoffs[c]
  BY <1>1, DecidedType DEF apply_handoff_control, TerminalTypeOK, Handoffs
<1>4. Held(k)' => Held(k) /\ handoffs[k].singleton \in Singletons
  BY <1>1, <1>3 DEF Held, Handoffs
<1>5. Held(k)' => Continues(handoffs'[k].singleton)
  BY <1>3, <1>4, LiveOnes, DecidedType, DecidedKeeps DEF Continues
<1>6. \A c \in Keys : c # k /\ Held(c)' => Continues(handoffs'[c].singleton)
  BY <1>3, LiveOnes DEF Held, Continues
<1> QED
  BY <1>2, <1>5, <1>6

\* Adoption installs the singleton the tombstone carried, or a new one.
LEMMA AdoptedContinues ==
    ASSUME TerminalTypeOK, Ownership, NEW t \in transfers, adopt_singleton_transfer(t)
    PROVE  Continues(active')
<1> USE NoneAssumption
<1>1. t.key \in Keys /\ Adoptable(t) /\ handoffs[t.key] \in Handoffs
  BY DEF adopt_singleton_transfer, Adoptable, TerminalTypeOK, Transfers
<1>2. Snapshot(t) = handoffs[t.key].singleton
  BY <1>1 DEF Ownership, TransferMatches, Snapshot
<1>3. active' = Adopted(t, terminal_next + 1)
  BY DEF adopt_singleton_transfer
<1>4. CASE Snapshot(t) # None
  <2>1. Snapshot(t) \in Singletons /\ Snapshot(t) \in LiveSingletons
    BY <1>1, <1>2, <1>4, LiveOnes DEF Held, Adoptable, Handoffs
  <2>2. /\ active'.generation = Snapshot(t).generation
        /\ Snapshot(t).decision # None => active'.decision = Snapshot(t).decision
    BY <1>3, <1>4, <2>1 DEF Adopted, Singletons
  <2> QED
    BY <2>1, <2>2 DEF Continues
<1>5. CASE Snapshot(t) = None
  <2>1. terminal_next \in Nat /\ terminal_next + 1 > terminal_next
    BY MaxGenerationAssumption DEF TerminalTypeOK
  <2>2. FreshSingleton(t.key, terminal_next + 1).generation = terminal_next + 1
    BY DEF FreshSingleton
  <2>3. active'.generation = terminal_next + 1
    BY <1>3, <1>5, <2>2 DEF Adopted, FreshSingleton
  <2> QED
    BY <2>1, <2>3 DEF Continues
<1> QED
  BY <1>4, <1>5

\* Every singleton live after a step is new or continues one live before it.
LEMMA LiveContinue ==
    ASSUME TerminalTypeOK, Ownership, TerminalNext
    PROVE  /\ active' # None => Continues(active')
           /\ \A c \in Keys : Held(c)' => Continues(handoffs'[c].singleton)
<1> USE NoneAssumption
<1> DEFINE A == active' # None => Continues(active')
           H == \A c \in Keys : Held(c)' => Continues(handoffs'[c].singleton)
<1>1. active' = active => A
  BY LiveOnes DEF Continues
<1>2. (\A c \in Keys : handoffs'[c] = handoffs[c] \/ handoffs'[c] = None) => H
  BY LiveOnes DEF Continues, Held
<1>3. ASSUME NEW k \in Keys, activate_terminal_control(k) PROVE A /\ H
  <2>1. active'.generation = terminal_next + 1 /\ terminal_next + 1 > terminal_next
    BY <1>3, MaxGenerationAssumption DEF activate_terminal_control, FreshSingleton, TerminalTypeOK
  <2> QED
    BY <1>2, <1>3, <2>1 DEF activate_terminal_control, Continues
<1>4. ASSUME NEW k \in Keys, mark_terminal_control_ready(k) \/ TerminalWaitTimesOut(k) PROVE A /\ H
  <2>1. active \in Singletons /\ active # None /\ active \in LiveSingletons
    BY <1>4, LiveOnes DEF mark_terminal_control_ready, TerminalWaitTimesOut, Owns, TerminalTypeOK
  <2>2. /\ active'.generation = active.generation
        /\ active.decision # None => active'.decision = active.decision
    BY <1>4, <2>1 DEF mark_terminal_control_ready, TerminalWaitTimesOut, Singletons
  <2> QED
    BY <1>2, <1>4, <2>1, <2>2 DEF mark_terminal_control_ready, TerminalWaitTimesOut, Continues
<1>5. ASSUME NEW k \in Keys, NEW kind \in Controls,
             apply_terminal_control(kind, k) \/ batch_apply_terminal_control(kind, k)
      PROVE  A /\ H
  <2>1. CASE handoffs[k] # None
    BY <1>5, <2>1, HandoffControlContinues DEF apply_terminal_control, batch_apply_terminal_control
  <2>2. CASE handoffs[k] = None
    <3>1. /\ active' \in {active, Decided(active, kind)}
          /\ active = None => active' = None
          /\ handoffs' = handoffs
      BY <1>5, <2>2 DEF apply_terminal_control, batch_apply_terminal_control, Owns
    <3>2. active # None => active \in Singletons
      BY DEF TerminalTypeOK
    <3> QED
      BY <1>2, <3>1, <3>2, LiveOnes, DecidedType, DecidedKeeps DEF Continues
  <2> QED
    BY <2>1, <2>2
<1>6. ASSUME NEW k \in Keys, NEW g \in Generations, batch_handoff_to_singleton_and_clear(k, g)
      PROVE  A /\ H
  <2>1. A
    BY <1>1, <1>6 DEF batch_handoff_to_singleton_and_clear
  <2>2. handoffs'[k].singleton = (IF Owns(k) THEN active ELSE None)
    BY <1>6 DEF batch_handoff_to_singleton_and_clear, TransferOf, TerminalTypeOK
  <2>3. \A c \in Keys : c # k => handoffs'[c] = handoffs[c]
    BY Zenon, <1>6 DEF batch_handoff_to_singleton_and_clear, TerminalTypeOK
  <2>4. Held(k)' => Continues(handoffs'[k].singleton)
    BY <2>2, LiveOnes DEF Held, Owns, Continues
  <2>5. \A c \in Keys : c # k /\ Held(c)' => Continues(handoffs'[c].singleton)
    BY <2>3, LiveOnes DEF Held, Continues
  <2> QED
    BY <2>1, <2>4, <2>5
<1>7. ASSUME NEW t \in transfers, adopt_singleton_transfer(t) PROVE A /\ H
  <2>1. t.key \in Keys /\ handoffs[t.key] \in Handoffs
    BY <1>7 DEF adopt_singleton_transfer, Adoptable, TerminalTypeOK, Transfers
  <2>2. /\ handoffs'[t.key].adopted
        /\ \A c \in Keys : c # t.key => handoffs'[c] = handoffs[c]
    BY <1>7, <2>1 DEF adopt_singleton_transfer, TerminalTypeOK, Handoffs
  <2> QED
    BY <1>7, <2>2, AdoptedContinues, LiveOnes DEF Held, Continues
<1>8. ASSUME NEW k \in Keys, NEW scope \in Generations \cup {None}, claim_wire_terminal(k, scope)
      PROVE  A /\ H
  <2>1. active' = active \/ active' = [active EXCEPT !.terminal_claimed = TRUE]
    BY <1>8 DEF claim_wire_terminal
  <2>2. active' # active => active \in Singletons /\ active # None
    BY <1>8 DEF claim_wire_terminal, ClaimGranted, SingletonClaimable, Owns, TerminalTypeOK
  <2>3. active' # active => /\ active'.generation = active.generation
                            /\ active'.decision = active.decision
    BY <2>1, <2>2 DEF Singletons
  <2> QED
    BY <1>1, <1>2, <1>8, <2>2, <2>3, LiveOnes DEF claim_wire_terminal, Continues
<1>9. CASE clear_terminal_control
  BY <1>2, <1>9 DEF clear_terminal_control, TerminalTypeOK
<1>10. CASE batch_clear_all_terminals
  BY <1>1, <1>2, <1>10 DEF batch_clear_all_terminals
<1>11. ASSUME NEW k \in Keys, singleton_handoff_to_batch(k) PROVE A /\ H
  BY <1>2, <1>11 DEF singleton_handoff_to_batch, TerminalTypeOK
<1>12. UNCHANGED <<active, handoffs>> => A /\ H
  BY <1>1, <1>2
<1>13. ASSUME NEW k \in Keys,
              \/ batch_announce_terminal(k) \/ DeadlinePasses(k) \/ batch_clear_terminal(k)
              \/ \E g \in Generations :
                    \/ batch_transition_to_queued(k, g)
                    \/ batch_clear_terminal_at_generation(k, g)
                    \/ \E ticket \in Tickets :
                          \/ batch_bind_active(k, g, ticket)
                          \/ batch_mark_ready_with_pending(k, g, ticket)
       PROVE  A /\ H
  BY Zenon, <1>12, <1>13
     DEF batch_announce_terminal, DeadlinePasses, batch_clear_terminal, batch_transition_to_queued,
         batch_clear_terminal_at_generation, batch_bind_active, batch_mark_ready_with_pending
<1> QED
  BY Zenon, <1>3, <1>4, <1>5, <1>6, <1>7, <1>8, <1>9, <1>10, <1>11, <1>13 DEF TerminalNext

\* The first decision on a singleton lifecycle is final: no later control,
\* timeout, handoff or adoption replaces it.
THEOREM DecisionsFinal == TerminalSpec => DecisionIsFinal
<1>1. ASSUME TerminalTypeOK, Ownership, TerminalNext,
             NEW s \in LiveSingletons, NEW u \in LiveSingletons',
             s.generation = u.generation, s.decision # None
      PROVE  u.decision = s.decision
  <2>1. u # None /\ (u = active' \/ \E c \in Keys : Held(c)' /\ u = handoffs'[c].singleton)
    BY DEF LiveSingletons, Held
  <2>2. Continues(u)
    BY <1>1, <2>1, LiveContinue
  <2>3. ~(u.generation > terminal_next)
    <3>1. s \in Singletons /\ s.generation <= terminal_next
      BY <1>1, LiveApart
    <3> QED
      BY <1>1, <3>1, MaxGenerationAssumption DEF Singletons, Generations, TerminalTypeOK
  <2>4. PICK v \in LiveSingletons :
          v.generation = u.generation /\ (v.decision # None => u.decision = v.decision)
    BY <2>2, <2>3 DEF Continues
  <2>5. v = s
    BY <1>1, <2>4, LiveApart
  <2> QED
    BY <1>1, <2>4, <2>5
<1>2. TerminalTypeOK /\ Ownership /\ [TerminalNext]_terminalVars =>
        [\A s \in LiveSingletons : \A u \in LiveSingletons' :
           s.generation = u.generation /\ s.decision # None => u.decision = s.decision
        ]_terminalVars
  BY <1>1
<1> QED
  BY <1>2, Inductive, PTL DEF TerminalSpec, DecisionIsFinal

----------------------------------------------------------------------------
(* Aborts *)

\* An abort latched on an entry stays with the entry, moves to the tombstone,
\* or ends with a request that leaves neither.
EntryAbortKept(k) ==
    entries[k] # None /\ entries[k].abort_latched =>
        \/ entries'[k] # None /\ entries'[k].abort_latched
        \/ handoffs'[k] # None /\ handoffs'[k].abort_latched
        \/ entries'[k] = None /\ handoffs'[k] = None

\* An abort latched on a tombstone stays there and reaches the singleton that
\* adopts it.
HandoffAbortKept(k) ==
    handoffs[k] # None /\ handoffs[k].abort_latched =>
        /\ handoffs'[k] # None => handoffs'[k].abort_latched
        /\ Adoptable([key |-> k, admission |-> handoffs[k].admission])
              /\ handoffs'[k] # None /\ handoffs'[k].adopted =>
            active' # None /\ active'.key = k /\ active'.decision # None

\* An abort decided on the singleton is latched on the entry it is promoted to.
PromotedAbortKept(k) ==
    Owns(k) /\ active.decision = "Abort" /\ entries[k] = None /\ entries'[k] # None
        /\ active' = None => entries'[k].abort_latched

\* An entry excludes a tombstone, so that a cleared entry leaves nothing.
LEMMA EntriesKeepAborts ==
    ASSUME TerminalTypeOK, Ownership, TerminalNext, NEW k \in Keys
    PROVE  EntryAbortKept(k)
<1> USE NoneAssumption
<1> SUFFICES ASSUME entries[k] # None, entries[k].abort_latched
             PROVE  \/ entries'[k] # None /\ entries'[k].abort_latched
                    \/ handoffs'[k] # None /\ handoffs'[k].abort_latched
                    \/ entries'[k] = None /\ handoffs'[k] = None
  BY DEF EntryAbortKept
<1> DEFINE Goal == \/ entries'[k] # None /\ entries'[k].abort_latched
                   \/ handoffs'[k] # None /\ handoffs'[k].abort_latched
                   \/ entries'[k] = None /\ handoffs'[k] = None
<1>1. handoffs[k] = None
  BY DEF Ownership, SoleOwner
<1>2. entries[k] \in Entries
  BY DEF TerminalTypeOK
<1>3. entries'[k] = entries[k] => Goal
  OBVIOUS
<1>4. ASSUME NEW c \in Keys, NEW kind \in Controls,
             apply_terminal_control(kind, c) \/ batch_apply_terminal_control(kind, c)
      PROVE  Goal
  <2>1. entries'[k] = entries[k] \/ entries'[k] = Latched(entries[k], kind)
    BY <1>4 DEF apply_terminal_control, batch_apply_terminal_control, apply_handoff_control,
                TerminalTypeOK
  <2>2. Latched(entries[k], kind) \in Entries /\ Latched(entries[k], kind).abort_latched
    BY <1>2, LatchedType DEF Latched, Entries
  <2> QED
    BY <2>1, <2>2
<1>5. ASSUME NEW c \in Keys, NEW g \in Generations, batch_handoff_to_singleton_and_clear(c, g)
      PROVE  Goal
  <2>1. CASE c = k
    BY <1>5, <2>1 DEF batch_handoff_to_singleton_and_clear, TerminalTypeOK
  <2>2. CASE c # k
    BY <1>5, <2>2 DEF batch_handoff_to_singleton_and_clear, TerminalTypeOK
  <2> QED
    BY <2>1, <2>2
<1>6. ASSUME NEW c \in Keys, batch_clear_terminal(c) PROVE Goal
  BY <1>1, <1>6 DEF batch_clear_terminal, TerminalTypeOK
<1>7. CASE batch_clear_all_terminals
  BY <1>7 DEF batch_clear_all_terminals
<1>8. ASSUME NEW c \in Keys, DeadlinePasses(c) PROVE Goal
  BY <1>2, <1>8 DEF DeadlinePasses, TerminalTypeOK, Entries
<1>9. ASSUME NEW c \in Keys, NEW g \in Generations, NEW ticket \in Tickets,
             batch_bind_active(c, g, ticket) \/ batch_mark_ready_with_pending(c, g, ticket)
      PROVE  Goal
  <2>1. CASE batch_bind_active(c, g, ticket)
    <3> DEFINE e == Bound(entries[k], ticket)
    <3>1. entries'[k] = entries[k] \/ entries'[k] = e
      BY <2>1 DEF batch_bind_active, TerminalTypeOK
    <3>2. e \in Entries /\ e.abort_latched
      BY Zenon, <1>2 DEF Bound, Entries
    <3> QED
      BY <3>1, <3>2
  <2>2. CASE batch_mark_ready_with_pending(c, g, ticket)
    BY <1>2, <2>2 DEF batch_mark_ready_with_pending, TerminalTypeOK, Entries
  <2> QED
    BY <1>9, <2>1, <2>2
<1>10. ASSUME NEW c \in Keys, NEW g \in Generations, batch_transition_to_queued(c, g) PROVE Goal
  BY <1>2, <1>10 DEF batch_transition_to_queued, TerminalTypeOK, Entries
<1>11. ASSUME NEW c \in Keys, NEW scope \in Generations \cup {None}, claim_wire_terminal(c, scope)
       PROVE  Goal
  <2>1. entries' = entries \/ entries' = [entries EXCEPT ![c].terminal_claimed = TRUE]
    BY <1>11 DEF claim_wire_terminal
  <2>2. entries'[k] = entries[k] \/ entries'[k] = [entries[k] EXCEPT !.terminal_claimed = TRUE]
    BY Zenon, <2>1 DEF TerminalTypeOK
  <2>3. [entries[k] EXCEPT !.terminal_claimed = TRUE] \in Entries
    BY Zenon, <1>2 DEF Entries
  <2>4. [entries[k] EXCEPT !.terminal_claimed = TRUE].abort_latched
    BY <1>2 DEF Entries
  <2> QED
    BY Zenon, <2>2, <2>3, <2>4
<1>12. ASSUME NEW c \in Keys, batch_announce_terminal(c) \/ singleton_handoff_to_batch(c)
       PROVE  Goal
  <2>1. c # k
    BY Zenon, <1>12 DEF batch_announce_terminal, singleton_handoff_to_batch
  <2> QED
    BY Zenon, <1>12, <2>1 DEF batch_announce_terminal, singleton_handoff_to_batch, TerminalTypeOK
<1>13. ASSUME NEW c \in Keys, \/ activate_terminal_control(c) \/ mark_terminal_control_ready(c)
                             \/ TerminalWaitTimesOut(c)
       PROVE  Goal
  BY <1>13 DEF activate_terminal_control, mark_terminal_control_ready, TerminalWaitTimesOut
<1>14. ASSUME NEW t \in transfers, adopt_singleton_transfer(t) PROVE Goal
  BY <1>14 DEF adopt_singleton_transfer
<1>15. CASE clear_terminal_control
  BY <1>15 DEF clear_terminal_control
<1> QED
  BY <1>4, <1>5, <1>6, <1>7, <1>8, <1>9, <1>10, <1>11, <1>12, <1>13, <1>14, <1>15
     DEF TerminalNext, batch_clear_terminal_at_generation

\* Only adoption sets adopted, and it decides the singleton it installs.
LEMMA HandoffsKeepAborts ==
    ASSUME TerminalTypeOK, Ownership, TerminalNext, NEW k \in Keys
    PROVE  HandoffAbortKept(k)
<1> USE NoneAssumption
<1> SUFFICES ASSUME handoffs[k] # None, handoffs[k].abort_latched
             PROVE  /\ handoffs'[k] # None => handoffs'[k].abort_latched
                    /\ ~handoffs[k].adopted /\ handoffs'[k] # None /\ handoffs'[k].adopted =>
                          active' # None /\ active'.key = k /\ active'.decision # None
  BY DEF HandoffAbortKept, Adoptable
<1> DEFINE Goal == /\ handoffs'[k] # None => handoffs'[k].abort_latched
                   /\ ~handoffs[k].adopted /\ handoffs'[k] # None /\ handoffs'[k].adopted =>
                        active' # None /\ active'.key = k /\ active'.decision # None
<1>1. handoffs[k] \in Handoffs
  BY DEF TerminalTypeOK
<1>2. handoffs'[k] = handoffs[k] \/ handoffs'[k] = None => Goal
  OBVIOUS
<1>3. ASSUME NEW c \in Keys, NEW kind \in Controls,
             apply_terminal_control(kind, c) \/ batch_apply_terminal_control(kind, c)
      PROVE  Goal
  <2>1. SameOwners
    BY <1>3, ControlKeepsOwners
  <2> QED
    BY <2>1 DEF SameOwners
<1>4. ASSUME NEW t \in transfers, adopt_singleton_transfer(t) PROVE Goal
  <2>1. t.key \in Keys
    BY <1>4 DEF TerminalTypeOK, Transfers
  <2>2. CASE t.key # k
    BY <1>2, <1>4, <2>1, <2>2 DEF adopt_singleton_transfer, TerminalTypeOK
  <2>3. CASE t.key = k
    <3>1. handoffs'[k].abort_latched
      BY <1>1, <1>4, <2>3 DEF adopt_singleton_transfer, TerminalTypeOK, Handoffs
    <3>2. /\ active' = Adopted(t, terminal_next + 1)
          /\ active' \in Singletons
          /\ active'.key = k
      BY Zenon, <1>4, <2>3, AdoptedTypes DEF adopt_singleton_transfer
    <3> DEFINE s == IF Snapshot(t) # None THEN Snapshot(t)
                                          ELSE FreshSingleton(t.key, terminal_next + 1)
    <3>3. active' = IF s.decision = None THEN [s EXCEPT !.decision = "Abort"] ELSE s
      BY <2>3, <3>2 DEF Adopted
    <3>4. s \in Singletons
      <4>1. Snapshot(t) \in Singletons \cup {None}
        BY <1>1, <2>3 DEF Snapshot, Handoffs, TerminalTypeOK, Transfers
      <4>2. Snapshot(t) = None => terminal_next + 1 \in Generations
        BY <1>4, MaxGenerationAssumption DEF adopt_singleton_transfer, TerminalTypeOK, Generations
      <4> QED
        BY Zenon, <2>1, <4>1, <4>2, FreshTypes
    <3>5. active'.decision # None
      <4>1. CASE s.decision = None
        BY <3>3, <3>4, <4>1 DEF Singletons, Decisions
      <4>2. CASE s.decision # None
        BY <3>3, <4>2
      <4> QED
        BY <4>1, <4>2
    <3> QED
      BY <3>1, <3>2, <3>5
  <2> QED
    BY <2>2, <2>3
<1>5. ASSUME NEW c \in Keys, NEW g \in Generations, batch_handoff_to_singleton_and_clear(c, g)
      PROVE  Goal
  BY <1>2, <1>5 DEF batch_handoff_to_singleton_and_clear, TerminalTypeOK
<1>6. clear_terminal_control \/ batch_clear_all_terminals => Goal
  BY <1>2 DEF clear_terminal_control, batch_clear_all_terminals, TerminalTypeOK
<1>7. ASSUME NEW c \in Keys, singleton_handoff_to_batch(c) PROVE Goal
  BY <1>2, <1>7 DEF singleton_handoff_to_batch, TerminalTypeOK
<1>8. handoffs' = handoffs => Goal
  BY <1>2
<1>9. ASSUME NEW c \in Keys,
             \/ activate_terminal_control(c) \/ mark_terminal_control_ready(c)
             \/ TerminalWaitTimesOut(c) \/ batch_announce_terminal(c) \/ DeadlinePasses(c)
             \/ batch_clear_terminal(c)
             \/ \E g \in Generations :
                   \/ batch_transition_to_queued(c, g)
                   \/ batch_clear_terminal_at_generation(c, g)
                   \/ \E ticket \in Tickets :
                         \/ batch_bind_active(c, g, ticket)
                         \/ batch_mark_ready_with_pending(c, g, ticket)
             \/ \E scope \in Generations \cup {None} : claim_wire_terminal(c, scope)
      PROVE  Goal
  BY Zenon, <1>8, <1>9
     DEF activate_terminal_control, mark_terminal_control_ready, TerminalWaitTimesOut,
         batch_announce_terminal, DeadlinePasses, batch_clear_terminal, batch_transition_to_queued,
         batch_clear_terminal_at_generation, batch_bind_active, batch_mark_ready_with_pending,
         claim_wire_terminal
<1> QED
  BY <1>3, <1>4, <1>5, <1>6, <1>7, <1>9 DEF TerminalNext

\* Only announce and promotion make an entry, and only promotion ends the
\* singleton with it.
LEMMA PromotionsKeepAborts ==
    ASSUME TerminalTypeOK, TerminalNext, NEW k \in Keys
    PROVE  PromotedAbortKept(k)
<1> SUFFICES ASSUME Owns(k), active.decision = "Abort", entries[k] = None, entries'[k] # None,
                    active' = None
             PROVE  entries'[k].abort_latched
  BY DEF PromotedAbortKept
<1>1. active # None
  BY DEF Owns
<1>2. ASSUME NEW c \in Keys, singleton_handoff_to_batch(c) PROVE entries'[k].abort_latched
  <2>1. c = k
    BY <1>2 DEF singleton_handoff_to_batch, TerminalTypeOK
  <2> QED
    BY Zenon, <1>2, <2>1 DEF singleton_handoff_to_batch, FreshEntry, TerminalTypeOK
<1>3. ASSUME NEW c \in Keys, NEW kind \in Controls,
             apply_terminal_control(kind, c) \/ batch_apply_terminal_control(kind, c)
      PROVE  FALSE
  <2>1. SameOwners
    BY <1>3, ControlKeepsOwners
  <2> QED
    BY <1>1, <2>1 DEF SameOwners
<1>4. ASSUME NEW c \in Keys, NEW g \in Generations, batch_handoff_to_singleton_and_clear(c, g)
      PROVE  FALSE
  BY <1>4 DEF batch_handoff_to_singleton_and_clear, TerminalTypeOK
<1>5. active' # active /\ entries' # entries
  BY <1>1
<1>6. ASSUME NEW t \in transfers, adopt_singleton_transfer(t) PROVE FALSE
  BY <1>5, <1>6 DEF adopt_singleton_transfer
<1>7. ~clear_terminal_control /\ ~batch_clear_all_terminals
  BY <1>5 DEF clear_terminal_control, batch_clear_all_terminals
<1>8. ASSUME NEW c \in Keys,
             \/ activate_terminal_control(c) \/ mark_terminal_control_ready(c)
             \/ TerminalWaitTimesOut(c) \/ batch_announce_terminal(c) \/ DeadlinePasses(c)
             \/ batch_clear_terminal(c)
             \/ \E g \in Generations :
                   \/ batch_transition_to_queued(c, g)
                   \/ batch_clear_terminal_at_generation(c, g)
                   \/ \E ticket \in Tickets :
                         \/ batch_bind_active(c, g, ticket)
                         \/ batch_mark_ready_with_pending(c, g, ticket)
             \/ \E scope \in Generations \cup {None} : claim_wire_terminal(c, scope)
      PROVE  FALSE
  BY Zenon, <1>5, <1>8
     DEF activate_terminal_control, mark_terminal_control_ready, TerminalWaitTimesOut,
         batch_announce_terminal, DeadlinePasses, batch_clear_terminal, batch_transition_to_queued,
         batch_clear_terminal_at_generation, batch_bind_active, batch_mark_ready_with_pending,
         claim_wire_terminal
<1> QED
  BY Zenon, <1>2, <1>3, <1>4, <1>6, <1>7, <1>8 DEF TerminalNext

\* An abort latched on a request survives each move of its ownership, from
\* the entry to the tombstone, on to the adopted singleton, and back to a
\* promoted entry.
THEOREM AbortsSurvive == TerminalSpec => AbortSurvivesTransfer
<1>1. TerminalTypeOK /\ Ownership /\ TerminalNext =>
        \A k \in Keys : EntryAbortKept(k) /\ HandoffAbortKept(k) /\ PromotedAbortKept(k)
  BY EntriesKeepAborts, HandoffsKeepAborts, PromotionsKeepAborts
<1>2. TerminalTypeOK /\ Ownership /\ [TerminalNext]_terminalVars =>
        [\A k \in Keys :
           /\ entries[k] # None /\ entries[k].abort_latched =>
                \/ entries'[k] # None /\ entries'[k].abort_latched
                \/ handoffs'[k] # None /\ handoffs'[k].abort_latched
                \/ entries'[k] = None /\ handoffs'[k] = None
           /\ handoffs[k] # None /\ handoffs[k].abort_latched =>
                /\ handoffs'[k] # None => handoffs'[k].abort_latched
                /\ Adoptable([key |-> k, admission |-> handoffs[k].admission])
                      /\ handoffs'[k] # None /\ handoffs'[k].adopted =>
                    active' # None /\ active'.key = k /\ active'.decision # None
           /\ Owns(k) /\ active.decision = "Abort" /\ entries[k] = None /\ entries'[k] # None
                /\ active' = None => entries'[k].abort_latched
        ]_terminalVars
  BY <1>1 DEF EntryAbortKept, HandoffAbortKept, PromotedAbortKept
<1> QED
  BY <1>2, Inductive, PTL DEF TerminalSpec, AbortSurvivesTransfer

----------------------------------------------------------------------------
(* The scheduler: helpers *)

\* There is a first empty lane as long as one is empty.
LEMMA FirstEmptyLane ==
    ASSUME Occupied # Lanes
    PROVE  FirstEmpty \in Lanes /\ lanes[FirstEmpty] = None
<1> DEFINE T == Lanes \ Occupied
           R == {ss \in Nat \X Nat : ss[1] < ss[2]}
<1>1. T \subseteq Nat /\ T # {}
  BY Zenon, LanesAssumption DEF Occupied
<1>2. IsWellFoundedOn(R, Nat)
  BY NatLessThanWellFounded DEF OpToRel
<1>3. PICK l \in T : \A m \in T : ~(<<m, l>> \in R)
  BY Zenon, <1>1, <1>2, WFMin
<1>4. \A m \in T : l <= m
  <2>1. \A a, b \in Nat : a < b => <<a, b>> \in R
    OBVIOUS
  <2>2. \A m \in T : m \in Nat /\ l \in Nat /\ ~(m < l)
    BY Zenon, <1>1, <1>3, <2>1
  <2> QED
    BY <2>2
<1>5. FirstEmpty \in T
  BY <1>4 DEF FirstEmpty
<1> QED
  BY <1>5 DEF Occupied

\* retain drops the key and nothing else.
LEMMA WithoutKey ==
    ASSUME NEW q \in Seq(Keys), Distinct(q), NEW k
    PROVE  /\ Without(q, k) \in Seq(Keys)
           /\ Elements(Without(q, k)) = Elements(q) \ {k}
           /\ Distinct(Without(q, k))
<1>1. CASE ~\E i \in DOMAIN q : q[i] = k
  BY <1>1 DEF Without, Elements
<1>2. CASE \E i \in DOMAIN q : q[i] = k
  <2> DEFINE at == CHOOSE i \in DOMAIN q : q[i] = k
             w == SubSeq(q, 1, at - 1) \o SubSeq(q, at + 1, Len(q))
  <2>1. at \in DOMAIN q /\ q[at] = k /\ w = Without(q, k)
    BY Zenon, <1>2 DEF Without
  <2> HIDE DEF at
  <2>2. Len(q) \in Nat /\ DOMAIN q = 1 .. Len(q) /\ at \in 1 .. Len(q)
    BY <2>1, LenProperties
  <2>3. /\ SubSeq(q, 1, at - 1) \in Seq(Keys)
        /\ Len(SubSeq(q, 1, at - 1)) = at - 1
        /\ \A i \in 1 .. at - 1 : SubSeq(q, 1, at - 1)[i] = q[i]
    BY <2>2
  <2>4. /\ SubSeq(q, at + 1, Len(q)) \in Seq(Keys)
        /\ Len(SubSeq(q, at + 1, Len(q))) = Len(q) - at
        /\ \A i \in 1 .. Len(q) - at : SubSeq(q, at + 1, Len(q))[i] = q[at + i]
    <3>1. \A i \in at + 1 .. Len(q) : q[i] \in Keys
      BY <2>2, ElementOfSeq
    <3>2. at + 1 \in Int /\ Len(q) \in Int
      BY <2>2
    <3>3. /\ SubSeq(q, at + 1, Len(q)) \in Seq(Keys)
          /\ Len(SubSeq(q, at + 1, Len(q))) =
                IF at + 1 <= Len(q) THEN Len(q) - (at + 1) + 1 ELSE 0
          /\ \A i \in 1 .. Len(q) - (at + 1) + 1 :
                SubSeq(q, at + 1, Len(q))[i] = q[at + 1 + i - 1]
      BY <3>1, <3>2, SubSeqProperties
    <3>4. ASSUME NEW i \in 1 .. Len(q) - at PROVE SubSeq(q, at + 1, Len(q))[i] = q[at + i]
      <4>1. i \in 1 .. Len(q) - (at + 1) + 1 /\ at + 1 + i - 1 = at + i
        BY <2>2
      <4> QED
        BY <3>3, <4>1
    <3>5. Len(SubSeq(q, at + 1, Len(q))) = Len(q) - at
      <4>1. Len(q) - (at + 1) + 1 = Len(q) - at
        BY <2>2
      <4>2. ~(at + 1 <= Len(q)) => Len(q) - at = 0
        <5>1. \A a, n \in Nat : a <= n /\ ~(a + 1 <= n) => n - a = 0
          OBVIOUS
        <5>2. at \in Nat /\ at <= Len(q)
          BY <2>2
        <5> QED
          BY Zenon, <2>2, <5>1, <5>2
      <4> QED
        BY <3>3, <4>1, <4>2
    <3> QED
      BY <3>3, <3>4, <3>5
  <2>5. /\ w \in Seq(Keys) /\ Len(w) = Len(q) - 1
        /\ \A i \in 1 .. Len(q) - 1 : w[i] = IF i < at THEN q[i] ELSE q[i + 1]
    <3> DEFINE u == SubSeq(q, 1, at - 1)
               v == SubSeq(q, at + 1, Len(q))
    <3>1. /\ u \o v \in Seq(Keys) /\ Len(u \o v) = Len(u) + Len(v)
          /\ \A i \in 1 .. Len(u) + Len(v) :
                (u \o v)[i] = IF i <= Len(u) THEN u[i] ELSE v[i - Len(u)]
      BY <2>3, <2>4, ConcatProperties
    <3>2. Len(u) = at - 1 /\ Len(v) = Len(q) - at
      BY <2>3, <2>4
    <3> HIDE DEF u, v
    <3>3. ASSUME NEW i \in 1 .. Len(q) - 1
          PROVE  (u \o v)[i] = IF i < at THEN q[i] ELSE q[i + 1]
      <4>1. CASE i < at
        BY <2>2, <2>3, <3>1, <3>2, <4>1 DEF u
      <4>2. CASE ~(i < at)
        <5>1. i - (at - 1) \in 1 .. Len(q) - at /\ at + (i - (at - 1)) = i + 1
          BY <2>2, <4>2
        <5>2. i \in 1 .. Len(u) + Len(v) /\ ~(i <= Len(u)) /\ i - Len(u) = i - (at - 1)
          BY <2>2, <3>2, <4>2
        <5>3. (u \o v)[i] = v[i - (at - 1)]
          BY <3>1, <5>2
        <5>4. v[i - (at - 1)] = q[i + 1]
          BY <2>4, <5>1 DEF v
        <5> QED
          BY <4>2, <5>3, <5>4
      <4> QED
        BY Zenon, <4>1, <4>2
    <3>4. Len(u \o v) = Len(q) - 1
      BY <2>2, <3>1, <3>2
    <3>5. w = u \o v
      BY DEF u, v
    <3> QED
      BY Zenon, <3>1, <3>3, <3>4, <3>5
  <2> HIDE DEF w
  <2>6. DOMAIN w = 1 .. Len(q) - 1
    BY <2>5, LenProperties
  <2>7. Distinct(w)
    <3> SUFFICES ASSUME NEW i \in 1 .. Len(q) - 1, NEW j \in 1 .. Len(q) - 1, w[i] = w[j] PROVE i = j
      BY Zenon, <2>6 DEF Distinct
    <3> QED
      BY <2>2, <2>5 DEF Distinct
  <2>8. ASSUME NEW i \in DOMAIN w PROVE w[i] \in Elements(q) \ {k}
    <3>1. \E j \in DOMAIN q : j # at /\ w[i] = q[j]
      BY <2>2, <2>5, <2>6
    <3> QED
      BY <2>1, <3>1 DEF Elements, Distinct
  <2>9. ASSUME NEW i \in DOMAIN q, q[i] # k PROVE q[i] \in Elements(w)
    <3>1. CASE i < at
      BY <2>2, <2>5, <2>6, <3>1 DEF Elements
    <3>2. CASE i > at
      <4>1. i - 1 \in DOMAIN w /\ w[i - 1] = q[i]
        BY <2>2, <2>5, <2>6, <3>2
      <4> QED
        BY <4>1 DEF Elements
    <3> QED
      BY <2>1, <2>2, <2>9, <3>1, <3>2
  <2>10. Elements(w) = Elements(q) \ {k}
    BY <2>8, <2>9 DEF Elements
  <2> QED
    BY <2>1, <2>5, <2>7, <2>10
<1> QED
  BY <1>1, <1>2

\* The front of the inbox and what stays behind it.
LEMMA FrontKey ==
    ASSUME NEW q \in Seq(Keys), q # <<>>, Distinct(q)
    PROVE  /\ Head(q) \in Elements(q) /\ Head(q) \in Keys
           /\ Tail(q) \in Seq(Keys)
           /\ Elements(Tail(q)) = Elements(q) \ {Head(q)}
           /\ Distinct(Tail(q))
<1>1. Len(q) \in Nat \ {0} /\ DOMAIN q = 1 .. Len(q) /\ Head(q) = q[1] /\ Head(q) \in Keys
  BY LenProperties, EmptySeq, HeadTailProperties
<1>2. /\ Tail(q) \in Seq(Keys) /\ Len(Tail(q)) = Len(q) - 1
      /\ \A i \in 1 .. Len(Tail(q)) : Tail(q)[i] = q[i + 1]
  BY HeadTailProperties
<1>3. DOMAIN Tail(q) = 1 .. Len(q) - 1
  BY <1>2, LenProperties
<1>4. Distinct(Tail(q))
  BY <1>1, <1>2, <1>3 DEF Distinct
<1>5. Elements(Tail(q)) \subseteq Elements(q) \ {Head(q)}
  BY <1>1, <1>2, <1>3 DEF Elements, Distinct
<1>6. ASSUME NEW i \in DOMAIN q, q[i] # Head(q) PROVE q[i] \in Elements(Tail(q))
  <2>1. i - 1 \in DOMAIN Tail(q) /\ Tail(q)[i - 1] = q[i]
    BY <1>1, <1>2, <1>3, <1>6
  <2> QED
    BY <2>1 DEF Elements
<1>7. Elements(q) \ {Head(q)} \subseteq Elements(Tail(q))
  BY <1>6 DEF Elements
<1>8. Head(q) \in Elements(q)
  BY <1>1 DEF Elements
<1> QED
  BY <1>1, <1>2, <1>4, <1>5, <1>7, <1>8

\* A key that was not in the inbox is in it once after push_back.
LEMMA PushedKey ==
    ASSUME NEW q \in Seq(Keys), NEW k \in Keys, k \notin Elements(q), Distinct(q)
    PROVE  /\ Append(q, k) \in Seq(Keys)
           /\ Elements(Append(q, k)) = Elements(q) \cup {k}
           /\ Distinct(Append(q, k))
<1>1. Len(q) \in Nat /\ DOMAIN q = 1 .. Len(q)
  BY LenProperties
<1>2. /\ Append(q, k) \in Seq(Keys) /\ DOMAIN Append(q, k) = 1 .. Len(q) + 1
      /\ \A i \in 1 .. Len(q) : Append(q, k)[i] = q[i]
      /\ Append(q, k)[Len(q) + 1] = k
  BY <1>1
<1>3. Distinct(Append(q, k))
  BY <1>1, <1>2 DEF Distinct, Elements
<1>4. Elements(Append(q, k)) \subseteq Elements(q) \cup {k}
  BY <1>1, <1>2 DEF Elements
<1>5. Elements(q) \cup {k} \subseteq Elements(Append(q, k))
  BY <1>1, <1>2 DEF Elements
<1> QED
  BY <1>2, <1>3, <1>4, <1>5

----------------------------------------------------------------------------
(* Steps of the registry beside the scheduler *)

\* The entry of k stays with its owner.
SameEntry(k) ==
    /\ entries'[k] # None
    /\ entries'[k].generation = entries[k].generation
    /\ entries'[k].state = entries[k].state
    /\ entries'[k].owner = entries[k].owner

\* The scheduler does not see what happens to requests it does not hold, nor
\* the latches and deadlines of those it holds.
LEMMA RegistryKeeps ==
    ASSUME SchedulerInv, UNCHANGED schedulerVars,
           \A k \in Keys : pending[k] # None => SameEntry(k)
    PROVE  SchedulerInv'
<1> USE DEF schedulerVars
<1>1. SchedulerTypeOK' /\ HeldOnce' /\ OneCohort'
  BY DEF SchedulerInv, SchedulerTypeOK, HeldOnce, OneCohort, Occupied, LaneKeys, Queued
<1>2. PendingIsCurrent'
  BY DEF SchedulerInv, PendingIsCurrent, batch_is_current, SameEntry
<1>3. ASSUME NEW l \in Occupied PROVE lanes[l].key \in Keys /\ pending[lanes[l].key] # None
  BY <1>3, SchedulerAssumption
     DEF SchedulerInv, SchedulerTypeOK, HeldOnce, Occupied, LaneKeys, OccupiedLanes
<1>4. LaneOwnsItsEntry'
  BY <1>3 DEF SchedulerInv, LaneOwnsItsEntry, Occupied, SameEntry, batch_is_current,
             batch_active_owner_matches, batch_ready_owner_matches
<1> QED
  BY <1>1, <1>2, <1>4 DEF SchedulerInv

\* A latch or a deadline leaves the entry with its owner.
LEMMA LatchKeepsOwner ==
    ASSUME NEW e \in Entries, NEW kind \in Controls
    PROVE  /\ Latched(e, kind).generation = e.generation
           /\ Latched(e, kind).state = e.state
           /\ Latched(e, kind).owner = e.owner
  BY DEF Latched, Entries

\* A control or a generate from the reader keeps every request where it is.
LEMMA ReaderKeeps ==
    ASSUME TerminalTypeOK, SchedulerInv, NEW k \in Keys, ReaderStep(k)
    PROVE  SchedulerInv'
<1> SUFFICES ASSUME NEW c \in Keys, pending[c] # None PROVE SameEntry(c)
  BY RegistryKeeps DEF ReaderStep
<1>1. entries[c] # None /\ entries[c] \in Entries
  BY DEF SchedulerInv, PendingIsCurrent, batch_is_current, TerminalTypeOK
<1>2. CASE batch_announce_terminal(k)
  BY Zenon, <1>1, <1>2 DEF batch_announce_terminal, SameEntry, TerminalTypeOK
<1>3. CASE DeadlinePasses(k)
  BY <1>1, <1>3, NoneAssumption DEF DeadlinePasses, SameEntry, TerminalTypeOK, Entries
<1>4. ASSUME NEW kind \in Controls, batch_apply_terminal_control(kind, k) PROVE SameEntry(c)
  <2>1. entries'[c] = entries[c] \/ (c = k /\ entries'[c] = Latched(entries[c], kind))
    BY <1>1, <1>4 DEF batch_apply_terminal_control, apply_handoff_control, TerminalTypeOK
  <2>2. Latched(entries[c], kind) # None
    BY <1>1, LatchedType, NoneAssumption
  <2> QED
    BY <1>1, <2>1, <2>2, LatchKeepsOwner DEF SameEntry
<1> QED
  BY <1>2, <1>3, <1>4 DEF ReaderStep

\* Main moves only requests the scheduler does not hold.
LEMMA MainKeeps ==
    ASSUME TerminalTypeOK, SchedulerInv, NEW k \in Keys, MainStep(k)
    PROVE  SchedulerInv'
<1> SUFFICES ASSUME NEW c \in Keys, pending[c] # None PROVE SameEntry(c)
  BY RegistryKeeps DEF MainStep
<1>1. entries[c] # None /\ c # k
  BY DEF SchedulerInv, PendingIsCurrent, batch_is_current, MainStep
<1>2. entries'[c] = entries[c]
  BY Zenon, <1>1 DEF MainStep, activate_terminal_control, singleton_handoff_to_batch,
     batch_transition_to_queued, batch_clear_terminal_at_generation, batch_clear_terminal,
     batch_handoff_to_singleton_and_clear, adopt_singleton_transfer, clear_terminal_control,
     TerminalTypeOK
<1> QED
  BY <1>1, <1>2 DEF SameEntry

\* A reset finds no lane and no queued request.
LEMMA ResetKeeps ==
    ASSUME SchedulerInv, ResetTerminals
    PROVE  SchedulerInv'
  BY RegistryKeeps DEF ResetTerminals

----------------------------------------------------------------------------
(* Steps of the driver *)

\* LaneOwnsItsEntry, of one lane
OwnsEntry(l) ==
    LET lane == lanes[l]
    IN  /\ lane.ticket.lane = l
        /\ lane.state = "Running" =>
              batch_active_owner_matches(lane.key, lane.ticket.admission, lane.ticket)
        /\ lane.state = "AwaitingClient" =>
              batch_ready_owner_matches(lane.key, lane.ticket.admission, lane.ticket)

\* What the invariant says of one occupied lane.
LEMMA LaneFacts ==
    ASSUME SchedulerInv, NEW l \in Occupied
    PROVE  /\ l \in Lanes /\ lanes[l] \in OccupiedLanes /\ lanes[l].key \in Keys
           /\ pending[lanes[l].key] # None /\ lanes[l].key \notin Elements(inbox)
           /\ \A m \in Occupied : lanes[m].key = lanes[l].key => m = l
           /\ lanes[l].ticket \in Tickets /\ lanes[l].ticket.admission \in Generations
<1>1. l \in Lanes /\ lanes[l] \in OccupiedLanes
  BY SchedulerAssumption DEF SchedulerInv, SchedulerTypeOK, Occupied
<1>2. lanes[l].key \in Keys /\ lanes[l].ticket \in Tickets
  BY <1>1 DEF OccupiedLanes
<1>3. lanes[l].key \in LaneKeys
  BY DEF LaneKeys
<1> QED
  BY <1>1, <1>2, <1>3 DEF SchedulerInv, HeldOnce, Elements, Queued, Tickets

\* A request leaves the scheduler: whatever lane it had is empty, and it is
\* neither in the inbox nor pending.
LEMMA RequestLeaves ==
    ASSUME SchedulerInv, NEW k \in Keys,
           lanes' = [l \in Lanes |-> IF lanes[l] # None /\ lanes[l].key = k THEN None ELSE lanes[l]],
           pending' = [pending EXCEPT ![k] = None],
           inbox' \in Seq(Keys), Distinct(inbox'), Elements(inbox') = Elements(inbox) \ {k},
           cohort_key' = CohortAfter(lanes'),
           lane_next' \in 1 .. MaxGeneration + 1,
           \A c \in Keys : c # k => entries'[c] = entries[c]
    PROVE  SchedulerInv'
<1> USE DEF SchedulerInv
<1>1. /\ \A l \in Lanes : lanes'[l] \in {None, lanes[l]}
      /\ Occupied' = {l \in Occupied : lanes[l].key # k}
      /\ \A l \in Occupied' : lanes'[l] = lanes[l]
  BY DEF Occupied
<1>2. /\ \A c \in Keys : pending'[c] = IF c = k THEN None ELSE pending[c]
      /\ pending' \in [Keys -> Requests \cup {None}]
  BY DEF SchedulerTypeOK
<1>3. SchedulerTypeOK'
  <2>1. lanes' \in [Lanes -> OccupiedLanes \cup {None}]
    BY DEF SchedulerTypeOK
  <2>2. cohort_key' \in Samplings \cup {None}
    BY DEF SchedulerTypeOK, CohortAfter
  <2> QED
    BY <1>2, <2>1, <2>2 DEF SchedulerTypeOK
<1>4. Queued' = Queued \ {k} /\ LaneKeys' = LaneKeys \ {k}
  <2>1. Queued' = Queued \ {k}
    BY DEF Queued, Elements
  <2>2. LaneKeys' \subseteq LaneKeys \ {k}
    BY <1>1 DEF LaneKeys
  <2>3. LaneKeys \ {k} \subseteq LaneKeys'
    BY <1>1 DEF LaneKeys
  <2> QED
    BY <2>1, <2>2, <2>3
<1>5. HeldOnce'
  <2>1. \A c \in Keys : pending'[c] # None <=> c \in Queued' \cup LaneKeys'
    BY <1>2, <1>4 DEF HeldOnce
  <2>2. \A l, m \in Occupied' : lanes'[l].key = lanes'[m].key => l = m
    BY <1>1 DEF HeldOnce
  <2> QED
    BY Zenon, <1>4, <2>1, <2>2 DEF HeldOnce, Distinct
<1>6. PendingIsCurrent'
  BY <1>2 DEF PendingIsCurrent, batch_is_current
<1>7. ASSUME NEW l \in Occupied' PROVE l \in Occupied /\ lanes[l].key \in Keys /\ lanes[l].key # k
  BY <1>1, <1>7, LaneFacts
<1>8. LaneOwnsItsEntry'
  <2>1. ASSUME NEW l \in Occupied'
        PROVE  l \in Occupied /\ lanes'[l] = lanes[l] /\ entries'[lanes[l].key] = entries[lanes[l].key]
    BY Zenon, <1>1, <1>7
  <2> SUFFICES ASSUME NEW l \in Occupied' PROVE OwnsEntry(l)'
    BY Zenon DEF LaneOwnsItsEntry, OwnsEntry
  <2>2. OwnsEntry(l)
    BY Zenon, <2>1 DEF LaneOwnsItsEntry, OwnsEntry
  <2> QED
    BY Zenon, <2>1, <2>2 DEF OwnsEntry, batch_is_current, batch_active_owner_matches,
                             batch_ready_owner_matches
<1>9. OneCohort'
  <2>1. CASE Occupied' = {}
    BY Zenon, <2>1 DEF OneCohort, CohortAfter, Occupied
  <2>2. CASE Occupied' # {}
    <3>1. cohort_key' = cohort_key
      BY <2>2 DEF CohortAfter, Occupied
    <3> QED
      BY ZenonT(30), <1>1, <1>2, <1>7, <2>2, <3>1 DEF OneCohort
  <2> QED
    BY <2>1, <2>2
<1> QED
  BY <1>3, <1>5, <1>6, <1>8, <1>9

\* A request gets lane l, which was empty, and its entry the lane's ticket.
LEMMA RequestRuns ==
    ASSUME SchedulerInv, NEW k \in Keys, NEW l \in Lanes, lanes[l] = None,
           NEW request \in Requests, NEW ticket \in Tickets,
           ticket.lane = l, ticket.admission = request.admission,
           entries[k] # None, entries[k].generation = request.admission,
           entries[k].state \in {"Announced", "Queued"},
           entries[k] \in Entries, entries' = [entries EXCEPT ![k] = Bound(@, ticket)],
           entries \in [Keys -> Entries \cup {None}],
           lanes' = [lanes EXCEPT ![l] = [state |-> "Running", key |-> k, ticket |-> ticket,
                                         deadline |-> "unset"]],
           pending' = [pending EXCEPT ![k] = request],
           inbox' \in Seq(Keys), Distinct(inbox'), Elements(inbox') = Elements(inbox) \ {k},
           cohort_key \in {None, request.sampling}, cohort_key' = request.sampling,
           lane_next' \in 1 .. MaxGeneration + 1
    PROVE  SchedulerInv'
<1> DEFINE new == [state |-> "Running", key |-> k, ticket |-> ticket, deadline |-> "unset"]
<1> USE DEF SchedulerInv
<1>1. /\ new \in OccupiedLanes /\ new # None
      /\ Occupied' = Occupied \cup {l} /\ l \notin Occupied
      /\ lanes'[l] = new
      /\ \A m \in Occupied : lanes'[m] = lanes[m]
  BY SchedulerAssumption DEF OccupiedLanes, Occupied, SchedulerTypeOK
<1>2. /\ \A c \in Keys : pending'[c] = IF c = k THEN request ELSE pending[c]
      /\ pending' \in [Keys -> Requests \cup {None}] /\ request # None
  BY SchedulerAssumption DEF SchedulerTypeOK
<1>3. ASSUME NEW m \in Occupied PROVE lanes[m].key # k /\ lanes[m].key \in Keys
  <2>1. lanes[m].state \in {"Running", "AwaitingClient"}
    BY LaneFacts DEF OccupiedLanes
  <2>2. entries[lanes[m].key].state \in {"Active", "Ready"}
    BY <2>1 DEF LaneOwnsItsEntry, batch_active_owner_matches, batch_ready_owner_matches
  <2> QED
    BY <2>2, LaneFacts
<1>4. /\ entries'[k] = [entries[k] EXCEPT !.state = "Active", !.owner = ticket]
      /\ \A c \in Keys : c # k => entries'[c] = entries[c]
  BY DEF Bound
<1>5. /\ entries'[k] # None /\ entries'[k].generation = request.admission
      /\ entries'[k].state = "Active" /\ entries'[k].owner = ticket
  <2>1. entries'[k] \in Entries
    BY Zenon, <1>4 DEF Entries
  <2> QED
    BY Zenon, <1>4, <2>1, NoneAssumption DEF Entries
<1>6. SchedulerTypeOK'
  <2>1. lanes' \in [Lanes -> OccupiedLanes \cup {None}]
    BY Zenon, <1>1 DEF SchedulerTypeOK
  <2>2. cohort_key' \in Samplings
    BY Zenon DEF Requests
  <2> QED
    BY <1>2, <2>1, <2>2 DEF SchedulerTypeOK
<1> HIDE DEF new
<1>7. new.key = k /\ new.ticket = ticket /\ new.state = "Running"
  BY Zenon DEF new
<1>8. Queued' = Queued \ {k} /\ LaneKeys' = LaneKeys \cup {k}
  <2>1. Queued' = Queued \ {k}
    BY Zenon DEF Queued, Elements
  <2>2. ASSUME NEW c \in LaneKeys' PROVE c \in LaneKeys \cup {k}
    <3>1. PICK m \in Occupied' : c = lanes'[m].key
      BY Zenon DEF LaneKeys
    <3> QED
      BY ZenonT(30), <1>1, <1>7, <3>1 DEF LaneKeys
  <2>3. ASSUME NEW c \in LaneKeys \cup {k} PROVE c \in LaneKeys'
    <3>1. CASE c \in LaneKeys
      <4>1. PICK m \in Occupied : c = lanes[m].key
        BY Zenon, <3>1 DEF LaneKeys
      <4> QED
        BY Zenon, <1>1, <1>7, <4>1 DEF LaneKeys
    <3>2. CASE c = k
      BY <1>1, <1>7, <3>2 DEF LaneKeys
    <3> QED
      BY Zenon, <3>1, <3>2
  <2> QED
    BY Zenon, <2>1, <2>2, <2>3
<1>9. HeldOnce'
  <2>1. \A c \in Keys : pending'[c] # None <=> c \in Queued' \cup LaneKeys'
    BY <1>2, <1>8 DEF HeldOnce
  <2>2. \A m, n \in Occupied' : lanes'[m].key = lanes'[n].key => m = n
    BY <1>1, <1>3, <1>7 DEF HeldOnce
  <2>3. Queued' \cap LaneKeys' = {}
    BY <1>8 DEF HeldOnce
  <2> QED
    BY <2>1, <2>2, <2>3 DEF HeldOnce, Distinct
<1>10. PendingIsCurrent'
  BY <1>2, <1>4, <1>5 DEF PendingIsCurrent, batch_is_current
<1>11. LaneOwnsItsEntry'
  <2>1. ASSUME NEW m \in Occupied' , m # l
        PROVE  m \in Occupied /\ lanes'[m] = lanes[m] /\ entries'[lanes[m].key] = entries[lanes[m].key]
    BY <1>1, <1>3, <1>4, <2>1
  <2> SUFFICES ASSUME NEW m \in Occupied' PROVE OwnsEntry(m)'
    BY Zenon DEF LaneOwnsItsEntry, OwnsEntry
  <2>2. CASE m # l
    <3>1. OwnsEntry(m)
      BY Zenon, <2>1, <2>2 DEF LaneOwnsItsEntry, OwnsEntry
    <3> QED
      BY Zenon, <2>1, <2>2, <3>1 DEF OwnsEntry, batch_is_current, batch_active_owner_matches,
                                     batch_ready_owner_matches
  <2>3. CASE m = l
    <3> HIDE DEF SchedulerInv
    <3> QED
      BY <1>1, <1>5, <1>7, <2>3 DEF OwnsEntry, batch_is_current, batch_active_owner_matches
  <2> QED
    BY Zenon, <2>2, <2>3
<1>12. OneCohort'
  <2>1. ASSUME NEW m \in Occupied PROVE pending'[lanes'[m].key].sampling = cohort_key'
    <3>1. pending[lanes[m].key] \in Requests /\ pending[lanes[m].key].sampling = cohort_key
      BY Zenon, LaneFacts DEF OneCohort, SchedulerTypeOK
    <3>2. cohort_key # None
      BY <3>1, SchedulerAssumption DEF Requests
    <3> QED
      BY Zenon, <1>1, <1>2, <1>3, <3>1, <3>2
  <2> HIDE DEF SchedulerInv
  <2>2. pending'[lanes'[l].key].sampling = cohort_key'
    BY Zenon, <1>1, <1>2, <1>7
  <2> QED
    BY Zenon, <1>1, <2>1, <2>2 DEF OneCohort
<1> QED
  BY <1>6, <1>9, <1>10, <1>11, <1>12

\* enqueue takes a request the scheduler does not hold yet.
LEMMA EnqueueKeeps ==
    ASSUME TerminalTypeOK, SchedulerInv, NEW k \in Keys, NEW g \in Generations,
           NEW sampling \in Samplings, enqueue(k, g, sampling)
    PROVE  SchedulerInv'
<1> USE DEF SchedulerInv
<1> DEFINE request == [admission |-> g, sampling |-> sampling]
<1>1. request \in Requests /\ request # None /\ request.admission = g
  BY SchedulerAssumption DEF Requests
<1>2. /\ \A c \in Keys : pending'[c] = IF c = k THEN request ELSE pending[c]
      /\ pending' \in [Keys -> Requests \cup {None}]
  BY Zenon, <1>1 DEF enqueue, SchedulerTypeOK
<1> HIDE DEF request
<1>3. k \notin Elements(inbox) /\ k \notin LaneKeys /\ pending[k] = None /\ inbox \in Seq(Keys)
  BY DEF enqueue, HeldOnce, Elements, Queued, SchedulerTypeOK
<1>4. /\ inbox' \in Seq(Keys) /\ Elements(inbox') = Elements(inbox) \cup {k} /\ Distinct(inbox')
  BY Zenon, <1>3, PushedKey DEF enqueue, HeldOnce, Distinct
<1>5. Queued' = Queued \cup {k}
  BY <1>4 DEF Queued, Elements
<1>6. UNCHANGED <<lanes, entries, cohort_key, lane_next>>
  BY DEF enqueue, terminalVars
<1>7. SchedulerTypeOK'
  BY <1>2, <1>4, <1>6 DEF SchedulerTypeOK
<1>8. HeldOnce'
  <2>1. \A c \in Keys : pending'[c] # None <=> c \in Queued' \cup LaneKeys'
    BY <1>1, <1>2, <1>5, <1>6 DEF HeldOnce, LaneKeys, Occupied
  <2>2. Queued' \cap LaneKeys' = {}
    BY <1>3, <1>5, <1>6 DEF HeldOnce, LaneKeys, Occupied
  <2> QED
    BY <1>4, <1>6, <2>1, <2>2 DEF HeldOnce, Distinct, Occupied
<1>9. PendingIsCurrent'
  BY <1>1, <1>2, <1>6 DEF PendingIsCurrent, batch_is_current, enqueue
<1>10. LaneOwnsItsEntry'
  BY <1>6 DEF LaneOwnsItsEntry, Occupied, batch_is_current, batch_active_owner_matches,
              batch_ready_owner_matches
<1>11. OneCohort'
  <2>1. \A l \in Occupied : lanes[l].key # k /\ lanes[l].key \in Keys
    BY <1>3, LaneFacts
  <2> QED
    BY <1>2, <1>6, <2>1 DEF OneCohort, Occupied
<1> QED
  BY <1>7, <1>8, <1>9, <1>10, <1>11

\* adopt_running binds a fresh ticket to the first empty lane.
LEMMA AdoptKeeps ==
    ASSUME TerminalTypeOK, SchedulerInv, NEW k \in Keys, NEW g \in Generations,
           NEW sampling \in Samplings, adopt_running(k, g, sampling)
    PROVE  SchedulerInv' /\ TerminalTypeOK'
<1> DEFINE request == [admission |-> g, sampling |-> sampling]
           ticket == [lane |-> FirstEmpty, generation |-> lane_next, admission |-> g]
<1>1. FirstEmpty \in Lanes /\ lanes[FirstEmpty] = None
  BY FirstEmptyLane DEF adopt_running
<1>2. /\ lane_next \in Generations /\ lane_next + 1 \in 1 .. MaxGeneration + 1
  BY MaxGenerationAssumption DEF adopt_running, SchedulerInv, SchedulerTypeOK, Generations
<1>3. request \in Requests /\ ticket \in Tickets
  BY <1>1, <1>2 DEF Requests, Tickets
<1>4. /\ entries[k] # None /\ entries[k].generation = g /\ entries[k] \in Entries
      /\ entries[k].state \in {"Announced", "Queued"}
      /\ entries \in [Keys -> Entries \cup {None}]
  BY DEF adopt_running, Queueable, batch_is_current, TerminalTypeOK
<1>5. /\ inbox' \in Seq(Keys) /\ Distinct(inbox') /\ Elements(inbox') = Elements(inbox) \ {k}
  BY DEF adopt_running, SchedulerInv, SchedulerTypeOK, HeldOnce, Distinct, Elements, Queued
<1>6. SchedulerInv'
  BY Zenon, <1>1, <1>2, <1>3, <1>4, <1>5, RequestRuns DEF adopt_running
<1>7. TerminalTypeOK'
  BY Zenon, <1>3, <1>4 DEF adopt_running, Bound, TerminalTypeOK, Entries
<1> QED
  BY <1>6, <1>7

\* try_assign_one moves the head of the inbox to a lane, or drops it.
LEMMA AssignKeeps ==
    ASSUME TerminalTypeOK, SchedulerInv, try_assign_one
    PROVE  SchedulerInv' /\ TerminalTypeOK'
<1> DEFINE k == Head(inbox)
           request == pending[k]
           ticket == [lane |-> FirstEmpty, generation |-> lane_next, admission |-> request.admission]
<1>1. FirstEmpty \in Lanes /\ lanes[FirstEmpty] = None
  BY Zenon, FirstEmptyLane DEF try_assign_one, Assignable
<1>2. /\ k \in Elements(inbox) /\ k \in Keys
      /\ inbox' \in Seq(Keys) /\ Distinct(inbox') /\ Elements(inbox') = Elements(inbox) \ {k}
  BY Zenon, FrontKey DEF try_assign_one, Assignable, SchedulerInv, SchedulerTypeOK, HeldOnce, Distinct
<1>3. /\ request # None /\ request \in Requests /\ request.admission \in Generations
      /\ k \notin LaneKeys
  BY Zenon, <1>2 DEF SchedulerInv, SchedulerTypeOK, HeldOnce, Queued, Elements, Requests
<1>4. /\ lane_next \in Generations /\ lane_next' \in 1 .. MaxGeneration + 1
  <2>1. lane_next \in 1 .. MaxGeneration + 1
    BY Zenon DEF SchedulerInv, SchedulerTypeOK
  <2>2. lane_next <= MaxGeneration /\ lane_next' \in {lane_next, lane_next + 1}
    BY Zenon DEF try_assign_one
  <2> QED
    BY <2>1, <2>2, MaxGenerationAssumption DEF Generations
<1>5. CASE Queueable(k, request.admission)
  <2>1. ticket \in Tickets
    BY <1>1, <1>3, <1>4 DEF Tickets
  <2>2. /\ entries[k] # None /\ entries[k].generation = request.admission /\ entries[k] \in Entries
        /\ entries[k].state \in {"Announced", "Queued"}
        /\ entries \in [Keys -> Entries \cup {None}]
    BY <1>2, <1>5 DEF Queueable, batch_is_current, TerminalTypeOK
  <2>3. /\ entries' = [entries EXCEPT ![k] = Bound(@, ticket)]
        /\ lanes' = [lanes EXCEPT ![FirstEmpty] =
              [state |-> "Running", key |-> k, ticket |-> ticket, deadline |-> "unset"]]
        /\ cohort_key' = request.sampling
        /\ pending' = pending
        /\ cohort_key \in {None, request.sampling}
    BY Zenon, <1>5 DEF try_assign_one, Assignable
  <2>4. pending' = [pending EXCEPT ![k] = request]
    BY Zenon, <1>2, <2>3 DEF SchedulerInv, SchedulerTypeOK
  <2>5. ticket.lane = FirstEmpty /\ ticket.admission = request.admission
    OBVIOUS
  <2> HIDE DEF k, request, ticket
  <2>6. SchedulerInv'
    BY Zenon, <1>1, <1>2, <1>3, <1>4, <2>1, <2>2, <2>3, <2>4, <2>5, RequestRuns
  <2>7. TerminalTypeOK'
    BY Zenon, <1>2, <2>1, <2>2, <2>3 DEF try_assign_one, Bound, TerminalTypeOK, Entries
  <2> QED
    BY <2>6, <2>7
<1>6. CASE ~Queueable(k, request.admission)
  <2>1. /\ pending' = [pending EXCEPT ![k] = None] /\ cohort_key' = CohortAfter(lanes)
        /\ entries' = entries /\ lanes' = lanes
        /\ UNCHANGED <<active, terminal_next, handoffs, batch_next, transfers, claims>>
    BY Zenon, <1>6 DEF try_assign_one
  <2>2. TerminalTypeOK'
    BY <2>1 DEF TerminalTypeOK
  <2>3. lanes' = [l \in Lanes |-> IF lanes[l] # None /\ lanes[l].key = k THEN None ELSE lanes[l]]
    BY <1>3, <2>1 DEF LaneKeys, Occupied, SchedulerInv, SchedulerTypeOK
  <2>4. cohort_key' = CohortAfter(lanes')
    BY <2>1
  <2> HIDE DEF k, request, ticket
  <2>5. SchedulerInv'
    BY Zenon, <1>2, <1>4, <2>1, <2>3, <2>4, RequestLeaves
  <2> QED
    BY <2>2, <2>5
<1> QED
  BY <1>5, <1>6

\* Freeing the lane of a request is what RequestLeaves describes.
LEMMA LaneFreed ==
    ASSUME SchedulerInv, NEW l \in Lanes, NEW k \in Keys, lanes[l] # None, lanes[l].key = k,
           lanes' = [lanes EXCEPT ![l] = None],
           inbox' \in {inbox, Without(inbox, k)}
    PROVE  /\ lanes' = [m \in Lanes |-> IF lanes[m] # None /\ lanes[m].key = k THEN None ELSE lanes[m]]
           /\ inbox' \in Seq(Keys) /\ Distinct(inbox') /\ Elements(inbox') = Elements(inbox) \ {k}
<1>1. l \in Occupied
  BY DEF Occupied
<1>2. \A m \in Lanes : lanes[m] # None /\ lanes[m].key = k => m = l
  BY <1>1, LaneFacts DEF Occupied
<1>3. lanes' = [m \in Lanes |-> IF lanes[m] # None /\ lanes[m].key = k THEN None ELSE lanes[m]]
  BY Zenon, <1>2 DEF SchedulerInv, SchedulerTypeOK
<1>4. inbox \in Seq(Keys) /\ Distinct(inbox) /\ k \notin Elements(inbox)
  BY <1>1, LaneFacts DEF SchedulerInv, SchedulerTypeOK, HeldOnce, Distinct
<1>5. CASE inbox' = inbox
  BY Zenon, <1>3, <1>4, <1>5
<1>6. CASE inbox' = Without(inbox, k)
  BY Zenon, <1>3, <1>4, <1>6, WithoutKey
<1> QED
  BY <1>5, <1>6

\* commit_lane frees the lane and keeps its entry, which is no longer held.
LEMMA CommitKeeps ==
    ASSUME SchedulerInv, NEW l \in Lanes, NEW k \in Keys, NEW g \in Generations,
           commit_lane_retain_terminal(l, k, g)
    PROVE  SchedulerInv'
<1>1. lanes[l] # None /\ lanes[l].key = k
  BY DEF commit_lane_retain_terminal, Committable, Holds
<1>2. /\ lanes' = [lanes EXCEPT ![l] = None] /\ inbox' = inbox /\ entries' = entries
      /\ pending' = [pending EXCEPT ![k] = None] /\ cohort_key' = CohortAfter(lanes')
      /\ lane_next' = lane_next
  BY DEF commit_lane_retain_terminal, terminalVars
<1>3. lane_next' \in 1 .. MaxGeneration + 1
  BY <1>2 DEF SchedulerInv, SchedulerTypeOK
<1> QED
  BY Zenon, <1>1, <1>2, <1>3, LaneFreed, RequestLeaves

\* abort_lane and retire_lane_for_singleton free the lane they name.
LEMMA ReleaseKeeps ==
    ASSUME TerminalTypeOK, SchedulerInv, NEW l \in Lanes, NEW k \in Keys, NEW g \in Generations,
           abort_lane(l, k, g) \/ retire_lane_for_singleton(l, k, g)
    PROVE  SchedulerInv'
<1>1. lanes[l] # None /\ lanes[l].key = k
  BY DEF abort_lane, retire_lane_for_singleton, Holds
<1>2. /\ lanes' = [lanes EXCEPT ![l] = None] /\ inbox' = Without(inbox, k)
      /\ pending' = [pending EXCEPT ![k] = None] /\ cohort_key' = CohortAfter(lanes')
      /\ lane_next' = lane_next
  BY DEF abort_lane, retire_lane_for_singleton, ReleaseLane
<1>3. lane_next' \in 1 .. MaxGeneration + 1
  BY <1>2 DEF SchedulerInv, SchedulerTypeOK
<1>4. \A c \in Keys : c # k => entries'[c] = entries[c]
  BY DEF abort_lane, retire_lane_for_singleton, batch_clear_terminal_at_generation,
         batch_clear_terminal, terminalVars, TerminalTypeOK
<1> QED
  BY Zenon, <1>1, <1>2, <1>3, <1>4, LaneFreed, RequestLeaves

\* abort_queued takes the request out of the inbox and out of pending.
LEMMA AbortQueuedKeeps ==
    ASSUME TerminalTypeOK, SchedulerInv, NEW k \in Keys, NEW g \in Generations, abort_queued(k, g)
    PROVE  SchedulerInv'
<1>1. /\ k \in Queued /\ lanes' = lanes /\ inbox' = Without(inbox, k)
      /\ pending' = [pending EXCEPT ![k] = None] /\ cohort_key' = CohortAfter(lanes)
      /\ lane_next' = lane_next
  BY DEF abort_queued
<1>2. lane_next' \in 1 .. MaxGeneration + 1
  BY <1>1 DEF SchedulerInv, SchedulerTypeOK
<1>3. \A c \in Keys : c # k => entries'[c] = entries[c]
  BY DEF abort_queued, batch_clear_terminal_at_generation, batch_clear_terminal, TerminalTypeOK
<1>4. k \notin LaneKeys
  BY <1>1 DEF SchedulerInv, HeldOnce
<1>5. lanes' = [l \in Lanes |-> IF lanes[l] # None /\ lanes[l].key = k THEN None ELSE lanes[l]]
  BY <1>1, <1>4 DEF LaneKeys, Occupied, SchedulerInv, SchedulerTypeOK
<1>6. inbox' \in Seq(Keys) /\ Distinct(inbox') /\ Elements(inbox') = Elements(inbox) \ {k}
  BY <1>1, WithoutKey DEF SchedulerInv, SchedulerTypeOK, HeldOnce, Distinct
<1>7. cohort_key' = CohortAfter(lanes')
  BY <1>1
<1> QED
  BY Zenon, <1>1, <1>2, <1>3, <1>5, <1>6, <1>7, RequestLeaves

\* fail_all_active empties lanes, inbox and pending together.
LEMMA FailAllKeeps ==
    ASSUME TerminalTypeOK, SchedulerInv, fail_all_active
    PROVE  SchedulerInv' /\ TerminalTypeOK'
<1> USE DEF SchedulerInv
<1>1. /\ \A l \in Lanes : lanes'[l] = None
      /\ Occupied' = {} /\ LaneKeys' = {} /\ Queued' = {}
      /\ inbox' = <<>> /\ cohort_key' = None /\ lane_next' = lane_next
  BY DEF fail_all_active, EmptyScheduler, Occupied, LaneKeys, Queued
<1>2. \A k \in Keys : pending'[k] = None
  BY DEF fail_all_active, EmptyScheduler, HeldOnce
<1>3. pending' \in [Keys -> Requests \cup {None}] /\ lanes' \in [Lanes -> OccupiedLanes \cup {None}]
  BY DEF fail_all_active, EmptyScheduler, SchedulerTypeOK
<1>4. SchedulerTypeOK'
  BY <1>1, <1>3 DEF SchedulerTypeOK
<1>5. HeldOnce' /\ PendingIsCurrent' /\ LaneOwnsItsEntry' /\ OneCohort'
  <2>1. HeldOnce'
    BY <1>1, <1>2 DEF HeldOnce
  <2>2. PendingIsCurrent'
    BY <1>2 DEF PendingIsCurrent
  <2>3. LaneOwnsItsEntry'
    BY <1>1 DEF LaneOwnsItsEntry
  <2>4. OneCohort'
    BY <1>1 DEF OneCohort
  <2> QED
    BY <2>1, <2>2, <2>3, <2>4
<1>6. TerminalTypeOK'
  BY DEF fail_all_active, TerminalTypeOK
<1> QED
  BY <1>4, <1>5, <1>6

\* A lane whose record changes in state and deadline only.
LEMMA LaneProgress ==
    ASSUME SchedulerInv, NEW l \in Occupied, NEW lane \in OccupiedLanes,
           lane.key = lanes[l].key, lane.ticket = lanes[l].ticket,
           lanes' = [lanes EXCEPT ![l] = lane],
           UNCHANGED <<inbox, pending, cohort_key, lane_next>>,
           \A c \in Keys : c # lane.key => entries'[c] = entries[c],
           entries'[lane.key] # None,
           entries'[lane.key].generation = entries[lane.key].generation,
           entries'[lane.key].owner = lane.ticket,
           entries'[lane.key].state = IF lane.state = "Running" THEN "Active" ELSE "Ready"
    PROVE  SchedulerInv'
<1> USE DEF SchedulerInv
<1>1. /\ Occupied' = Occupied /\ lane # None /\ lanes'[l] = lane
      /\ \A m \in Occupied : m # l => lanes'[m] = lanes[m]
      /\ \A m \in Occupied : lanes'[m].key = lanes[m].key /\ lanes'[m].ticket = lanes[m].ticket
  BY SchedulerAssumption DEF Occupied, SchedulerTypeOK
<1>2. LaneKeys' = LaneKeys
  BY <1>1 DEF LaneKeys
<1>3. SchedulerTypeOK'
  BY Zenon DEF SchedulerTypeOK
<1>4. HeldOnce' /\ OneCohort'
  <2>1. \A m \in Occupied : pending'[lanes'[m].key].sampling = cohort_key'
    BY Zenon, <1>1 DEF OneCohort
  <2>2. ASSUME NEW m \in Occupied, NEW n \in Occupied, lanes'[m].key = lanes'[n].key PROVE m = n
    <3>1. lanes[m].key = lanes[n].key
      BY Zenon, <1>1, <2>2
    <3> QED
      BY Zenon, <3>1 DEF HeldOnce
  <2>3. Queued' = Queued
    BY Zenon DEF Queued
  <2> QED
    BY Zenon, <1>1, <1>2, <2>1, <2>2, <2>3 DEF HeldOnce, OneCohort
<1>5. PendingIsCurrent'
  BY DEF PendingIsCurrent, batch_is_current
<1>6. LaneOwnsItsEntry'
  <2>1. ASSUME NEW m \in Occupied, m # l
        PROVE  lanes'[m] = lanes[m] /\ entries'[lanes[m].key] = entries[lanes[m].key]
    BY <1>1, <2>1, LaneFacts
  <2>2. /\ lanes[l].ticket.lane = l
        /\ entries[lane.key].generation = lane.ticket.admission
    <3>1. lanes[l].state \in {"Running", "AwaitingClient"}
      BY Zenon, LaneFacts DEF OccupiedLanes
    <3> QED
      BY Zenon, <3>1 DEF LaneOwnsItsEntry, batch_is_current, batch_active_owner_matches,
                  batch_ready_owner_matches
  <2> SUFFICES ASSUME NEW m \in Occupied PROVE OwnsEntry(m)'
    BY Zenon, <1>1 DEF LaneOwnsItsEntry, OwnsEntry
  <2>3. CASE m # l
    <3>1. OwnsEntry(m)
      BY Zenon DEF LaneOwnsItsEntry, OwnsEntry
    <3> QED
      BY Zenon, <2>1, <2>3, <3>1 DEF OwnsEntry, batch_is_current, batch_active_owner_matches,
                                     batch_ready_owner_matches
  <2>4. CASE m = l
    <3> HIDE DEF SchedulerInv
    <3> QED
      BY <1>1, <2>2, <2>4 DEF OwnsEntry, batch_is_current, batch_active_owner_matches,
                              batch_ready_owner_matches
  <2> QED
    BY Zenon, <2>3, <2>4
<1> QED
  BY <1>3, <1>4, <1>5, <1>6

\* mark_awaiting_commit moves a lane and its entry on together.
LEMMA AwaitKeeps ==
    ASSUME TerminalTypeOK, SchedulerInv, NEW l \in Lanes, mark_awaiting_commit(l)
    PROVE  SchedulerInv'
<1> DEFINE lane == [lanes[l] EXCEPT !.state = "AwaitingClient", !.deadline = "armed"]
           k == lanes[l].key
<1>1. l \in Occupied /\ lanes[l] \in OccupiedLanes /\ k \in Keys
  BY LaneFacts DEF mark_awaiting_commit, Running
<1>2. /\ lane \in OccupiedLanes /\ lane.key = k /\ lane.ticket = lanes[l].ticket
      /\ lane.state = "AwaitingClient"
  BY Zenon, <1>1 DEF OccupiedLanes
<1>3. lanes' = [lanes EXCEPT ![l] = lane]
  BY Zenon, <1>1 DEF mark_awaiting_commit, SchedulerInv, SchedulerTypeOK
<1>4. /\ entries[k] # None /\ entries[k] \in Entries
      /\ entries[k].generation = lanes[l].ticket.admission /\ entries[k].owner = lanes[l].ticket
      /\ entries' = [entries EXCEPT ![k].state = "Ready", ![k].deadline = "armed"]
  BY <1>1 DEF mark_awaiting_commit, batch_mark_ready_with_pending, batch_active_owner_matches,
              batch_is_current, TerminalTypeOK
<1> HIDE DEF lane, k
<1>5. /\ \A c \in Keys : c # k => entries'[c] = entries[c]
      /\ entries'[k] # None /\ entries'[k].generation = entries[k].generation
      /\ entries'[k].state = "Ready" /\ entries'[k].owner = entries[k].owner
  <2> DEFINE old == entries[k]
             e == [old EXCEPT !.state = "Ready", !.deadline = "armed"]
  <2>0. k \in Keys /\ entries[k] \in Entries /\ entries \in [Keys -> Entries \cup {None}]
        /\ entries' = [entries EXCEPT ![k].state = "Ready", ![k].deadline = "armed"]
    BY <1>1, <1>4 DEF TerminalTypeOK
  <2>1. entries' = [entries EXCEPT ![k] = e]
    BY Zenon, <2>0
  <2>2. e \in Entries
    BY Zenon, <2>0 DEF Entries
  <2>3. e.generation = entries[k].generation /\ e.state = "Ready" /\ e.owner = entries[k].owner
    BY <1>4 DEF Entries
  <2> HIDE DEF e
  <2>4. entries'[k] = e /\ \A c \in Keys : c # k => entries'[c] = entries[c]
    BY <1>1, <2>1 DEF TerminalTypeOK
  <2> QED
    BY <2>2, <2>3, <2>4, NoneAssumption
<1>6. UNCHANGED <<inbox, pending, cohort_key, lane_next>>
  BY DEF mark_awaiting_commit
<1> QED
  BY ZenonT(30), <1>1, <1>2, <1>3, <1>4, <1>5, <1>6, LaneProgress DEF k

\* A lane's deadline is no part of what ties it to its entry.
LEMMA LaneDeadlineKeeps ==
    ASSUME SchedulerInv, NEW l \in Lanes, LaneDeadlinePasses(l)
    PROVE  SchedulerInv'
<1> DEFINE lane == [lanes[l] EXCEPT !.deadline = "passed"]
<1>1. l \in Occupied /\ lanes[l] \in OccupiedLanes
  BY LaneFacts DEF LaneDeadlinePasses, Awaiting
<1>2. /\ lane \in OccupiedLanes /\ lane.key = lanes[l].key /\ lane.ticket = lanes[l].ticket
      /\ lane.state = lanes[l].state
  BY <1>1 DEF OccupiedLanes
<1>3. lanes' = [lanes EXCEPT ![l] = lane]
  BY <1>1 DEF LaneDeadlinePasses, SchedulerInv, SchedulerTypeOK
<1>4. entries' = entries /\ UNCHANGED <<inbox, pending, cohort_key, lane_next>>
  BY DEF LaneDeadlinePasses, terminalVars
<1> HIDE DEF lane
<1>5. /\ entries[lane.key] # None /\ entries[lane.key].owner = lane.ticket
      /\ entries[lane.key].state = IF lane.state = "Running" THEN "Active" ELSE "Ready"
  BY <1>1, <1>2 DEF SchedulerInv, LaneOwnsItsEntry, OccupiedLanes, batch_active_owner_matches,
                    batch_ready_owner_matches, batch_is_current
<1> QED
  BY Zenon, <1>1, <1>2, <1>3, <1>4, <1>5, LaneProgress

----------------------------------------------------------------------------
(* The induction *)

\* Every step keeps SchedulerInv.
LEMMA SchedulerStep ==
    ASSUME TerminalTypeOK, SchedulerInv, [BatchNext]_batchVars
    PROVE  SchedulerInv' /\ TerminalTypeOK'
<1>1. ASSUME [TerminalNext]_terminalVars PROVE TerminalTypeOK'
  BY <1>1, TypeStep
<1>2. CASE UNCHANGED batchVars
  <2>1. UNCHANGED terminalVars /\ UNCHANGED schedulerVars
    BY <1>2 DEF batchVars
  <2>2. \A k \in Keys : pending[k] # None => SameEntry(k)
    BY <2>1 DEF SameEntry, terminalVars, SchedulerInv, PendingIsCurrent, batch_is_current
  <2> QED
    BY <1>1, <2>1, <2>2, RegistryKeeps
<1>3. ASSUME NEW k \in Keys, ReaderStep(k) PROVE SchedulerInv' /\ TerminalTypeOK'
  BY <1>1, <1>3, ReaderKeeps DEF ReaderStep, TerminalNext
<1>4. ASSUME NEW k \in Keys, MainStep(k) PROVE SchedulerInv' /\ TerminalTypeOK'
  BY Zenon, <1>1, <1>4, MainKeeps DEF MainStep, TerminalNext
<1>5. CASE ResetTerminals
  BY <1>1, <1>5, ResetKeeps DEF ResetTerminals, TerminalNext
<1>6. ASSUME NEW l \in Lanes, mark_awaiting_commit(l) PROVE SchedulerInv' /\ TerminalTypeOK'
  <2>1. /\ lanes[l].key \in Keys /\ lanes[l].ticket.admission \in Generations
        /\ lanes[l].ticket \in Tickets
    BY <1>6, LaneFacts DEF mark_awaiting_commit, Running
  <2> QED
    BY Zenon, <1>1, <1>6, <2>1, AwaitKeeps DEF mark_awaiting_commit, TerminalNext
<1>7. ASSUME NEW l \in Lanes, LaneDeadlinePasses(l) PROVE SchedulerInv' /\ TerminalTypeOK'
  BY Zenon, <1>1, <1>7, LaneDeadlineKeeps DEF LaneDeadlinePasses
<1>8. ASSUME NEW k \in Keys, NEW g \in Generations, abort_queued(k, g)
      PROVE  SchedulerInv' /\ TerminalTypeOK'
  BY Zenon, <1>1, <1>8, AbortQueuedKeeps DEF abort_queued, TerminalNext
<1>9. ASSUME NEW k \in Keys, NEW g \in Generations, NEW sampling \in Samplings, enqueue(k, g, sampling)
      PROVE  SchedulerInv' /\ TerminalTypeOK'
  BY Zenon, <1>1, <1>9, EnqueueKeeps DEF enqueue
<1>10. ASSUME NEW k \in Keys, NEW g \in Generations, NEW l \in Lanes,
              commit_lane_retain_terminal(l, k, g)
       PROVE  SchedulerInv' /\ TerminalTypeOK'
  BY Zenon, <1>1, <1>10, CommitKeeps DEF commit_lane_retain_terminal
<1>11. ASSUME NEW k \in Keys, NEW g \in Generations, NEW l \in Lanes,
              abort_lane(l, k, g) \/ retire_lane_for_singleton(l, k, g)
       PROVE  SchedulerInv' /\ TerminalTypeOK'
  BY <1>1, <1>11, ReleaseKeeps DEF abort_lane, retire_lane_for_singleton, TerminalNext
<1> QED
  BY <1>2, <1>3, <1>4, <1>5, <1>6, <1>7, <1>8, <1>9, <1>10, <1>11, AssignKeeps, FailAllKeeps,
     AdoptKeeps DEF BatchNext, DriverStep

\* A new scheduler holds nothing.
LEMMA SchedulerStart == BatchInit => TerminalTypeOK /\ SchedulerInv
<1> SUFFICES ASSUME BatchInit PROVE TerminalTypeOK /\ SchedulerInv
  OBVIOUS
<1>1. TerminalTypeOK
  BY MaxGenerationAssumption DEF BatchInit, TerminalInit, TerminalTypeOK
<1>2. Occupied = {} /\ Queued = {} /\ \A k \in Keys : pending[k] = None
  BY DEF BatchInit, SchedulerInit, Occupied, Queued
<1>3. SchedulerTypeOK
  BY MaxGenerationAssumption DEF BatchInit, SchedulerInit, SchedulerTypeOK
<1>4. LaneOwnsItsEntry /\ HeldOnce /\ PendingIsCurrent /\ OneCohort
  BY <1>2 DEF BatchInit, SchedulerInit, LaneOwnsItsEntry, HeldOnce, PendingIsCurrent, OneCohort,
              LaneKeys
<1> QED
  BY <1>1, <1>3, <1>4 DEF SchedulerInv

\* The inductive invariant behind the theorems below.
LEMMA SchedulerInvariant == BatchSpec => [](TerminalTypeOK /\ SchedulerInv)
  BY SchedulerStart, SchedulerStep, PTL DEF BatchSpec

\* A lane is always the owner of its request's entry, as abort_lane and
\* commit_lane demand before they free it.
THEOREM LanesOwnEntries == BatchSpec => []LaneOwnsItsEntry
  BY SchedulerInvariant, PTL DEF SchedulerInv

\* Every pending request is in the inbox or in one lane, and in one place only.
THEOREM RequestsHeldOnce == BatchSpec => []HeldOnce
  BY SchedulerInvariant, PTL DEF SchedulerInv

\* The scheduler never holds a request whose admission was retired.
THEOREM PendingStaysCurrent == BatchSpec => []PendingIsCurrent
  BY SchedulerInvariant, PTL DEF SchedulerInv

\* Occupied lanes share a sampling key; empty ones leave no cohort behind.
THEOREM CohortShared == BatchSpec => []OneCohort
  BY SchedulerInvariant, PTL DEF SchedulerInv

\* The scheduler's fields keep their types.
THEOREM SchedulerTypeCorrect == BatchSpec => []SchedulerTypeOK
  BY SchedulerInvariant, PTL DEF SchedulerInv

----------------------------------------------------------------------------
(* Commits *)

\* The entry of an awaiting lane is gone, or was committed and neither
\* aborted nor expired, when the lane is freed.
LEMMA FreedByCommit ==
    ASSUME TerminalTypeOK, SchedulerInv, BatchNext, NEW l \in Awaiting,
           lanes'[l] = None, entries'[lanes[l].key] # None
    PROVE  /\ entries[lanes[l].key].commit_latched
           /\ ~entries[lanes[l].key].abort_latched
           /\ entries[lanes[l].key].deadline # "passed"
<1> DEFINE k == lanes[l].key
           g == lanes[l].ticket.admission
           Authorised == /\ entries[k].commit_latched
                         /\ ~entries[k].abort_latched
                         /\ entries[k].deadline # "passed"
<1>1. /\ l \in Occupied /\ l \in Lanes /\ lanes[l] # None /\ k \in Keys
      /\ lanes[l].state = "AwaitingClient"
  BY LaneFacts DEF Awaiting, Occupied
<1>2. /\ entries[k] # None /\ entries[k].state = "Ready" /\ entries[k].generation = g
  BY <1>1 DEF SchedulerInv, LaneOwnsItsEntry, batch_ready_owner_matches, batch_is_current
<1>3. lanes' # lanes
  BY <1>1
<1>4. ASSUME NEW m \in Lanes, NEW c \in Keys, NEW a \in Generations,
             commit_lane_retain_terminal(m, c, a)
      PROVE  Authorised
  <2>1. m = l /\ c = k
    BY <1>1, <1>4 DEF commit_lane_retain_terminal, Committable, Holds, SchedulerInv, SchedulerTypeOK
  <2>2. batch_poll_decision(k, a) = "Commit"
    BY <1>4, <2>1 DEF commit_lane_retain_terminal, Committable
  <2>3. None # "Commit"
    BY NoneAssumption DEF Decisions
  <2>4. entries[k].commit_latched \in BOOLEAN /\ entries[k].abort_latched \in BOOLEAN
    BY <1>1, <1>2 DEF TerminalTypeOK, Entries
  <2>5. /\ ~(entries[k].abort_latched \/ entries[k].deadline = "passed")
        /\ entries[k].commit_latched
    BY <1>2, <2>2, <2>3, <2>4 DEF batch_poll_decision
  <2> QED
    BY <2>5
<1>5. ASSUME NEW m \in Lanes, NEW c \in Keys, NEW a \in Generations,
             abort_lane(m, c, a) \/ retire_lane_for_singleton(m, c, a)
      PROVE  FALSE
  <2>1. m = l /\ c = k
    BY Zenon, <1>1, <1>5 DEF abort_lane, retire_lane_for_singleton, ReleaseLane, Holds, SchedulerInv,
                     SchedulerTypeOK
  <2>2. CASE abort_lane(m, c, a)
    BY ZenonT(30), <1>1, <2>1, <2>2 DEF abort_lane, batch_clear_terminal_at_generation, batch_clear_terminal,
                            TerminalTypeOK
  <2>3. CASE retire_lane_for_singleton(m, c, a)
    BY Zenon, <1>2, <2>1, <2>3 DEF retire_lane_for_singleton, batch_active_owner_matches
  <2> QED
    BY <1>5, <2>2, <2>3
<1>6. CASE fail_all_active
  <2>1. Retired(k)
    BY <1>1, <1>2 DEF Retired, batch_is_current
  <2> QED
    BY Zenon, <1>1, <1>6, <2>1 DEF fail_all_active
<1>7. ASSUME NEW m \in Lanes, mark_awaiting_commit(m) \/ LaneDeadlinePasses(m) PROVE FALSE
  <2>1. lanes[m] \in OccupiedLanes
    BY <1>7, LaneFacts DEF mark_awaiting_commit, LaneDeadlinePasses, Running, Awaiting
  <2>2. lanes'[l] = lanes[l] \/ lanes'[l] \in OccupiedLanes
    BY <1>1, <1>7, <2>1
       DEF mark_awaiting_commit, LaneDeadlinePasses, SchedulerInv, SchedulerTypeOK, OccupiedLanes
  <2> QED
    BY <1>1, <2>2, SchedulerAssumption
<1>8. CASE try_assign_one
  <2>1. lanes[FirstEmpty] = None
    BY Zenon, <1>8, FirstEmptyLane DEF try_assign_one, Assignable
  <2> QED
    BY ZenonT(30), <1>1, <1>8, <2>1 DEF try_assign_one, SchedulerInv, SchedulerTypeOK
<1>9. ASSUME NEW c \in Keys, NEW a \in Generations, NEW sampling \in Samplings,
             adopt_running(c, a, sampling)
      PROVE  FALSE
  <2>1. lanes[FirstEmpty] = None
    BY Zenon, <1>9, FirstEmptyLane DEF adopt_running
  <2> QED
    BY Zenon, <1>1, <1>9, <2>1 DEF adopt_running, SchedulerInv, SchedulerTypeOK
<1>10. ASSUME \/ \E c \in Keys : ReaderStep(c) \/ MainStep(c)
              \/ ResetTerminals
              \/ \E c \in Keys, a \in Generations :
                    abort_queued(c, a) \/ \E sampling \in Samplings : enqueue(c, a, sampling)
       PROVE  FALSE
  BY Zenon, <1>3, <1>10 DEF ReaderStep, MainStep, ResetTerminals, abort_queued, enqueue, schedulerVars
<1> QED
  BY Zenon, <1>4, <1>5, <1>6, <1>7, <1>8, <1>9, <1>10 DEF BatchNext, DriverStep

\* commit_lane frees an awaiting lane only while the client's commit stands.
THEOREM CommitIsAuthorised == BatchSpec => CommittedLaneIsAuthorised
<1>1. TerminalTypeOK /\ SchedulerInv /\ [BatchNext]_batchVars =>
        [\A l \in Awaiting :
           LET k == lanes[l].key
           IN  lanes'[l] = None /\ entries'[k] # None =>
                 /\ entries[k].commit_latched
                 /\ ~entries[k].abort_latched
                 /\ entries[k].deadline # "passed"]_batchVars
  BY Zenon, FreedByCommit
<1> QED
  BY <1>1, SchedulerInvariant, PTL DEF BatchSpec, CommittedLaneIsAuthorised

=============================================================================
