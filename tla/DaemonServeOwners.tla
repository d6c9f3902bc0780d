-------------------------- MODULE DaemonServeOwners --------------------------
(***************************************************************************)
(* Who owns what in the registry: every entry and every tombstone belongs  *)
(* to one request that main has in hand or in its queue, so that none is   *)
(* left behind when main waits for a message.                              *)
(***************************************************************************)
EXTENDS DaemonServeSteps

\* The provers tried on a leaf that names none, in this order.
USE SMT, Zenon, SMTT(20), SMTT(30)

----------------------------------------------------------------------------
(* The invariant *)

\* Main is about to clear the admission g of k.
Closing(k, g) ==
    /\ main.item # None /\ main.item.act \in {"done", "clear"}
    /\ main.item.key = k /\ main.item.admission = g

\* The admission g of k is in the queue, handled by main, held by the
\* scheduler or about to be cleared.
Placed(k, g) ==
    \/ Generate(k, g, None) \in Mail
    \/ main.pc \notin Idle \cup {"left"} /\ main.msg = Generate(k, g, None)
    \/ pending[k] # None
    \/ Closing(k, g)

Busy == {"Active", "Ready"}

EntryOwned(k) ==
    entries[k] # None =>
        /\ handoffs[k] = None
        /\ Placed(k, entries[k].generation)
        /\ entries[k].state \in Busy => k \in LaneKeys \/ Closing(k, entries[k].generation)

\* The token t is for the admission g.
Presents(t, g) == t # None /\ t.admission = g

\* Somebody will present the token for the admission g of k.
Awaited(k, g) ==
    \/ \E m \in Mail : m.key = k /\ Presents(m.transfer, g)
    \/ main.pc = "dispatch" /\ Key = k /\ Presents(main.msg.transfer, g)
    \/ main.pc \in {"adopt", "adopt_think"} /\ Key = k /\ Presents(main.item.transfer, g)

\* Main serves a request whose tombstone it adopted.
Adopting(k) ==
    /\ Owns(k) /\ Handles(k)
    /\ main.pc \in {"route", "generate", "leave", "left"} \cup Sequential
    /\ main.pc = "route" => main.msg.transfer # None

HandoffOwned(k) ==
    handoffs[k] # None =>
        IF handoffs[k].adopted THEN Adopting(k) ELSE Awaited(k, handoffs[k].admission)

ActiveInv == active # None => main.pc \notin Idle \cup {"dispatch", "refused"}

PoisonInv ==
    batch_poisoned =>
        /\ main.pc \in Idle \cup {"dispatch", "refused", "leave", "left"}
        /\ \A k \in Keys : handoffs[k] = None

OwnerInv == (\A k \in Keys : EntryOwned(k) /\ HandoffOwned(k)) /\ ActiveInv /\ PoisonInv

----------------------------------------------------------------------------
(* Calls that make and move no owner *)

EntryStays(k) ==
    entries'[k] # None =>
        /\ entries[k] # None /\ entries'[k].generation = entries[k].generation
        /\ entries'[k].state \in Busy => entries[k].state \in Busy

HandoffStays(k) ==
    handoffs'[k] # None =>
        /\ handoffs[k] # None /\ handoffs'[k].admission = handoffs[k].admission
        /\ handoffs'[k].adopted = handoffs[k].adopted

ActiveStays == active' # None <=> active # None

OwnersStay ==
    /\ \A k \in Keys : EntryStays(k) /\ HandoffStays(k) /\ (Owns(k) => Owns(k)')
    /\ ActiveStays

\* Entries come out as they were, but for fields nobody is told apart by.
LEMMA EntriesStay ==
    ASSUME TerminalTypeOK, NEW k \in Keys, NEW e \in Entries \cup {None},
           entries' = [entries EXCEPT ![k] = e],
           e # None => /\ entries[k] # None /\ e.generation = entries[k].generation
                       /\ e.state \in Busy => entries[k].state \in Busy
    PROVE  \A c \in Keys : EntryStays(c)
  BY DEF TerminalTypeOK, EntryStays

\* A decision changes nothing else.
LEMMA DecidedStays ==
    ASSUME NEW s \in Singletons, NEW kind \in Controls
    PROVE  Decided(s, kind) \in Singletons /\ Decided(s, kind).key = s.key
<1>1. \A d \in Decisions : [s EXCEPT !.decision = d] \in Singletons /\ [s EXCEPT !.decision = d].key = s.key
  BY DEF Singletons
<1> QED
  BY <1>1 DEF Decided, Decisions

\* A control line changes decisions and latches.
LEMMA ControlOwners ==
    ASSUME TerminalTypeOK, NEW k \in Keys, NEW kind \in Controls,
           apply_terminal_control(kind, k) \/ batch_apply_terminal_control(kind, k)
    PROVE  OwnersStay
<1>1. CASE handoffs[k] # None
  <2>1. apply_handoff_control(kind, k)
    BY <1>1 DEF apply_terminal_control, batch_apply_terminal_control
  <2>2. entries' = entries
    BY <2>1 DEF apply_handoff_control
  <2>3. active' = active \/ (active # None /\ active' = Decided(active, kind))
    BY <2>1 DEF apply_handoff_control, Owns
  <2>4. handoffs[k] \in Handoffs
    BY <1>1 DEF TerminalTypeOK
  <2>5. handoffs'[k].admission = handoffs[k].admission /\ handoffs'[k].adopted = handoffs[k].adopted
        /\ \A c \in Keys : c # k => handoffs'[c] = handoffs[c]
    <3> DEFINE old == handoffs[k]
    <3>1. PICK a, s : handoffs' = [handoffs EXCEPT ![k] = IF a THEN [old EXCEPT !.abort_latched = @ \/ kind = "abort", !.singleton = s] ELSE old]
      BY Zenon, <2>1 DEF apply_handoff_control
    <3>2. old \in Handoffs
      BY <2>4
    <3> HIDE DEF old
    <3>3. handoffs'[k] = (IF a THEN [old EXCEPT !.abort_latched = @ \/ kind = "abort", !.singleton = s] ELSE old)
          /\ \A c \in Keys : c # k => handoffs'[c] = handoffs[c]
      BY <3>1 DEF TerminalTypeOK
    <3> QED
      BY <3>2, <3>3 DEF Handoffs, old
  <2>6. \A c \in Keys : HandoffStays(c)
    BY <1>1, <2>5 DEF HandoffStays
  <2> QED
    BY <2>2, <2>3, <2>6, DecidedStays, NoneAssumption DEF OwnersStay, EntryStays, ActiveStays, Owns, TerminalTypeOK
<1>2. CASE handoffs[k] = None /\ apply_terminal_control(kind, k)
  <2>1. UNCHANGED <<entries, handoffs>> /\ (active' = active \/ (active # None /\ active' = Decided(active, kind)))
    BY <1>2 DEF apply_terminal_control, Owns
  <2> QED
    BY <2>1, DecidedStays, NoneAssumption DEF OwnersStay, EntryStays, HandoffStays, ActiveStays, Owns, TerminalTypeOK
<1>3. CASE handoffs[k] = None /\ batch_apply_terminal_control(kind, k)
  <2>1. UNCHANGED <<active, handoffs>>
        /\ entries' = [entries EXCEPT ![k] = IF @ = None THEN None ELSE Latched(@, kind)]
    BY <1>3 DEF batch_apply_terminal_control
  <2>2. ASSUME entries[k] # None
        PROVE  /\ Latched(entries[k], kind) \in Entries
               /\ Latched(entries[k], kind).generation = entries[k].generation
               /\ Latched(entries[k], kind).state = entries[k].state
    <3> DEFINE e == entries[k]
    <3>1. e \in Entries
      BY <2>2 DEF TerminalTypeOK
    <3> HIDE DEF e
    <3> QED
      BY <3>1 DEF Latched, Entries, e
  <2>3. \A c \in Keys : EntryStays(c)
    <3> DEFINE e == IF entries[k] = None THEN None ELSE Latched(entries[k], kind)
    <3>1. e \in Entries \cup {None} /\ entries' = [entries EXCEPT ![k] = e]
      BY <2>1, <2>2 DEF TerminalTypeOK
    <3>2. e # None => /\ entries[k] # None /\ e.generation = entries[k].generation /\ e.state = entries[k].state
      BY <2>2
    <3> HIDE DEF e
    <3> QED
      BY <3>1, <3>2, EntriesStay
  <2> QED
    BY <2>1, <2>3 DEF OwnersStay, HandoffStays, ActiveStays, Owns
<1> QED
  BY <1>1, <1>2, <1>3

\* The calls of main that only mark what they find.
LEMMA MarkOwners ==
    ASSUME TerminalTypeOK, NEW k \in Keys,
           \/ UNCHANGED terminalVars
           \/ \E scope : claim_wire_terminal(k, scope)
           \/ mark_terminal_control_ready(k) \/ TerminalWaitTimesOut(k) \/ DeadlinePasses(k)
           \/ \E g : batch_transition_to_queued(k, g) \/ batch_clear_terminal_at_generation(k, g)
    PROVE  OwnersStay
<1>1. CASE UNCHANGED terminalVars
  BY <1>1 DEF terminalVars, OwnersStay, EntryStays, HandoffStays, ActiveStays, Owns
<1>2. ASSUME NEW s, active # None, s = [active EXCEPT !.ready = TRUE] \/ s = [active EXCEPT !.decision = "Abort"]
                                  \/ s = [active EXCEPT !.terminal_claimed = TRUE]
      PROVE  s \in Singletons /\ s.key = active.key
  <2>1. active \in Singletons
    BY <1>2 DEF TerminalTypeOK
  <2> QED
    BY <1>2, <2>1 DEF Singletons, Decisions
<1>3. ASSUME UNCHANGED entries, UNCHANGED handoffs, active # None,
             \/ active' = [active EXCEPT !.ready = TRUE] \/ active' = [active EXCEPT !.decision = "Abort"]
             \/ active' = [active EXCEPT !.terminal_claimed = TRUE]
      PROVE  OwnersStay
  <2>1. active' \in Singletons /\ active'.key = active.key
    BY <1>2, <1>3
  <2> QED
    BY <1>3, <2>1, NoneAssumption DEF OwnersStay, EntryStays, HandoffStays, ActiveStays, Owns
<1>4. ASSUME UNCHANGED active, UNCHANGED handoffs, \A c \in Keys : EntryStays(c)
      PROVE  OwnersStay
  BY <1>4 DEF OwnersStay, HandoffStays, ActiveStays, Owns
<1>5. ASSUME UNCHANGED active, UNCHANGED handoffs, entries[k] # None,
             \/ entries' = [entries EXCEPT ![k].terminal_claimed = TRUE]
             \/ entries' = [entries EXCEPT ![k].deadline = "passed"]
             \/ entries' = [entries EXCEPT ![k].state = "Queued"]
      PROVE  OwnersStay
  <2> DEFINE old == entries[k]
  <2>1. old \in Entries
    BY <1>5 DEF TerminalTypeOK
  <2>2. PICK e : /\ entries' = [entries EXCEPT ![k] = e]
                 /\ \/ e = [old EXCEPT !.terminal_claimed = TRUE] \/ e = [old EXCEPT !.deadline = "passed"]
                    \/ e = [old EXCEPT !.state = "Queued"]
    BY <1>5 DEF TerminalTypeOK
  <2> HIDE DEF old
  <2>3. e \in Entries /\ e.generation = old.generation /\ (e.state = old.state \/ e.state = "Queued")
    BY <2>1, <2>2 DEF Entries
  <2>4. \A c \in Keys : EntryStays(c)
    BY <1>5, <2>2, <2>3, EntriesStay DEF old, Busy
  <2> QED
    BY <1>4, <1>5, <2>4
<1>6. ASSUME UNCHANGED active, UNCHANGED handoffs, entries' = [entries EXCEPT ![k] = None]
      PROVE  OwnersStay
  BY <1>4, <1>6, EntriesStay
<1>7. ASSUME NEW scope, claim_wire_terminal(k, scope)
      PROVE  OwnersStay
  <2>1. CASE entries[k] # None
    BY <1>5, <1>7, <2>1 DEF claim_wire_terminal
  <2>2. CASE entries[k] = None
    BY <1>3, <1>7, <2>2 DEF claim_wire_terminal, ClaimGranted, SingletonClaimable, Owns
  <2> QED
    BY <2>1, <2>2
<1>8. ASSUME mark_terminal_control_ready(k) \/ TerminalWaitTimesOut(k)
      PROVE  OwnersStay
  BY <1>3, <1>8 DEF mark_terminal_control_ready, TerminalWaitTimesOut, Owns
<1>9. ASSUME DeadlinePasses(k) \/ \E g : batch_transition_to_queued(k, g)
      PROVE  OwnersStay
  BY <1>5, <1>9 DEF DeadlinePasses, batch_transition_to_queued, Queueable, batch_is_current
<1>10. ASSUME NEW g, batch_clear_terminal_at_generation(k, g)
       PROVE  OwnersStay
  BY <1>6, <1>10 DEF batch_clear_terminal_at_generation, batch_clear_terminal
<1> QED
  BY <1>1, <1>7, <1>8, <1>9, <1>10

\* A writer of a terminal claims it or does nothing.
LEMMA WriterOwners ==
    ASSUME TerminalTypeOK, NEW k \in Keys, NEW scope, NEW event,
           WriteTerminal(k, scope, event) \/ WriteCancelled(k, scope)
    PROVE  OwnersStay
<1>1. UNCHANGED terminalVars \/ claim_wire_terminal(k, scope)
  BY DEF WriteTerminal, WriteCancelled
<1> QED
  BY <1>1, MarkOwners

----------------------------------------------------------------------------
(* Outside the driver *)

\* Outside the driver main has nothing to close.
LEMMA NoClosing ==
    ASSUME FlowInv, main.pc \notin {"settle", "sweep", "drain", "publish"}
    PROVE  \A k, g : ~Closing(k, g)
  BY DEF FlowInv, ItemInv, Closing

\* Outside the driver no entry has a lane.
LEMMA IdleEntry ==
    ASSUME ServeInv, main.pc \notin Driver, NEW k \in Keys, EntryOwned(k), entries[k] # None
    PROVE  entries[k].state \notin Busy /\ pending[k] = None
<1>1. pending[k] = None
  BY DEF ServeInv, FlowInv, MainInv
<1>2. k \notin LaneKeys
  BY <1>1 DEF ServeInv, RegistryInv, SchedulerInv, HeldOnce
<1> QED
  BY <1>1, <1>2, NoClosing DEF EntryOwned, ServeInv, Driver

\* Main goes on with the request it serves.
LEMMA SoloOwners ==
    ASSUME ServeInv, OwnerInv, OwnersStay,
           main.pc \in {"route", "admit", "generate"} \cup Sequential,
           main'.pc \in {"admit", "generate", "leave"} \cup Sequential, main'.msg = main.msg,
           main'.pc = "admit" => main.pc = "route" /\ main.msg.transfer = None,
           UNCHANGED <<queue, pending, batch_poisoned>>
    PROVE  OwnerInv'
<1> USE DEF Idle, Driver, Sequential
<1>1. ~batch_poisoned'
  BY DEF OwnerInv, PoisonInv
<1>2. /\ main.pc \notin Idle \cup {"left", "dispatch", "adopt", "adopt_think"}
      /\ main'.pc \notin Idle \cup {"left", "dispatch", "refused"}
  OBVIOUS
<1>3. /\ Mail' = Mail /\ \A k : Handles(k)' <=> Handles(k)
  BY <1>2 DEF Mail, Handles
<1>4. ASSUME NEW k \in Keys PROVE EntryOwned(k)'
  <2>1. EntryOwned(k) /\ EntryStays(k) /\ HandoffStays(k)
    BY DEF OwnerInv, OwnersStay
  <2>2. \A g : Placed(k, g) => Placed(k, g)'
    BY <1>2, <1>3, NoClosing DEF Placed, ServeInv
  <2>3. entries[k] # None => entries[k].state \notin Busy
    BY <2>1, IdleEntry DEF EntryOwned
  <2> QED
    BY <2>1, <2>2, <2>3 DEF EntryOwned, EntryStays, HandoffStays
<1>5. ASSUME NEW k \in Keys PROVE HandoffOwned(k)'
  <2>1. HandoffOwned(k) /\ HandoffStays(k) /\ (Owns(k) => Owns(k)')
    BY DEF OwnerInv, OwnersStay
  <2>2. \A g : Awaited(k, g) => Awaited(k, g)'
    BY <1>2, <1>3 DEF Awaited
  <2>3. Adopting(k) => Adopting(k)'
    BY <1>2, <1>3, <2>1 DEF Adopting
  <2> QED
    BY <2>1, <2>2, <2>3 DEF HandoffOwned, HandoffStays
<1> QED
  BY <1>1, <1>2, <1>4, <1>5 DEF OwnerInv, ActiveInv, PoisonInv

\* The requests main does not handle stay in its queue.
LEMMA OtherOwners ==
    ASSUME ServeInv, OwnerInv, main.pc \notin Idle \cup Driver, NEW c \in Keys, c # Key,
           EntryStays(c), HandoffStays(c), UNCHANGED queue
    PROVE  EntryOwned(c)' /\ HandoffOwned(c)'
<1>1. Mail' = Mail /\ EntryOwned(c) /\ HandoffOwned(c)
  BY DEF Mail, OwnerInv
<1>2. \A g : Generate(c, g, None) # main.msg
  BY DEF Generate, Key
<1>3. ASSUME entries'[c] # None PROVE EntryOwned(c)'
  <2>1. entries[c] # None /\ handoffs[c] = None /\ entries[c].state \notin Busy
    BY <1>1, <1>3, IdleEntry DEF EntryStays, EntryOwned
  <2>2. pending[c] = None /\ ~Closing(c, entries[c].generation)
    BY <1>1, <2>1, IdleEntry, NoClosing DEF ServeInv, Driver
  <2>3. Generate(c, entries[c].generation, None) \in Mail
    BY <1>1, <1>2, <2>1, <2>2 DEF EntryOwned, Placed
  <2> QED
    BY <1>1, <1>3, <2>1, <2>3 DEF EntryStays, HandoffStays, EntryOwned, Placed
<1>4. ASSUME handoffs'[c] # None PROVE HandoffOwned(c)'
  <2>1. ~Adopting(c)
    BY DEF Adopting, Handles, Key
  <2>2. handoffs[c] # None /\ ~handoffs[c].adopted /\ Awaited(c, handoffs[c].admission)
    BY <1>1, <1>4, <2>1 DEF HandoffStays, HandoffOwned
  <2>3. \E m \in Mail : m.key = c /\ Presents(m.transfer, handoffs[c].admission)
    BY <2>2 DEF Awaited
  <2> QED
    BY <1>1, <1>4, <2>2, <2>3 DEF HandoffStays, HandoffOwned, Awaited
<1> QED
  BY <1>3, <1>4 DEF EntryOwned, HandoffOwned

\* The request main handles is not in the queue.
LEMMA OwnMessage ==
    ASSUME ServeInv, main.pc \notin Idle
    PROVE  Key \in Keys /\ (\A m \in Mail : m.key # Key) /\ \A g : Generate(Key, g, None) \notin Mail
<1>1. Key \in Keys /\ \A m \in Mail : m.key # Key
  BY MsgFacts DEF ServeInv, FlowInv, QueueInv, Handles, Key
<1> QED
  BY <1>1 DEF Generate

\* The admission g of k is now a tombstone.
HandedOff(k, g) ==
    /\ entries'[k] = None /\ handoffs'[k] # None
    /\ ~handoffs'[k].adopted /\ handoffs'[k].admission = g
    /\ \A c \in Keys : c # k => EntryStays(c) /\ HandoffStays(c)

\* What a handoff does to the registry, key by key.
LEMMA HandOffFacts ==
    ASSUME TerminalTypeOK, NEW k \in Keys, NEW g, batch_handoff_to_singleton_and_clear(k, g)
    PROVE  HandedOff(k, g)
<1> DEFINE h == [admission |-> g, singleton |-> TransferOf(k).singleton,
                 abort_latched |-> entries[k].abort_latched, adopted |-> FALSE]
<1>1. /\ entries' = [entries EXCEPT ![k] = None] /\ handoffs' = [handoffs EXCEPT ![k] = h]
  BY DEF batch_handoff_to_singleton_and_clear
<1>2. entries[k] \in Entries /\ g = entries[k].generation /\ (Owns(k) => active \in Singletons)
  BY DEF batch_handoff_to_singleton_and_clear, batch_is_current, TerminalTypeOK, Owns
<1>3. h \in Handoffs /\ ~h.adopted /\ h.admission = g
  BY <1>2 DEF TransferOf, Entries, Handoffs
<1> HIDE DEF h
<1> QED
  BY <1>1, <1>3, NoneAssumption DEF TerminalTypeOK, HandedOff, EntryStays, HandoffStays

\* RouteSequential and AdmitThink: the request is handed off, if it can be.
LEMMA HandOffOwners ==
    ASSUME ServeInv, OwnerInv, RouteSequential \/ AdmitThink
    PROVE  OwnerInv'
<1> USE DEF Idle, Driver, Sequential
<1>1. main.pc \in {"route", "admit"} /\ (main.pc = "route" => main.msg.transfer = None)
  BY DEF RouteSequential, AdmitThink, At
<1>2. PICK k \in Keys, g \in Generations : k = Key /\ g = Admission
  BY <1>1, MsgFacts DEF ServeInv
<1>3. /\ TerminalTypeOK /\ main \in MainRecords
      /\ UNCHANGED <<queue, pending, batch_poisoned>> /\ ~batch_poisoned
  BY <1>1 DEF RouteSequential, AdmitThink, HandOff, driverVars, schedulerVars, ServeInv, RegistryInv,
              FlowInv, ThreadTypes, OwnerInv, PoisonInv
<1>4. \/ UNCHANGED terminalVars /\ (main' = Rebound \/ main' = [main EXCEPT !.pc = "generate"])
      \/ /\ batch_is_current(k, g) /\ batch_handoff_to_singleton_and_clear(k, g)
         /\ \E adopting \in {"adopt", "adopt_think"} :
               main' = [main EXCEPT !.pc = adopting, !.item = [act |-> "adopt", key |-> k, transfer |-> TransferOf(k)]]
  BY <1>2 DEF RouteSequential, AdmitThink, HandOff
<1>5. CASE UNCHANGED terminalVars /\ (main' = Rebound \/ main' = [main EXCEPT !.pc = "generate"])
  <2>1. OwnersStay
    BY <1>3, <1>5 DEF terminalVars, OwnersStay, EntryStays, HandoffStays, ActiveStays, Owns
  <2>2. main'.pc = "generate" /\ main'.msg = main.msg
    BY Zenon, <1>3, <1>5 DEF MainRecords, Rebound
  <2> QED
    BY <1>1, <1>3, <2>1, <2>2, SoloOwners
<1>6. CASE /\ batch_is_current(k, g) /\ batch_handoff_to_singleton_and_clear(k, g)
           /\ \E adopting \in {"adopt", "adopt_think"} :
                 main' = [main EXCEPT !.pc = adopting, !.item = [act |-> "adopt", key |-> k, transfer |-> TransferOf(k)]]
  <2>1. entries[k] # None /\ entries[k].generation = g
    BY <1>6 DEF batch_is_current
  <2>2. main'.pc \in {"adopt", "adopt_think"} /\ main'.msg = main.msg /\ main'.item.transfer = TransferOf(k)
    BY <1>3, <1>6 DEF MainRecords
  <2>3. TransferOf(k) # None /\ TransferOf(k).admission = g
    BY <1>3, <1>6, <2>1, TransferType, NoItemAssumption DEF TransferOf
  <2>4. HandedOff(k, g)
    BY <1>3, <1>6, HandOffFacts
  <2>5. Key' = k /\ \A c \in Keys : c # k => c # Key
    BY <1>2, <2>2 DEF Key
  <2>6. Awaited(k, g)'
    BY <2>2, <2>3, <2>5 DEF Awaited, Presents
  <2>7. \A c \in Keys : EntryOwned(c)' /\ HandoffOwned(c)'
    BY <1>1, <1>3, <2>4, <2>5, <2>6, OtherOwners DEF HandedOff, EntryOwned, HandoffOwned
  <2> QED
    BY <1>3, <2>2, <2>7 DEF OwnerInv, ActiveInv, PoisonInv
<1> QED
  BY <1>4, <1>5, <1>6

\* The steps of a request main serves alone that move no owner.
LEMMA ServingOwners ==
    ASSUME ServeInv, OwnerInv,
           \/ RefuseInvalid \/ RouteBatch \/ RouteHandoff \/ AdmitAborted \/ GenerateStart
           \/ SequentialCancel \/ SequentialError \/ SequentialFinish \/ PublishReady
           \/ AwaitDecision \/ AwaitTimeout \/ SequentialTerminal
           \/ AdmitEnqueue /\ UNCHANGED batchVars
    PROVE  OwnerInv'
<1> USE DEF At, Idle, Driver, Sequential, Unstarted, Leaving, Places
<1>1. TerminalTypeOK /\ FlowInv /\ main \in MainRecords
  BY DEF ServeInv, RegistryInv, FlowInv, ThreadTypes
<1>2. /\ main.pc \in {"route", "admit", "generate"} \cup Sequential
      /\ UNCHANGED <<queue, pending, batch_poisoned>>
  BY DEF RefuseInvalid, RouteBatch, RouteHandoff, AdmitAborted, GenerateStart, SequentialCancel,
         SequentialError, SequentialFinish, PublishReady, AwaitDecision, AwaitTimeout,
         SequentialTerminal, AdmitEnqueue, driverVars, schedulerVars, batchVars
<1>3. Key \in Keys
  BY <1>2, OwnMessage
<1>4. \/ \E pc \in {"generate", "leave"} \cup Sequential : Goto(pc)
      \/ main' = Rebound
      \/ main.pc = "route" /\ main.msg.transfer = None /\ Goto("admit")
  <2>1. RouteBatch => main.pc = "route" /\ main.msg.transfer = None /\ Goto("admit")
    BY DEF RouteBatch
  <2>2. RouteHandoff => main' = Rebound
    BY DEF RouteHandoff
  <2>3. \/ RefuseInvalid \/ AdmitAborted \/ SequentialError \/ SequentialTerminal => Goto("leave")
    BY DEF RefuseInvalid, AdmitAborted, SequentialError, SequentialTerminal
  <2>4. GenerateStart \/ SequentialCancel \/ SequentialFinish \/ PublishReady \/ AwaitDecision \/ AwaitTimeout
          => \E pc \in Sequential : Goto(pc)
    BY DEF GenerateStart, SequentialCancel, SequentialFinish, PublishReady, AwaitDecision, AwaitTimeout
  <2>5. AdmitEnqueue /\ UNCHANGED batchVars => Goto("leave")
    <3>1. ASSUME NEW sampling \in Samplings, enqueue(Key, Admission, sampling), UNCHANGED batchVars PROVE FALSE
      <4>1. pending \in [Keys -> Requests \cup {None}] /\ Admission \in Generations
        BY <1>1, <1>2, MsgFacts DEF ServeInv, RegistryInv, SchedulerInv, SchedulerTypeOK
      <4> QED
        BY <1>3, <3>1, <4>1, SchedulerAssumption DEF enqueue, batchVars, schedulerVars, Requests
    <3> QED
      BY <3>1 DEF AdmitEnqueue
  <2> QED
    BY <2>1, <2>2, <2>3, <2>4, <2>5
<1>5. /\ main'.msg = main.msg /\ main'.pc \in {"admit", "generate", "leave"} \cup Sequential
      /\ main'.pc = "admit" => main.pc = "route" /\ main.msg.transfer = None
  <2>1. ASSUME NEW pc \in {"admit", "generate", "leave"} \cup Sequential, Goto(pc)
        PROVE  main'.msg = main.msg /\ main'.pc = pc
    BY <1>1, <2>1, GotoFacts
  <2>2. ASSUME main' = Rebound PROVE main'.msg = main.msg /\ main'.pc = "generate"
    BY Zenon, <1>1, <2>2 DEF Rebound, MainRecords
  <2> QED
    BY <1>4, <2>1, <2>2
<1>6. OwnersStay
  <2>1. RefuseInvalid \/ SequentialError \/ SequentialTerminal \/ AdmitAborted
          => \E scope, event : WriteTerminal(Key, scope, event) \/ WriteCancelled(Key, scope)
    BY DEF RefuseInvalid, SequentialError, SequentialTerminal, AdmitAborted
  <2>2. RouteHandoff \/ GenerateStart \/ SequentialCancel \/ PublishReady \/ AwaitDecision
         \/ (AdmitEnqueue /\ UNCHANGED batchVars) => UNCHANGED terminalVars
    BY DEF RouteHandoff, GenerateStart, SequentialCancel, PublishReady, AwaitDecision, batchVars
  <2>3. RouteBatch => UNCHANGED terminalVars \/ batch_transition_to_queued(Key, Admission)
    BY DEF RouteBatch
  <2>4. SequentialFinish => UNCHANGED terminalVars \/ mark_terminal_control_ready(Key)
    BY DEF SequentialFinish
  <2>5. AwaitTimeout => TerminalWaitTimesOut(Key)
    BY DEF AwaitTimeout
  <2> QED
    BY <1>1, <1>3, <2>1, <2>2, <2>3, <2>4, <2>5, WriterOwners, MarkOwners
<1> QED
  BY <1>2, <1>5, <1>6, SoloOwners

\* What is left to show when only the request main handles has moved.
LEMMA OwnOwners ==
    ASSUME ServeInv, OwnerInv, main.pc \notin Idle \cup Driver, UNCHANGED queue,
           \A c \in Keys : c # Key => EntryStays(c) /\ HandoffStays(c),
           NEW k \in Keys, k = Key, EntryOwned(k)', HandoffOwned(k)', ActiveInv', PoisonInv'
    PROVE  OwnerInv'
<1>1. \A c \in Keys : EntryOwned(c)' /\ HandoffOwned(c)'
  BY OtherOwners
<1> QED
  BY <1>1 DEF OwnerInv

\* A refusal by the poisoned route, and its end.
LEMMA RefusedOwners ==
    ASSUME ServeInv, OwnerInv, RefusePoisoned \/ RetireRefused
    PROVE  OwnerInv'
<1> USE DEF At, Idle, Driver, Places, Leaving
<1>1. TerminalTypeOK /\ FlowInv
  BY DEF ServeInv, RegistryInv
<1>2. main.pc \in {"dispatch", "refused"} /\ UNCHANGED <<queue, pending, batch_poisoned>>
  BY DEF RefusePoisoned, RetireRefused, driverVars, schedulerVars
<1>3. PICK k \in Keys : k = Key
  BY <1>2, OwnMessage
<1>4. CASE RefusePoisoned
  <2>1. batch_poisoned /\ main.pc = "dispatch" /\ OwnersStay
    BY <1>1, <1>3, <1>4, WriterOwners DEF RefusePoisoned
  <2>2. main'.pc = "refused" /\ main'.msg = main.msg
    BY <1>1, <1>4, GotoFacts DEF RefusePoisoned
  <2>3. EntryOwned(k) /\ EntryStays(k) /\ \A c \in Keys : handoffs[c] = None /\ handoffs'[c] = None
    BY <2>1 DEF OwnerInv, OwnersStay, PoisonInv, HandoffStays
  <2>4. \A g : Placed(k, g) => Placed(k, g)'
    BY <1>1, <1>2, <2>1, <2>2, NoClosing DEF Placed, Mail
  <2>5. EntryOwned(k)' /\ HandoffOwned(k)'
    BY <2>1, <2>3, <2>4, IdleEntry DEF EntryOwned, EntryStays, HandoffOwned
  <2>6. ActiveInv' /\ PoisonInv'
    BY <1>2, <2>1, <2>2, <2>3 DEF OwnerInv, OwnersStay, ActiveStays, ActiveInv, PoisonInv
  <2> QED
    BY <1>2, <1>3, <2>1, <2>5, <2>6, OwnOwners DEF OwnersStay
<1>5. CASE RetireRefused
  <2>1. main.pc = "refused" /\ ClearAdmission(Key, Admission)
    BY <1>5 DEF RetireRefused
  <2>2. main'.pc = "recv"
    BY <1>1, <1>5, GotoFacts DEF RetireRefused
  <2>3. OwnersStay
    BY <1>1, <1>3, <2>1, MarkOwners DEF ClearAdmission
  <2>4. EntryOwned(k)'
    <3>1. ASSUME entries[k] # None PROVE entries[k].generation = Admission
      <4>1. \/ Generate(k, entries[k].generation, None) \in Mail \/ main.msg = Generate(k, entries[k].generation, None)
        BY <1>1, <2>1, <3>1, IdleEntry, NoClosing DEF OwnerInv, EntryOwned, Placed
      <4> QED
        BY <1>3, <2>1, <4>1, OwnMessage DEF Generate, Admission
    <3>2. entries'[k] = None
      BY <1>1, <1>3, <2>1, <3>1 DEF ClearAdmission, batch_is_current, batch_clear_terminal_at_generation,
                              batch_clear_terminal, terminalVars, TerminalTypeOK
    <3> QED
      BY <3>2 DEF EntryOwned
  <2>5. HandoffOwned(k)'
    <3>1. ~Awaited(k, handoffs[k].admission) /\ ~Adopting(k)
      BY <1>3, <2>1, OwnMessage DEF Awaited, Adopting, Sequential
    <3>2. handoffs'[k] = None
      BY <2>3, <3>1 DEF OwnerInv, HandoffOwned, OwnersStay, HandoffStays
    <3> QED
      BY <3>2 DEF HandoffOwned
  <2>6. ActiveInv' /\ PoisonInv'
    BY <1>2, <2>1, <2>2, <2>3 DEF OwnerInv, OwnersStay, ActiveStays, ActiveInv, PoisonInv, HandoffStays
  <2> QED
    BY <1>2, <1>3, <2>1, <2>3, <2>4, <2>5, <2>6, OwnOwners DEF OwnersStay
<1> QED
  BY <1>4, <1>5

\* What main knows of the request it handles: the entry is of its admission,
\* and a tombstone is one it is to adopt or has adopted.
LEMMA OwnFacts ==
    ASSUME ServeInv, OwnerInv, main.pc \notin Idle \cup Driver, NEW k \in Keys, k = Key
    PROVE  /\ entries[k] # None =>
                 /\ main.msg = Generate(k, entries[k].generation, None)
                 /\ entries[k].generation = Admission /\ main.msg.transfer = None
                 /\ entries[k].state \notin Busy /\ handoffs[k] = None /\ main.pc # "left"
           /\ handoffs[k] # None =>
                 \/ handoffs[k].adopted /\ Adopting(k)
                 \/ /\ ~handoffs[k].adopted
                    /\ \/ main.pc = "dispatch" /\ Presents(main.msg.transfer, handoffs[k].admission)
                       \/ /\ main.pc \in {"adopt", "adopt_think"}
                          /\ Presents(main.item.transfer, handoffs[k].admission)
<1>1. EntryOwned(k) /\ HandoffOwned(k)
  BY DEF OwnerInv
<1>2. (\A m \in Mail : m.key # k) /\ \A g : Generate(k, g, None) \notin Mail
  BY OwnMessage
<1>3. ASSUME entries[k] # None
      PROVE  /\ main.msg = Generate(k, entries[k].generation, None)
             /\ entries[k].generation = Admission /\ main.msg.transfer = None
             /\ entries[k].state \notin Busy /\ handoffs[k] = None /\ main.pc # "left"
  <2>1. main.pc # "left" /\ main.msg = Generate(k, entries[k].generation, None)
    BY <1>1, <1>2, <1>3, IdleEntry, NoClosing DEF EntryOwned, Placed, ServeInv, Driver
  <2> QED
    BY <1>1, <1>3, <2>1, IdleEntry DEF Generate, Admission, EntryOwned
<1>4. handoffs[k] # None /\ ~handoffs[k].adopted =>
                    \/ main.pc = "dispatch" /\ Presents(main.msg.transfer, handoffs[k].admission)
                    \/ /\ main.pc \in {"adopt", "adopt_think"}
                       /\ Presents(main.item.transfer, handoffs[k].admission)
  BY <1>1, <1>2 DEF HandoffOwned, Awaited
<1> QED
  BY <1>1, <1>3, <1>4 DEF HandoffOwned

\* A fresh singleton for the request main has received.
LEMMA ActivateOwners ==
    ASSUME ServeInv, OwnerInv, Activate
    PROVE  OwnerInv'
<1> USE DEF At, Idle, Driver, Sequential
<1>1. /\ main.pc = "dispatch" /\ ~batch_poisoned /\ main.msg.transfer = None
      /\ UNCHANGED <<queue, pending, batch_poisoned>> /\ main \in MainRecords
  BY DEF Activate, driverVars, schedulerVars, ServeInv, FlowInv, ThreadTypes
<1>2. PICK k \in Keys : k = Key
  BY <1>1, OwnMessage
<1>3. UNCHANGED <<entries, handoffs>>
  BY DEF Activate, activate_terminal_control, terminalVars
<1>4. main'.pc = "route" /\ main'.msg = main.msg
  BY <1>1 DEF Activate, MainRecords
<1>5. EntryOwned(k)'
  <2>1. entries[k] # None => Placed(k, entries[k].generation)'
    BY <1>1, <1>2, <1>3, <1>4, OwnFacts DEF Placed
  <2> QED
    BY <1>1, <1>2, <1>3, <2>1, OwnFacts DEF EntryOwned
<1>6. HandoffOwned(k)'
  BY <1>1, <1>2, <1>3, OwnFacts DEF HandoffOwned, Presents, Adopting
<1>7. ActiveInv' /\ PoisonInv'
  BY <1>1, <1>4 DEF ActiveInv, PoisonInv
<1> QED
  BY <1>1, <1>2, <1>3, <1>5, <1>6, <1>7, OwnOwners DEF EntryStays, HandoffStays

\* Adoption marks the tombstone.
LEMMA AdoptedTombstone ==
    ASSUME TerminalTypeOK, NEW t \in transfers, adopt_singleton_transfer(t), NEW k \in Keys, k = t.key
    PROVE  handoffs[k] # None /\ handoffs'[k].adopted /\ \A c \in Keys : c # k => handoffs'[c] = handoffs[c]
<1> DEFINE s == Adopted(t, terminal_next + 1)
<1>1. handoffs[k] # None /\ handoffs[k] \in Handoffs
  BY DEF adopt_singleton_transfer, Adoptable, TerminalTypeOK
<1>2. handoffs' = [handoffs EXCEPT ![k] = [handoffs[k] EXCEPT !.singleton = s, !.adopted = TRUE]]
  BY Zenon DEF adopt_singleton_transfer
<1> HIDE DEF s
<1>3. [handoffs[k] EXCEPT !.singleton = s, !.adopted = TRUE].adopted
  BY <1>1 DEF Handoffs
<1> QED
  BY <1>1, <1>2, <1>3 DEF TerminalTypeOK

\* The request's own tombstone is adopted.
LEMMA AdoptedOwners ==
    ASSUME ServeInv, OwnerInv, main.pc \notin Idle \cup Driver, UNCHANGED <<queue, pending>>,
           NEW t \in transfers, t.key = Key, adopt_singleton_transfer(t), active' # None,
           main'.msg = main.msg,
           main'.pc = "generate" \/ (main'.pc = "route" /\ main.msg.transfer # None), ~batch_poisoned'
    PROVE  OwnerInv'
<1> USE DEF Idle, Driver, Sequential
<1>1. TerminalTypeOK
  BY DEF ServeInv, RegistryInv
<1>2. PICK k \in Keys : k = Key
  BY OwnMessage
<1>3. handoffs[k] # None /\ handoffs[k] \in Handoffs /\ UNCHANGED entries
  BY <1>1, <1>2 DEF adopt_singleton_transfer, Adoptable, TerminalTypeOK
<1>4. Owns(k)'
  BY <1>2 DEF adopt_singleton_transfer, Owns
<1>5. /\ handoffs'[k].adopted /\ \A c \in Keys : c # k => handoffs'[c] = handoffs[c]
  BY <1>1, <1>2, AdoptedTombstone
<1>6. EntryOwned(k)'
  BY <1>2, <1>3, OwnFacts DEF EntryOwned
<1>7. HandoffOwned(k)'
  BY <1>2, <1>4, <1>5 DEF HandoffOwned, Adopting, Handles, Key
<1>8. ActiveInv' /\ PoisonInv'
  BY DEF ActiveInv, PoisonInv
<1> QED
  BY <1>2, <1>3, <1>5, <1>6, <1>7, <1>8, OwnOwners DEF EntryStays, HandoffStays

\* AdoptOwn, AdoptThink and AdoptHandoff: the request presents its token.
LEMMA AdoptOwners ==
    ASSUME ServeInv, OwnerInv, AdoptOwn \/ AdoptThink \/ AdoptHandoff,
           \A t \in transfers : adopt_singleton_transfer(t) => active' # None
    PROVE  OwnerInv'
<1> USE DEF At, Idle, Driver, Places
<1>1. /\ main.pc \in {"dispatch", "adopt", "adopt_think"} /\ FlowInv /\ main \in MainRecords
      /\ UNCHANGED <<queue, pending, batch_poisoned>> /\ ~batch_poisoned
  BY DEF AdoptOwn, AdoptThink, AdoptHandoff, driverVars, schedulerVars, ServeInv, FlowInv, ThreadTypes,
         OwnerInv, PoisonInv
<1>2. PICK k \in Keys : k = Key
  BY <1>1, OwnMessage
<1>3. CASE AdoptOwn \/ AdoptThink
  <2>1. main.item.transfer \in transfers /\ main.item.transfer.key = Key
    BY <1>1, <1>3 DEF FlowInv, ItemInv, TokenInv, Minted, AdoptOwn, AdoptThink
  <2>2. adopt_singleton_transfer(main.item.transfer)
    BY <1>3 DEF AdoptOwn, AdoptThink
  <2>3. main'.pc = "generate" /\ main'.msg = main.msg
    BY Zenon, <1>1, <1>3 DEF AdoptOwn, AdoptThink, Rebound, MainRecords
  <2>4. active' # None
    BY <2>1, <2>2
  <2>5. PICK t \in transfers : t = main.item.transfer
    BY <2>1
  <2>6. adopt_singleton_transfer(t) /\ t.key = Key
    BY <2>1, <2>2, <2>5
  <2> QED
    BY <1>1, <2>3, <2>4, <2>6, AdoptedOwners
<1>4. CASE AdoptHandoff /\ Adoptable(main.msg.transfer)
  <2>1. /\ adopt_singleton_transfer(main.msg.transfer) /\ main.pc = "dispatch" /\ main.msg.transfer # None
        /\ Goto("route")
    BY <1>4 DEF AdoptHandoff
  <2>2. main.msg.transfer \in transfers /\ main.msg.transfer.key = Key
    BY <1>1, <2>1, MsgFacts
  <2>3. main'.pc = "route" /\ main'.msg = main.msg
    BY <1>1, <2>1, GotoFacts DEF Unstarted
  <2>4. active' # None
    BY <2>1, <2>2
  <2> QED
    BY <1>1, <2>1, <2>2, <2>3, <2>4, AdoptedOwners
<1>5. CASE AdoptHandoff /\ ~Adoptable(main.msg.transfer)
  <2>1. /\ UNCHANGED terminalVars /\ main.pc = "dispatch" /\ main.msg.transfer # None /\ Goto("recv")
    BY <1>5 DEF AdoptHandoff
  <2>2. main.msg.transfer.key = k
    BY <1>1, <1>2, <2>1, MsgFacts
  <2>3. main'.pc = "recv"
    BY <1>1, <2>1, GotoFacts
  <2>4. entries[k] = None /\ handoffs[k] = None
    BY <1>2, <1>5, <2>1, <2>2, OwnFacts DEF Adoptable, Presents, Adopting, Sequential
  <2>5. EntryOwned(k)' /\ HandoffOwned(k)'
    BY <2>1, <2>4 DEF EntryOwned, HandoffOwned, terminalVars
  <2>6. ActiveInv' /\ PoisonInv'
    BY <1>1, <2>1 DEF OwnerInv, ActiveInv, PoisonInv, terminalVars
  <2> QED
    BY <1>1, <1>2, <2>1, <2>5, <2>6, OwnOwners DEF EntryStays, HandoffStays, terminalVars
<1> QED
  BY <1>3, <1>4, <1>5

\* The request enters the scheduler, or is refused by it.
LEMMA AdmitOwners ==
    ASSUME ServeInv, OwnerInv, AdmitEnqueue
    PROVE  OwnerInv'
<1> USE DEF At, Idle, Driver, Places
<1>1. main.pc = "admit" /\ UNCHANGED <<queue, batch_poisoned>> /\ FlowInv /\ ~batch_poisoned
  BY DEF AdmitEnqueue, driverVars, ServeInv, OwnerInv, PoisonInv
<1>2. PICK k \in Keys : k = Key
  BY <1>1, OwnMessage
<1>3. CASE UNCHANGED batchVars
  BY <1>3, ServingOwners
<1>4. CASE \E sampling \in Samplings : enqueue(k, Admission, sampling) /\ Goto("poll")
  <2>1. UNCHANGED <<entries, handoffs>>
    BY <1>4 DEF enqueue, terminalVars
  <2>2. main'.pc = "poll" /\ main'.msg = main.msg
    BY <1>1, <1>4, GotoFacts
  <2>3. entries[k] # None => Placed(k, entries[k].generation)'
    BY <1>1, <1>2, <2>1, <2>2, OwnFacts DEF Placed
  <2>4. EntryOwned(k)' /\ HandoffOwned(k)'
    BY <1>1, <1>2, <2>1, <2>3, OwnFacts DEF EntryOwned, HandoffOwned, Adopting, Sequential
  <2>5. ActiveInv' /\ PoisonInv'
    BY <1>1, <2>2 DEF ActiveInv, PoisonInv
  <2> QED
    BY <1>1, <1>2, <2>1, <2>4, <2>5, OwnOwners DEF EntryStays, HandoffStays
<1> QED
  BY <1>2, <1>3, <1>4 DEF AdmitEnqueue

\* The drop guards at the end of the generate arm.
LEMMA LeaveOwners ==
    ASSUME ServeInv, OwnerInv, Leave \/ Left
    PROVE  OwnerInv'
<1> USE DEF At, Idle, Driver, Places, Leaving
<1>1. main.pc \in {"leave", "left"} /\ UNCHANGED <<queue, batch_poisoned>> /\ FlowInv /\ TerminalTypeOK
  BY DEF Leave, Left, driverVars, ServeInv, RegistryInv
<1>2. PICK k \in Keys : k = Key
  BY <1>1, OwnMessage
<1>3. CASE Leave
  <2>1. /\ main.pc = "leave" /\ Goto("left")
        /\ IF main.msg.transfer = None THEN ClearAdmission(k, Admission) ELSE UNCHANGED terminalVars
    BY <1>2, <1>3 DEF Leave
  <2>2. main'.pc = "left" /\ main'.msg = main.msg
    BY <1>1, <2>1, GotoFacts
  <2>3. OwnersStay
    BY <1>1, <2>1, MarkOwners DEF ClearAdmission
  <2>4. entries'[k] = None
    <3>1. entries[k] # None => batch_is_current(k, Admission) /\ main.msg.transfer = None
      BY <1>1, <1>2, OwnFacts DEF batch_is_current
    <3> QED
      BY <1>1, <2>1, <3>1 DEF ClearAdmission, batch_clear_terminal_at_generation, batch_clear_terminal,
                         batch_is_current, terminalVars, TerminalTypeOK
  <2>5. Adopting(k) => Adopting(k)'
    BY <2>1, <2>2, <2>3 DEF Adopting, OwnersStay, Handles
  <2>6. EntryOwned(k)' /\ HandoffOwned(k)'
    <3>1. handoffs[k] # None => handoffs[k].adopted /\ Adopting(k)
      BY <1>2, <2>1, OwnFacts
    <3> QED
      BY <2>3, <2>4, <2>5, <3>1 DEF OwnersStay, HandoffStays, EntryOwned, HandoffOwned
  <2>7. ActiveInv' /\ PoisonInv'
    BY <1>1, <2>2, <2>3 DEF OwnerInv, ActiveInv, PoisonInv, OwnersStay, HandoffStays
  <2> QED
    BY <1>1, <1>2, <2>3, <2>6, <2>7, OwnOwners DEF OwnersStay
<1>4. CASE Left
  <2>1. /\ main.pc = "left" /\ Goto("recv")
        /\ IF active # None THEN clear_terminal_control ELSE UNCHANGED terminalVars
    BY <1>4 DEF Left
  <2>2. main'.pc = "recv"
    BY <1>1, <2>1, GotoFacts
  <2>3. UNCHANGED entries /\ active' = None /\ \A c \in Keys : handoffs'[c] = handoffs[c] \/ handoffs'[c] = None
    BY <1>1, <2>1 DEF clear_terminal_control, terminalVars, TerminalTypeOK, Singletons
  <2>4. handoffs'[k] = None
    <3>1. handoffs[k] # None => handoffs[k].adopted /\ Owns(k)
      BY <1>2, <2>1, OwnFacts DEF Adopting
    <3> QED
      BY <1>1, <2>1, <3>1 DEF clear_terminal_control, terminalVars, TerminalTypeOK, Owns
  <2>5. entries'[k] = None
    BY <1>2, <2>1, <2>3, OwnFacts
  <2>6. EntryOwned(k)' /\ HandoffOwned(k)'
    BY <2>4, <2>5 DEF EntryOwned, HandoffOwned
  <2>7. ActiveInv' /\ PoisonInv'
    BY <1>1, <2>2, <2>3 DEF OwnerInv, ActiveInv, PoisonInv
  <2> QED
    BY <1>1, <1>2, <2>3, <2>6, <2>7, OwnOwners DEF EntryStays, HandoffStays
<1> QED
  BY <1>3, <1>4

\* The registry is emptied: by a reset, or with the route that is poisoned.
LEMMA ClearedOwners ==
    ASSUME \A k \in Keys : entries'[k] = None /\ handoffs'[k] = None, ActiveInv',
           batch_poisoned' => main'.pc \in {"recv", "leave"}
    PROVE  OwnerInv'
  BY DEF OwnerInv, EntryOwned, HandoffOwned, PoisonInv, Idle

\* Poisoning clears the registry under everyone.
LEMMA PoisonOwners ==
    ASSUME ServeInv, OwnerInv, Poison
    PROVE  OwnerInv'
<1>1. main'.pc = "leave"
  BY GotoFacts DEF Poison, ServeInv, Places, Leaving
<1>2. \A k \in Keys : entries'[k] = None /\ handoffs'[k] = None
  BY DEF Poison, batch_clear_all_terminals
<1> QED
  BY <1>1, <1>2, ClearedOwners DEF ActiveInv, Idle

\* When main waits, every owner is in its queue.
LEMMA IdleOwners ==
    ASSUME ServeInv, OwnerInv, main.pc \in Idle, NEW k \in Keys
    PROVE  /\ entries[k] # None =>
                 /\ Generate(k, entries[k].generation, None) \in Mail
                 /\ entries[k].state \notin Busy /\ handoffs[k] = None
           /\ handoffs[k] # None =>
                 /\ ~handoffs[k].adopted
                 /\ \E m \in Mail : m.key = k /\ Presents(m.transfer, handoffs[k].admission)
<1> USE DEF Idle, Driver
<1>1. EntryOwned(k) /\ HandoffOwned(k)
  BY DEF OwnerInv
<1>2. ASSUME entries[k] # None
      PROVE  /\ Generate(k, entries[k].generation, None) \in Mail
             /\ entries[k].state \notin Busy /\ handoffs[k] = None
  BY <1>1, <1>2, IdleEntry, NoClosing DEF EntryOwned, Placed, ServeInv
<1>3. ASSUME handoffs[k] # None
      PROVE  /\ ~handoffs[k].adopted
             /\ \E m \in Mail : m.key = k /\ Presents(m.transfer, handoffs[k].admission)
  BY <1>1, <1>3 DEF HandoffOwned, Adopting, Awaited, Sequential
<1> QED
  BY <1>2, <1>3

\* Main takes a message with what its request owns.
LEMMA RecvOwners ==
    ASSUME ServeInv, OwnerInv, Recv
    PROVE  OwnerInv'
<1> USE DEF Idle
<1>1. /\ main.pc = "recv" /\ queue # <<>> /\ queue' = Tail(queue) /\ FlowInv
      /\ UNCHANGED <<entries, handoffs, active, pending, batch_poisoned>>
  BY DEF Recv, At, batchVars, terminalVars, schedulerVars, driverVars, ServeInv
<1>2. /\ main'.pc = IF Head(queue).type = "reset" THEN "reset" ELSE "dispatch"
      /\ main'.msg = Head(queue)
  BY DEF Recv
<1>3. /\ \A m \in Mail : m \in Mail' \/ m = main'.msg
      /\ \A m \in Mail : m.type = "generate"
  BY <1>1, <1>2, TakenMessage DEF Mail, Generates
<1>4. ASSUME NEW k \in Keys PROVE EntryOwned(k)'
  <2>1. ASSUME entries[k] # None
        PROVE  Placed(k, entries[k].generation)'
    <3>1. Generate(k, entries[k].generation, None) \in Mail
      BY <1>1, <2>1, IdleOwners
    <3>2. CASE Generate(k, entries[k].generation, None) \in Mail'
      BY <1>1, <3>2 DEF Placed
    <3>3. CASE Generate(k, entries[k].generation, None) = main'.msg
      <4>1. main'.pc = "dispatch"
        BY <1>2, <1>3, <3>1, <3>3
      <4> QED
        BY <1>1, <3>3, <4>1 DEF Placed
    <3> QED
      BY <1>3, <3>1, <3>2, <3>3
  <2> QED
    BY <1>1, <2>1, IdleOwners DEF EntryOwned
<1>5. ASSUME NEW k \in Keys PROVE HandoffOwned(k)'
  <2>1. ASSUME handoffs[k] # None
        PROVE  Awaited(k, handoffs[k].admission)'
    <3>1. PICK m \in Mail : m.key = k /\ Presents(m.transfer, handoffs[k].admission)
      BY <1>1, <2>1, IdleOwners
    <3>2. CASE m \in Mail'
      BY <1>1, <3>1, <3>2 DEF Awaited
    <3>3. CASE m = main'.msg
      <4>1. main'.pc = "dispatch"
        BY <1>2, <1>3, <3>1, <3>3
      <4> QED
        BY <1>1, <3>1, <3>3, <4>1 DEF Awaited, Key
    <3> QED
      BY <1>3, <3>1, <3>2, <3>3
  <2> QED
    BY <1>1, <2>1, IdleOwners DEF HandoffOwned
<1>6. ActiveInv' /\ PoisonInv'
  BY <1>1, <1>2 DEF OwnerInv, ActiveInv, PoisonInv
<1> QED
  BY <1>4, <1>5, <1>6 DEF OwnerInv

\* A reset clears the registry or leaves it alone.
LEMMA ResetOwners ==
    ASSUME ServeInv, OwnerInv, HandleReset
    PROVE  OwnerInv'
<1> USE DEF Idle, Places
<1>1. main.pc = "reset" /\ main'.pc = "recv" /\ UNCHANGED <<queue, batch_poisoned>> /\ Mail' = Mail
  BY GotoFacts DEF HandleReset, At, driverVars, ServeInv, Mail
<1>2. active = None /\ active' = None
  BY <1>1 DEF HandleReset, batch_clear_all_terminals, batchVars, terminalVars, OwnerInv, ActiveInv
<1>3. CASE \A k \in Keys : entries'[k] = None /\ handoffs'[k] = None
  BY <1>1, <1>2, <1>3, ClearedOwners DEF ActiveInv
<1>4. CASE UNCHANGED batchVars
  <2>1. UNCHANGED <<entries, handoffs>>
    BY <1>4 DEF batchVars, terminalVars
  <2>2. ASSUME NEW k \in Keys PROVE EntryOwned(k)' /\ HandoffOwned(k)'
    <3>1. /\ entries[k] # None =>
                 /\ Generate(k, entries[k].generation, None) \in Mail
                 /\ entries[k].state \notin Busy /\ handoffs[k] = None
          /\ handoffs[k] # None =>
                 /\ ~handoffs[k].adopted
                 /\ \E m \in Mail : m.key = k /\ Presents(m.transfer, handoffs[k].admission)
      BY <1>1, IdleOwners
    <3>2. EntryOwned(k)'
      BY <1>1, <2>1, <3>1 DEF EntryOwned, Placed
    <3>3. HandoffOwned(k)'
      BY <1>1, <2>1, <3>1 DEF HandoffOwned, Awaited
    <3> QED
      BY <3>2, <3>3
  <2>3. ActiveInv' /\ PoisonInv'
    BY <1>1, <1>2, <2>1 DEF OwnerInv, ActiveInv, PoisonInv
  <2> QED
    BY <2>2, <2>3 DEF OwnerInv
<1> QED
  BY <1>3, <1>4 DEF HandleReset, batch_clear_all_terminals

----------------------------------------------------------------------------
(* In the driver *)

\* Main stays in the driver or leaves it, with the request it came with.
Drives ==
    /\ main.pc \in Driver /\ main'.pc \in Driver \cup {"leave", "poison"} /\ main'.msg = main.msg
    /\ UNCHANGED batch_poisoned

\* The request of k keeps its places.
StaysPlaced(k) ==
    /\ \A m \in Mail : m.key = k => m \in Mail'
    /\ pending[k] # None => pending'[k] # None
    /\ k \in LaneKeys => k \in LaneKeys'
    /\ \A g : entries'[k] # None /\ entries[k].generation = g /\ Closing(k, g) => Closing(k, g)'

\* In the driver every tombstone waits in the queue.
LEMMA DriverTombstones ==
    ASSUME OwnerInv, main.pc \in Driver, NEW k \in Keys, handoffs[k] # None
    PROVE  /\ ~handoffs[k].adopted
           /\ \E m \in Mail : m.key = k /\ Presents(m.transfer, handoffs[k].admission)
<1>1. HandoffOwned(k)
  BY DEF OwnerInv
<1> QED
  BY <1>1 DEF HandoffOwned, Adopting, Awaited, Driver, Sequential

\* A request the step leaves where it is.
LEMMA DriverKeeps1 ==
    ASSUME OwnerInv, Drives, NEW k \in Keys, EntryStays(k), HandoffStays(k), StaysPlaced(k)
    PROVE  EntryOwned(k)' /\ HandoffOwned(k)'
<1>1. EntryOwned(k)
  BY DEF OwnerInv
<1>2. \A g : entries'[k] # None /\ entries[k].generation = g /\ Placed(k, g) => Placed(k, g)'
  <2>1. \A g : Generate(k, g, None) \in Mail => Generate(k, g, None) \in Mail'
    BY DEF StaysPlaced, Generate
  <2>2. main.pc \notin Idle \cup {"left"} /\ main'.pc \notin Idle \cup {"left"} /\ main'.msg = main.msg
    BY DEF Drives, Driver, Idle
  <2> QED
    BY <2>1, <2>2 DEF StaysPlaced, Placed
<1>3. EntryOwned(k)'
  BY <1>1, <1>2 DEF EntryOwned, EntryStays, HandoffStays, StaysPlaced
<1>4. HandoffOwned(k)'
  <2>1. ASSUME handoffs'[k] # None
        PROVE  ~handoffs'[k].adopted /\ Awaited(k, handoffs[k].admission)'
    <3>1. /\ handoffs[k] # None /\ handoffs'[k].admission = handoffs[k].admission
          /\ handoffs'[k].adopted = handoffs[k].adopted
      BY <2>1 DEF HandoffStays
    <3>2. PICK m \in Mail : m.key = k /\ Presents(m.transfer, handoffs[k].admission)
      BY <3>1, DriverTombstones DEF Drives
    <3>3. m \in Mail'
      BY <3>2 DEF StaysPlaced
    <3> QED
      BY <3>1, <3>2, <3>3, DriverTombstones DEF Drives, Awaited
  <2> QED
    BY <2>1 DEF HandoffOwned
<1> QED
  BY <1>3, <1>4

\* What is left to show when the driver has moved one request.
LEMMA DriveOwners ==
    ASSUME OwnerInv, Drives, \A k \in Keys : EntryOwned(k)' /\ HandoffOwned(k)'
    PROVE  OwnerInv'
<1>1. ~batch_poisoned'
  BY DEF OwnerInv, PoisonInv, Drives, Driver, Idle
<1>2. main'.pc \notin Idle \cup {"dispatch", "refused"}
  BY DEF Drives, Driver, Idle
<1> QED
  BY <1>1, <1>2 DEF OwnerInv, ActiveInv, PoisonInv

\* A step that moves no owner.
LEMMA StillOwners ==
    ASSUME OwnerInv, Drives, \A k \in Keys : EntryStays(k) /\ HandoffStays(k),
           UNCHANGED <<queue, pending, lanes>>, \A k, g : Closing(k, g) => Closing(k, g)'
    PROVE  OwnerInv'
<1>1. \A k \in Keys : StaysPlaced(k)
  BY DEF StaysPlaced, Mail, LaneKeys, Occupied
<1> QED
  BY <1>1, DriverKeeps1, DriveOwners

\* The turns of the driver, and the making of its lists.
LEMMA TurnOwners ==
    ASSUME ServeInv, OwnerInv,
           \/ Poll \/ Sweep \/ SweepDone \/ DrainBarrier \/ DrainEmpty \/ AssignDone \/ Decode
           \/ PublishDone \/ DriveFails
    PROVE  OwnerInv'
<1> USE DEF At, Driver, Leaving, Places
<1>1. FlowInv
  BY DEF ServeInv
<1>2. UNCHANGED batchVars /\ UNCHANGED <<queue, batch_poisoned>>
  BY DEF Poll, Sweep, SweepDone, DrainBarrier, DrainEmpty, AssignDone, Decode, PublishDone, DriveFails, driverVars
<1>3. main.pc \in Driver
  <2>1. Poll \/ Sweep \/ SweepDone \/ DrainBarrier \/ DrainEmpty \/ AssignDone \/ Decode \/ PublishDone => main.pc \in Driver
    BY DEF Poll, Sweep, SweepDone, DrainBarrier, Draining, DrainEmpty, AssignDone, Decode, PublishDone
  <2>2. DriveFails => main.pc \in Driver
    BY DEF DriveFails, CallsGpu
  <2> QED
    BY <2>1, <2>2
<1>4. PICK pc \in Driver \cup {"leave"} : Goto(pc)
  <2>1. Poll \/ Sweep \/ SweepDone \/ DrainEmpty \/ Decode \/ PublishDone \/ DriveFails => \E pc \in Driver : Goto(pc)
    BY DEF Poll, Sweep, SweepDone, DrainEmpty, Decode, PublishDone, DriveFails
  <2>2. DrainBarrier \/ AssignDone => \E pc \in Driver \cup {"leave"} : Goto(pc)
    BY DEF DrainBarrier, AssignDone, AfterBarrier
  <2> QED
    BY <2>1, <2>2
<1>5. main'.pc = pc /\ main'.msg = main.msg /\ main'.item = main.item
  BY <1>1, <1>4, GotoFacts
<1>6. Drives /\ \A k, g : Closing(k, g) => Closing(k, g)'
  BY <1>2, <1>3, <1>5 DEF Drives, Closing
<1>7. \A k \in Keys : EntryStays(k) /\ HandoffStays(k)
  BY <1>2 DEF batchVars, terminalVars, EntryStays, HandoffStays
<1> QED
  BY <1>2, <1>6, <1>7, StillOwners DEF batchVars, schedulerVars

\* The steps that only write, or take up what they write for.
LEMMA WriteOwners ==
    ASSUME ServeInv, OwnerInv,
           \/ CancelItem \/ FailItem \/ AnnounceReady \/ DoneItem
           \/ CommitItem /\ UNCHANGED schedulerVars
    PROVE  OwnerInv'
<1> USE DEF Driver
<1>1. FlowInv /\ TerminalTypeOK /\ main \in MainRecords
  BY DEF ServeInv, RegistryInv, FlowInv, ThreadTypes
<1>2. UNCHANGED <<queue, pending, lanes, batch_poisoned>>
  BY DEF CancelItem, FailItem, AnnounceReady, DoneItem, CommitItem, schedulerVars, driverVars, batchVars
<1>3. CASE CancelItem \/ FailItem \/ (CommitItem /\ UNCHANGED schedulerVars)
  <2> DEFINE w == Head(work)
  <2>1. main.item = None /\ work # <<>>
    BY <1>3 DEF CancelItem, FailItem, CommitItem, Head_is
  <2>2. w.key \in Keys /\ main.pc \in {"settle", "sweep", "publish", "fail"}
    BY <2>1, HeadFacts
  <2>3. \A k, g : ~Closing(k, g)
    BY <2>1 DEF Closing
  <2>4. \/ UNCHANGED terminalVars
        \/ \E scope, event : WriteTerminal(w.key, scope, event)
    BY ZenonT(30), <1>3 DEF CancelItem, FailItem, CommitItem, commit_lane_retain_terminal
  <2>5. OwnersStay
    BY Zenon, <1>1, <2>2, <2>4, WriterOwners, MarkOwners
  <2>6. main' = main \/ \E act \in {"retire", "done"} : Take(act)
    BY Zenon, <1>3 DEF CancelItem, FailItem, CommitItem
  <2>7. main'.pc = main.pc /\ main'.msg = main.msg
    BY <2>1, <2>6, TakeFacts
  <2>8. Drives
    BY <1>2, <2>2, <2>7 DEF Drives
  <2> QED
    BY <1>2, <2>3, <2>5, <2>8, StillOwners DEF OwnersStay
<1>4. CASE AnnounceReady \/ DoneItem
  <2>1. main.item # None /\ main.item.act \in {"announce", "done"}
    BY <1>4 DEF AnnounceReady, DoneItem, Item_is
  <2>2. main.pc \in Driver /\ main.item \in OpenItems /\ main.item.key \in Keys
    <3>1. main.pc \in Driver
      BY <1>1, <2>1 DEF FlowInv, ItemInv
    <3> QED
      BY <1>1, <3>1, <2>1, EmptyHanded DEF OpenItems
  <2>3. \/ main' = [main EXCEPT !.item = None] /\ main.item.act = "announce"
        \/ main' = [main EXCEPT !.item.act = "clear"]
    BY <1>4 DEF AnnounceReady, DoneItem, Item_is
  <2>4. main'.pc = main.pc /\ main'.msg = main.msg
        /\ (main.item.act = "announce" \/ (main'.item # None /\ main'.item.act = "clear"
              /\ main'.item.key = main.item.key /\ main'.item.admission = main.item.admission))
    <3> DEFINE i == [main.item EXCEPT !.act = "clear"]
    <3>1. i \in OpenItems /\ i.act = "clear" /\ i.key = main.item.key /\ i.admission = main.item.admission
      BY <2>2 DEF OpenItems
    <3>2. i # None
      BY <3>1, NoItemAssumption
    <3>3. main.item.act = "announce" \/ main' = [main EXCEPT !.item = i]
      BY <2>3
    <3> HIDE DEF i
    <3>4. main'.pc = main.pc /\ main'.msg = main.msg
      BY <1>1, <2>3 DEF MainRecords
    <3>5. main.item.act = "announce" \/ main'.item = i
      BY <1>1, <3>3 DEF MainRecords
    <3> QED
      BY <3>1, <3>2, <3>4, <3>5
  <2>5. \A k, g : Closing(k, g) => Closing(k, g)'
    BY <2>4 DEF Closing
  <2>6. OwnersStay
    <3>1. UNCHANGED terminalVars \/ \E scope, event : WriteTerminal(main.item.key, scope, event)
      BY <1>4 DEF AnnounceReady, DoneItem, batchVars
    <3> QED
      BY <1>1, <2>2, <3>1, WriterOwners, MarkOwners
  <2>7. Drives
    BY <1>2, <2>2, <2>4 DEF Drives
  <2> QED
    BY <1>2, <2>5, <2>6, <2>7, StillOwners DEF OwnersStay
<1> QED
  BY <1>3, <1>4

\* One request loses its place in the scheduler; its entry goes, or is about
\* to be cleared.
LEMMA ReleaseOwners ==
    ASSUME OwnerInv, Drives, UNCHANGED <<queue, handoffs>>, NEW k \in Keys,
           \A c \in Keys : EntryStays(c),
           \A c \in Keys : c # k => /\ pending'[c] = pending[c]
                                    /\ c \in LaneKeys => c \in LaneKeys'
                                    /\ \A g : Closing(c, g) => Closing(c, g)',
           \A g : entries'[k] # None /\ entries'[k].generation = g => Closing(k, g)'
    PROVE  OwnerInv'
<1>1. \A c \in Keys : HandoffStays(c) /\ \A m \in Mail : m.key = c => m \in Mail'
  BY DEF HandoffStays, Mail
<1>2. \A c \in Keys : c # k => EntryOwned(c)' /\ HandoffOwned(c)'
  BY <1>1, DriverKeeps1 DEF StaysPlaced
<1>3. EntryOwned(k)'
  <2>1. entries'[k] # None => handoffs'[k] = None
    BY DEF OwnerInv, EntryOwned, EntryStays
  <2>2. entries'[k] # None => Closing(k, entries[k].generation)'
    BY Zenon
  <2> QED
    BY <2>1, <2>2 DEF EntryOwned, Placed
<1>4. HandoffOwned(k)'
  <2>1. handoffs[k] # None => Awaited(k, handoffs[k].admission)'
    BY Zenon, DriverTombstones DEF Drives, Awaited, Mail
  <2> QED
    BY Zenon, <2>1, DriverTombstones DEF Drives, HandoffOwned
<1> QED
  BY <1>2, <1>3, <1>4, DriveOwners

\* What is left in the lanes when one is emptied.
LEMMA LanesLeft ==
    ASSUME SchedulerInv, NEW l \in Lanes, lanes' = [lanes EXCEPT ![l] = None],
           NEW c \in LaneKeys, lanes[l] # None => c # lanes[l].key
    PROVE  c \in LaneKeys'
<1>1. PICK m \in Lanes : lanes[m] # None /\ lanes[m].key = c
  BY DEF LaneKeys, Occupied
<1>2. m # l /\ lanes'[m] = lanes[m]
  BY <1>1 DEF SchedulerInv, SchedulerTypeOK
<1> QED
  BY <1>1, <1>2 DEF LaneKeys, Occupied

\* An admission is cleared.
LEMMA ClearedEntry ==
    ASSUME TerminalTypeOK, NEW k \in Keys, NEW g, batch_clear_terminal_at_generation(k, g)
    PROVE  entries'[k] = None /\ handoffs' = handoffs /\ \A c \in Keys : EntryStays(c)
  BY DEF TerminalTypeOK, batch_clear_terminal_at_generation, batch_clear_terminal, EntryStays

\* RetireItem
LEMMA RetireOwners ==
    ASSUME ServeInv, OwnerInv, RetireItem
    PROVE  OwnerInv'
<1>1. FlowInv /\ TerminalTypeOK /\ SchedulerInv /\ main \in MainRecords
  BY DEF ServeInv, RegistryInv, FlowInv, ThreadTypes
<1>2. main.item # None /\ main.item.act = "retire"
  BY DEF RetireItem, Item_is
<1>3. main.pc \in Driver
  BY <1>1, <1>2 DEF FlowInv, ItemInv, Driver
<1>4. main.item \in OpenItems
  BY <1>1, <1>2, <1>3, EmptyHanded
<1>5. PICK k \in Keys, g \in Generations, l \in Lanes \cup {None} :
          k = main.item.key /\ g = main.item.admission /\ l = main.item.lane
  BY <1>4 DEF OpenItems
<1>6. main'.pc = main.pc /\ main'.msg = main.msg
  BY <1>1 DEF RetireItem, MainRecords
<1>7. \/ l = None /\ abort_queued(k, g)
      \/ l # None /\ abort_lane(l, k, g)
  BY <1>5 DEF RetireItem
<1>8. batch_clear_terminal_at_generation(k, g)
  BY Zenon, <1>7 DEF abort_queued, abort_lane
<1>9. pending' = [pending EXCEPT ![k] = None]
  BY <1>7 DEF abort_queued, abort_lane, ReleaseLane
<1>10. \A c \in Keys : c # k /\ c \in LaneKeys => c \in LaneKeys'
  <2>1. CASE lanes' = lanes
    BY <2>1 DEF LaneKeys, Occupied
  <2>2. CASE l \in Lanes /\ lanes[l].key = k /\ lanes' = [lanes EXCEPT ![l] = None]
    BY <1>1, <2>2, LanesLeft
  <2> QED
    BY Zenon, <1>7, <2>1, <2>2 DEF abort_queued, abort_lane, ReleaseLane, Holds
<1>11. Drives /\ queue' = queue
  BY <1>3, <1>6 DEF Drives, RetireItem, driverVars
<1>12. \A c, h : ~Closing(c, h)
  BY <1>2 DEF Closing
<1>13. \A c \in Keys : c # k => pending'[c] = pending[c]
  BY <1>1, <1>9 DEF SchedulerInv, SchedulerTypeOK
<1> QED
  BY Zenon, <1>1, <1>8, <1>10, <1>11, <1>12, <1>13, ClearedEntry, ReleaseOwners

\* CommitItem, of a lane whose commit stands
LEMMA CommitOwners ==
    ASSUME ServeInv, OwnerInv, CommitItem
    PROVE  OwnerInv'
<1>1. FlowInv /\ TerminalTypeOK /\ SchedulerInv
  BY DEF ServeInv, RegistryInv
<1>2. main.item = None /\ work # <<>>
  BY DEF CommitItem, Head_is
<1>3. PICK w \in ListItems : w = Head(work)
  BY Zenon, <1>2, HeadFacts
<1>4. PICK k \in Keys, g \in Generations : k = w.key /\ g = w.admission
  BY Zenon, <1>2, <1>3, HeadFacts
<1>5. CASE Committable(w.lane, k, g)
  <2>1. commit_lane_retain_terminal(w.lane, k, g) /\ Take("done")
    BY <1>3, <1>4, <1>5 DEF CommitItem
  <2>2. /\ main'.pc = main.pc /\ main'.msg = main.msg /\ main'.item # None
        /\ main'.item.act = "done" /\ main'.item.key = k /\ main'.item.admission = g
    BY <1>2, <1>3, <1>4, <2>1, TakeFacts
  <2>3. Drives /\ queue' = queue
    BY Zenon, <1>2, <1>3, <2>2, HeadFacts DEF Drives, CommitItem
  <2>4. w.lane \in Lanes /\ lanes[w.lane].key = k /\ entries[k].generation = g
    BY <1>5 DEF Committable, Holds, Awaiting, Occupied, batch_ready_owner_matches, batch_is_current
  <2>5. /\ UNCHANGED <<entries, handoffs>>
        /\ lanes' = [lanes EXCEPT ![w.lane] = None] /\ pending' = [pending EXCEPT ![k] = None]
    BY <2>1 DEF commit_lane_retain_terminal, terminalVars
  <2>6. \A c \in Keys : c # k => pending'[c] = pending[c]
    BY <1>1, <2>5 DEF SchedulerInv, SchedulerTypeOK
  <2>7. \A c \in Keys : c # k /\ c \in LaneKeys => c \in LaneKeys'
    BY <1>1, <2>4, <2>5, LanesLeft
  <2>8. \A c, h : ~Closing(c, h)
    BY <1>2 DEF Closing
  <2>9. \A h : entries'[k] # None /\ entries'[k].generation = h => Closing(k, h)'
    BY <2>2, <2>4, <2>5 DEF Closing
  <2>10. \A c \in Keys : EntryStays(c)
    BY <2>5 DEF EntryStays
  <2> QED
    BY <2>3, <2>5, <2>6, <2>7, <2>8, <2>9, <2>10, ReleaseOwners
<1>6. CASE ~Committable(w.lane, k, g)
  BY <1>3, <1>4, <1>6, WriteOwners DEF CommitItem
<1> QED
  BY <1>5, <1>6

\* ClearItem
LEMMA ClearOwners ==
    ASSUME ServeInv, OwnerInv, ClearItem
    PROVE  OwnerInv'
<1>1. FlowInv /\ TerminalTypeOK /\ main \in MainRecords
  BY DEF ServeInv, RegistryInv, FlowInv, ThreadTypes
<1>2. main.item # None /\ main.item.act = "clear"
  BY DEF ClearItem, Item_is
<1>3. main.pc \in Driver
  BY <1>1, <1>2 DEF FlowInv, ItemInv, Driver
<1>4. main.item \in OpenItems
  BY <1>1, <1>2, <1>3, EmptyHanded
<1>5. PICK k \in Keys, g \in Generations : k = main.item.key /\ g = main.item.admission
  BY <1>4 DEF OpenItems
<1>6. main'.pc = main.pc /\ main'.msg = main.msg
  BY <1>1 DEF ClearItem, MainRecords
<1>7. Drives /\ UNCHANGED <<queue, pending, lanes>>
  BY <1>3, <1>6 DEF Drives, ClearItem, driverVars, schedulerVars
<1>8. /\ \A c \in Keys : EntryStays(c) /\ HandoffStays(c)
      /\ entries'[k] # None => entries[k].generation # g
  <2>1. CASE batch_is_current(k, g)
    <3>1. batch_clear_terminal_at_generation(k, g)
      BY <1>5, <2>1 DEF ClearItem, ClearAdmission
    <3> QED
      BY <1>1, <3>1, ClearedEntry DEF HandoffStays
  <2>2. CASE ~batch_is_current(k, g)
    BY <1>5, <2>2 DEF ClearItem, ClearAdmission, terminalVars, EntryStays, HandoffStays, batch_is_current
  <2> QED
    BY <2>1, <2>2
<1>9. \A c \in Keys : StaysPlaced(c)
  BY <1>5, <1>7, <1>8 DEF StaysPlaced, Mail, LaneKeys, Occupied, Closing
<1> QED
  BY <1>7, <1>8, <1>9, DriverKeeps1, DriveOwners

\* MarkAwaiting
LEMMA MarkAwaitingOwners ==
    ASSUME ServeInv, OwnerInv, MarkAwaiting
    PROVE  OwnerInv'
<1>1. FlowInv /\ TerminalTypeOK /\ SchedulerInv
  BY DEF ServeInv, RegistryInv
<1>2. main.item = None /\ work # <<>> /\ Take("announce") /\ UNCHANGED <<queue, pending>>
  BY DEF MarkAwaiting, Head_is, mark_awaiting_commit
<1>3. PICK l \in Running : l = Head(work).lane /\ mark_awaiting_commit(l)
  BY DEF MarkAwaiting, mark_awaiting_commit
<1>4. PICK k \in Keys : k = lanes[l].key
  BY <1>1, <1>3, LaneOwner DEF Running
<1>5. Drives
  BY Zenon, <1>2, HeadFacts, TakeFacts DEF Drives, MarkAwaiting
<1>6. \A c \in Keys : EntryStays(c) /\ HandoffStays(c)
  <2> DEFINE e == [entries[k] EXCEPT !.state = "Ready", !.deadline = "armed"]
  <2>1. /\ entries[k] # None /\ entries[k].state = "Active"
        /\ entries' = [entries EXCEPT ![k] = e] /\ handoffs' = handoffs
    BY Zenon, <1>3, <1>4 DEF mark_awaiting_commit, batch_mark_ready_with_pending, batch_active_owner_matches, batch_is_current
  <2>2. e \in Entries /\ e.generation = entries[k].generation
    BY <1>1, <2>1 DEF TerminalTypeOK, Entries
  <2> HIDE DEF e
  <2>3. \A c \in Keys : EntryStays(c)
    BY <1>1, <2>1, <2>2, EntriesStay DEF Busy
  <2> QED
    BY <2>1, <2>3 DEF HandoffStays
<1>7. \A c \in LaneKeys : c \in LaneKeys'
  <2> DEFINE lane == [lanes[l] EXCEPT !.state = "AwaitingClient", !.deadline = "armed"]
  <2>1. l \in Lanes /\ lanes[l] \in OccupiedLanes /\ lanes' = [lanes EXCEPT ![l] = lane]
    BY <1>1, <1>3, LaneOwner DEF mark_awaiting_commit, Running
  <2>2. lane \in OccupiedLanes /\ lane.key = lanes[l].key
    BY <2>1 DEF OccupiedLanes
  <2>3. lane # None
    BY <2>2, SchedulerAssumption
  <2> HIDE DEF lane
  <2>4. \A m \in Lanes : lanes[m] # None => lanes'[m] # None /\ lanes'[m].key = lanes[m].key
    BY <1>1, <2>1, <2>2, <2>3 DEF SchedulerInv, SchedulerTypeOK
  <2> QED
    BY <2>4 DEF LaneKeys, Occupied
<1>8. \A c \in Keys : StaysPlaced(c)
  BY <1>2, <1>7 DEF StaysPlaced, Mail, Closing
<1> QED
  BY <1>5, <1>6, <1>8, DriverKeeps1, DriveOwners

\* A fresh message at the front of the queue is the only place of its request.
LEMMA FrontOwners ==
    ASSUME ServeInv, OwnerInv, main.pc = "drain", queue # <<>>, Head(queue) \in Generates, Msg.transfer = None,
           main.item = None \/ main.item.act \in {"handoff", "enqueue"},
           NEW k \in Keys, k = Msg.key
    PROVE  /\ handoffs[k] = None /\ pending[k] = None /\ k \notin LaneKeys
           /\ entries[k] # None => entries[k].generation = Msg.admission /\ entries[k].state \notin Busy
           /\ \A m \in Mail : m.key # k => m \in Elements(Tail(queue)) \cap Generates
           /\ \A c, g : ~Closing(c, g)
<1>1. FlowInv /\ SchedulerInv
  BY DEF ServeInv, RegistryInv
<1>2. pending[k] = None /\ ~Handles(k)
  BY <1>1, FrontMessage
<1>3. \A m \in Mail : m = Msg \/ (m \in Elements(Tail(queue)) \cap Generates /\ m.key # k)
  BY <1>1, TakenMessage DEF Mail, Msg
<1>4. \A c, g : ~Closing(c, g)
  BY DEF Closing
<1>5. handoffs[k] = None
  BY <1>3, DriverTombstones DEF Presents, Driver
<1>6. k \notin LaneKeys
  BY <1>1, <1>2, LaneOwner DEF LaneKeys
<1>7. ASSUME entries[k] # None
      PROVE  entries[k].generation = Msg.admission /\ entries[k].state \notin Busy
  <2>1. EntryOwned(k)
    BY DEF OwnerInv
  <2>2. Placed(k, entries[k].generation) /\ entries[k].state \notin Busy
    BY <1>4, <1>6, <1>7, <2>1 DEF EntryOwned
  <2>3. Generate(k, entries[k].generation, None) \in Mail
    BY <1>2, <1>4, <2>2 DEF Placed, Handles, Generate
  <2>4. Generate(k, entries[k].generation, None) = Msg
    BY <1>3, <2>3 DEF Generate
  <2>5. Msg.admission = entries[k].generation
    BY <2>4 DEF Generate
  <2> QED
    BY <2>2, <2>5
<1> QED
  BY <1>2, <1>3, <1>4, <1>5, <1>6, <1>7

\* The front message leaves the queue, or changes there.
LEMMA TakenOwners ==
    ASSUME ServeInv, OwnerInv, Drives, main.pc = "drain", queue # <<>>, Head(queue) \in Generates, Msg.transfer = None,
           main.item = None \/ main.item.act \in {"handoff", "enqueue"},
           NEW k \in Keys, k = Msg.key,
           \A m \in Elements(Tail(queue)) \cap Generates : m \in Mail',
           \A c \in Keys : c # k => EntryStays(c) /\ HandoffStays(c),
           \A c \in Keys : c # k => pending'[c] = pending[c],
           UNCHANGED lanes, EntryOwned(k)', HandoffOwned(k)'
    PROVE  OwnerInv'
<1>1. \A c \in Keys : c # k => StaysPlaced(c)
  BY FrontOwners DEF StaysPlaced, LaneKeys, Occupied
<1> QED
  BY <1>1, DriverKeeps1, DriveOwners

\* DrainAborted and DrainRefused: the message is answered, and its admission
\* is about to be cleared.
LEMMA AnsweredOwners ==
    ASSUME ServeInv, OwnerInv, DrainAborted \/ DrainRefused
    PROVE  OwnerInv'
<1>1. FlowInv /\ TerminalTypeOK
  BY DEF ServeInv, RegistryInv
<1>2. /\ main.pc = "drain" /\ main.item = None /\ queue # <<>> /\ FreshGenerate
      /\ main' = [main EXCEPT !.item = DrainItem] /\ queue' = Tail(queue)
      /\ UNCHANGED <<pending, lanes, batch_poisoned>>
  BY DEF DrainAborted, DrainRefused, Draining, At, schedulerVars, driverVars
<1>3. Head(queue) \in Generates
  BY <1>1, <1>2, TakenMessage DEF FreshGenerate, Msg, Reset
<1>4. PICK k \in Keys : k = Msg.key
  BY <1>1, <1>2, <1>3, FrontMessage
<1>5. /\ main'.pc = "drain" /\ main'.msg = main.msg /\ main'.item # None
      /\ main'.item.act = "clear" /\ main'.item.key = k /\ main'.item.admission = Msg.admission
  <2>1. DrainItem = [DrainItem EXCEPT !.act = "clear"]
    BY DEF DrainItem
  <2> QED
    BY <1>1, <1>2, <1>3, <1>4, <2>1, DrainItemFacts
<1>6. OwnersStay
  <2>1. \E scope, event : WriteTerminal(k, scope, event) \/ WriteCancelled(k, scope)
    BY <1>4 DEF DrainAborted, DrainRefused
  <2> QED
    BY <1>1, <2>1, WriterOwners
<1>7. Drives
  BY <1>2, <1>5 DEF Drives, Driver
<1>8. \A m \in Elements(Tail(queue)) \cap Generates : m \in Mail'
  BY <1>2 DEF Mail
<1>9. /\ handoffs[k] = None
      /\ entries[k] # None => entries[k].generation = Msg.admission /\ entries[k].state \notin Busy
  BY <1>2, <1>3, <1>4, FrontOwners DEF FreshGenerate
<1>10. handoffs'[k] = None /\ EntryStays(k)
  BY <1>6, <1>9 DEF OwnersStay, HandoffStays
<1>11. EntryOwned(k)' /\ HandoffOwned(k)'
  <2>1. entries'[k] # None => Closing(k, entries[k].generation)'
    BY <1>5, <1>9, <1>10 DEF EntryStays, Closing
  <2> QED
    BY Zenon, <1>10, <2>1 DEF EntryOwned, HandoffOwned, Placed
<1> QED
  BY <1>2, <1>3, <1>4, <1>6, <1>7, <1>8, <1>11, TakenOwners DEF FreshGenerate, OwnersStay

\* DrainThink and DrainQueue: the message stays at the front.
LEMMA PreparedOwners ==
    ASSUME ServeInv, OwnerInv, DrainThink \/ DrainQueue
    PROVE  OwnerInv'
<1>1. FlowInv /\ TerminalTypeOK
  BY DEF ServeInv, RegistryInv
<1>2. /\ main.pc = "drain" /\ main.item = None /\ queue # <<>> /\ FreshGenerate
      /\ \E act \in {"handoff", "enqueue"} : main' = [main EXCEPT !.item = [DrainItem EXCEPT !.act = act]]
      /\ UNCHANGED <<queue, pending, lanes, batch_poisoned>>
  BY DEF DrainThink, DrainQueue, Draining, At, schedulerVars, driverVars
<1>3. Head(queue) \in Generates
  BY <1>1, <1>2, TakenMessage DEF FreshGenerate, Msg, Reset
<1>4. PICK k \in Keys : k = Msg.key
  BY <1>1, <1>2, <1>3, FrontMessage
<1>5. main'.pc = "drain" /\ main'.msg = main.msg
  BY <1>1, <1>2, <1>3, <1>4, DrainItemFacts
<1>6. \A c \in Keys : EntryStays(c) /\ HandoffStays(c)
  <2>1. \/ UNCHANGED terminalVars \/ activate_terminal_control(k)
        \/ \E g : batch_transition_to_queued(k, g)
    BY <1>4 DEF DrainThink, DrainQueue
  <2>2. activate_terminal_control(k) => UNCHANGED <<entries, handoffs>>
    BY DEF activate_terminal_control
  <2>3. UNCHANGED <<entries, handoffs>> => \A c \in Keys : EntryStays(c) /\ HandoffStays(c)
    BY DEF EntryStays, HandoffStays
  <2> QED
    BY <1>1, <2>1, <2>2, <2>3, MarkOwners DEF OwnersStay
<1>7. Drives /\ \A c, g : ~Closing(c, g)
  BY <1>2, <1>5 DEF Drives, Driver, Closing
<1> QED
  BY <1>2, <1>6, <1>7, StillOwners

\* DrainHandoff: the message comes back with the token for its tombstone, or
\* is lost with no entry behind.
LEMMA DrainHandoffOwners ==
    ASSUME ServeInv, OwnerInv, DrainHandoff
    PROVE  OwnerInv'
<1>1. FlowInv /\ TerminalTypeOK
  BY DEF ServeInv, RegistryInv
<1>2. main.item # None /\ main.item.act = "handoff"
  BY DEF DrainHandoff, Item_is
<1>3. /\ main.pc = "drain" /\ queue # <<>> /\ Head(queue) \in Generates
      /\ Msg.transfer = None /\ main \in MainRecords
  BY <1>1, <1>2, FrontItem
<1>4. PICK k \in Keys, g \in Generations : k = Msg.key /\ g = Msg.admission
  BY <1>1, <1>3, FrontMessage
<1>5. UNCHANGED <<pending, lanes, batch_poisoned>>
  BY DEF DrainHandoff, schedulerVars
<1>6. \E pc \in {"leave", "assign", "fail"} : main' = [main EXCEPT !.pc = pc, !.item = None]
  BY DEF DrainHandoff, AfterBarrier
<1>7. Drives
  BY <1>3, <1>5, <1>6 DEF Drives, Driver, MainRecords
<1>8. /\ handoffs[k] = None /\ (entries[k] # None => entries[k].generation = g)
      /\ Tail(queue) \in Seq(Generates \cup {Reset}) /\ Apart(Tail(queue), Generates)
      /\ \A m \in Elements(Tail(queue)) \cap Generates : m.key # k
  BY Zenon, <1>1, <1>2, <1>3, <1>4, FrontOwners, FrontMessage
<1>9. CASE batch_is_current(k, g)
  <2>1. /\ batch_handoff_to_singleton_and_clear(k, g)
        /\ queue' = <<Generate(k, g, TransferOf(k))>> \o Tail(queue)
    BY <1>4, <1>8, <1>9 DEF DrainHandoff
  <2>2. TransferOf(k) \in Transfers /\ TransferOf(k) # None /\ TransferOf(k).admission = g
    BY <1>1, <1>9, <2>1, TransferType, NoItemAssumption DEF TransferOf, batch_is_current
  <2>3. HandedOff(k, g)
    BY <1>1, <2>1, HandOffFacts
  <2> DEFINE m == Generate(k, g, TransferOf(k))
  <2>4. m \in Generates /\ m.key = k /\ m.transfer = TransferOf(k)
    BY <2>2 DEF Generate, Generates
  <2> HIDE DEF m
  <2>5. m \in Mail' /\ \A n \in Elements(Tail(queue)) \cap Generates : n \in Mail'
    <3>1. <<m>> \in Seq(Generates \cup {Reset}) /\ Elements(<<m>>) = {m} /\ Apart(<<m>>, Generates)
      BY <2>4, OneApart
    <3>2. \A y \in Elements(<<m>>), z \in Elements(Tail(queue)) : y \in Generates /\ z \in Generates => y.key # z.key
      BY <1>8, <2>4, <3>1
    <3>3. /\ <<m>> \o Tail(queue) \in Seq(Generates \cup {Reset})
          /\ Elements(<<m>> \o Tail(queue)) = Elements(<<m>>) \cup Elements(Tail(queue))
          /\ Apart(<<m>> \o Tail(queue), Generates)
      <4>1. PICK p \in Seq(Generates \cup {Reset}), q \in Seq(Generates \cup {Reset}) : p = <<m>> /\ q = Tail(queue)
        BY <1>8, <3>1
      <4>2. Apart(p, Generates) /\ Apart(q, Generates)
            /\ \A y \in Elements(p), z \in Elements(q) : y \in Generates /\ z \in Generates => y.key # z.key
        BY <1>8, <3>1, <3>2, <4>1
      <4>3. p \o q \in Seq(Generates \cup {Reset}) /\ Elements(p \o q) = Elements(p) \cup Elements(q) /\ Apart(p \o q, Generates)
        BY Zenon, <4>2, JoinedApart
      <4> QED
        BY <4>1, <4>3
    <3>4. queue' = <<m>> \o Tail(queue)
      BY <2>1 DEF m
    <3> QED
      BY <2>4, <3>1, <3>3, <3>4 DEF Mail
  <2>6. Awaited(k, g)'
    BY <2>2, <2>4, <2>5 DEF Awaited, Presents
  <2>7. EntryOwned(k)' /\ HandoffOwned(k)'
    BY <2>3, <2>6 DEF HandedOff, EntryOwned, HandoffOwned
  <2> QED
    BY Zenon, <1>2, <1>3, <1>4, <1>5, <1>7, <2>3, <2>5, <2>7, TakenOwners DEF HandedOff
<1>10. CASE ~batch_is_current(k, g)
  <2>1. UNCHANGED <<entries, handoffs>> /\ queue' = Tail(queue)
    BY <1>4, <1>10 DEF DrainHandoff, terminalVars
  <2>2. EntryOwned(k)' /\ HandoffOwned(k)'
    BY <1>8, <1>10, <2>1 DEF EntryOwned, HandoffOwned, batch_is_current
  <2>3. \A m \in Elements(Tail(queue)) \cap Generates : m \in Mail'
    BY <2>1 DEF Mail
  <2>4. \A c \in Keys : EntryStays(c) /\ HandoffStays(c)
    BY <2>1 DEF EntryStays, HandoffStays
  <2> QED
    BY <1>2, <1>3, <1>4, <1>5, <1>7, <2>2, <2>3, <2>4, TakenOwners
<1> QED
  BY <1>9, <1>10

\* DrainEnqueue: the scheduler holds the request, or it is lost with no entry
\* behind.
LEMMA DrainEnqueueOwners ==
    ASSUME ServeInv, OwnerInv, DrainEnqueue
    PROVE  OwnerInv'
<1>1. FlowInv /\ SchedulerInv
  BY DEF ServeInv, RegistryInv
<1>2. main.item # None /\ main.item.act = "enqueue"
  BY DEF DrainEnqueue, Item_is
<1>3. /\ main.pc = "drain" /\ queue # <<>> /\ Head(queue) \in Generates
      /\ Msg.transfer = None /\ main \in MainRecords
  BY <1>1, <1>2, FrontItem
<1>4. PICK k \in Keys, g \in Generations : k = Msg.key /\ g = Msg.admission
  BY <1>1, <1>3, FrontMessage
<1>5. UNCHANGED <<lanes, batch_poisoned, entries, handoffs>> /\ queue' = Tail(queue)
  BY DEF DrainEnqueue, driverVars, enqueue, batchVars, terminalVars, schedulerVars
<1>6. Drives
  BY <1>3, <1>5 DEF DrainEnqueue, Drives, Driver, MainRecords
<1>7. /\ handoffs[k] = None /\ pending[k] = None
      /\ (entries[k] # None => entries[k].generation = g /\ entries[k].state \notin Busy)
  BY <1>2, <1>3, <1>4, FrontOwners
<1>8. /\ \A c \in Keys : c # k => pending'[c] = pending[c]
      /\ batch_is_current(k, g) => pending'[k] # None
  <2>1. CASE batch_is_current(k, g)
    <3>1. PICK sampling \in Samplings : pending' = [pending EXCEPT ![k] = [admission |-> g, sampling |-> sampling]]
      BY <1>4, <1>7, <2>1 DEF DrainEnqueue, enqueue
    <3>2. [admission |-> g, sampling |-> sampling] \in Requests
      BY DEF Requests
    <3>3. [admission |-> g, sampling |-> sampling] # None
      BY <3>2, SchedulerAssumption
    <3> QED
      BY <1>1, <3>1, <3>3 DEF SchedulerInv, SchedulerTypeOK
  <2>2. CASE ~batch_is_current(k, g)
    BY <1>4, <2>2 DEF DrainEnqueue, batchVars, schedulerVars
  <2> QED
    BY <2>1, <2>2
<1>9. EntryOwned(k)' /\ HandoffOwned(k)'
  BY <1>5, <1>7, <1>8 DEF EntryOwned, HandoffOwned, Placed, batch_is_current
<1>10. \A m \in Elements(Tail(queue)) \cap Generates : m \in Mail'
  BY <1>5 DEF Mail
<1>11. \A c \in Keys : EntryStays(c) /\ HandoffStays(c)
  BY <1>5 DEF EntryStays, HandoffStays
<1> QED
  BY <1>2, <1>3, <1>4, <1>5, <1>6, <1>8, <1>9, <1>10, <1>11, TakenOwners

\* Assign: the oldest request of the inbox is never dropped, for its entry has
\* no lane yet.
LEMMA AssignOwners ==
    ASSUME ServeInv, OwnerInv, Assign, FirstEmpty \in Lanes, lanes[FirstEmpty] = None
    PROVE  OwnerInv'
<1>1. FlowInv /\ TerminalTypeOK /\ SchedulerInv
  BY DEF ServeInv, RegistryInv
<1>2. /\ main.pc = "assign" /\ try_assign_one /\ main' = main
      /\ UNCHANGED <<queue, batch_poisoned>> /\ inbox # <<>>
  BY Zenon DEF Assign, At, try_assign_one, Assignable
<1>3. main.item = None /\ \A c, g : ~Closing(c, g)
  <2>1. main.pc \in Driver
    BY <1>2 DEF Driver
  <2>2. main.item = None
    BY <1>1, <1>2, <2>1, EmptyHanded
  <2> QED
    BY <2>2 DEF Closing
<1>4. PICK k \in Keys : k = Head(inbox)
  BY <1>1, <1>2, HeadTailProperties DEF SchedulerInv, SchedulerTypeOK
<1>5. k \in Queued
  <2>1. 1 \in DOMAIN inbox /\ Head(inbox) = inbox[1]
    BY <1>1, <1>2, LenProperties, EmptySeq, HeadTailProperties DEF SchedulerInv, SchedulerTypeOK
  <2> QED
    BY <1>4, <2>1 DEF Queued
<1>6. pending[k] # None /\ k \notin LaneKeys /\ batch_is_current(k, pending[k].admission)
  BY <1>1, <1>5 DEF SchedulerInv, HeldOnce, PendingIsCurrent
<1>7. Queueable(k, pending[k].admission) /\ handoffs[k] = None
  <2>1. EntryOwned(k)
    BY DEF OwnerInv
  <2>2. entries[k] # None /\ entries[k].state \notin Busy /\ handoffs[k] = None
    BY <1>3, <1>6, <2>1 DEF EntryOwned, batch_is_current
  <2>3. entries[k].state \in {"Announced", "Queued", "Active", "Ready"}
    BY <1>1, <2>2 DEF TerminalTypeOK, Entries
  <2> QED
    BY <1>6, <2>2, <2>3 DEF Queueable, Busy
<1>8. PICK f \in Lanes : f = FirstEmpty
  OBVIOUS
<1> DEFINE t == [lane |-> f, generation |-> lane_next, admission |-> pending[k].admission]
           lane == [state |-> "Running", key |-> k, ticket |-> t, deadline |-> "unset"]
<1>9. /\ entries' = [entries EXCEPT ![k] = Bound(entries[k], t)] /\ lanes' = [lanes EXCEPT ![f] = lane]
      /\ UNCHANGED <<pending, handoffs>>
  BY ZenonT(30), <1>2, <1>4, <1>7, <1>8 DEF try_assign_one
<1>10. /\ entries'[k].generation = entries[k].generation
       /\ \A c \in Keys : c # k => entries'[c] = entries[c]
  <2>1. entries[k] \in Entries
    BY <1>1, <1>6 DEF TerminalTypeOK, batch_is_current
  <2>2. Bound(entries[k], t).generation = entries[k].generation
    <3> HIDE DEF t
    <3> QED
      BY <2>1 DEF Bound, Entries
  <2> HIDE DEF t
  <2> QED
    BY Zenon, <1>1, <1>9, <2>2 DEF TerminalTypeOK
<1>11. lane # None /\ lane.key = k
  <2>1. lane \in OccupiedLanes
    <3>1. lane_next \in Generations /\ pending[k].admission \in Generations
      <4>1. lane_next \in 1 .. MaxGeneration + 1 /\ pending[k] \in Requests
        BY Zenon, <1>1, <1>6 DEF SchedulerInv, SchedulerTypeOK
      <4>2. lane_next <= MaxGeneration
        BY Zenon, <1>2 DEF try_assign_one
      <4>3. pending[k].admission \in Generations
        BY Zenon, <4>1 DEF Requests
      <4> QED
        BY <4>1, <4>2, <4>3, MaxGenerationAssumption DEF Generations
    <3> QED
      BY <3>1 DEF OccupiedLanes, Tickets
  <2> QED
    BY <2>1, SchedulerAssumption
<1> HIDE DEF lane
<1>12. k \in LaneKeys' /\ \A c \in LaneKeys : c \in LaneKeys'
  BY <1>1, <1>8, <1>9, <1>11 DEF SchedulerInv, SchedulerTypeOK, LaneKeys, Occupied
<1>13. Drives
  BY <1>2 DEF Drives, Driver
<1>14. \A c \in Keys : c # k => EntryStays(c) /\ HandoffStays(c) /\ StaysPlaced(c)
  BY ZenonT(30), <1>2, <1>3, <1>9, <1>10, <1>12 DEF EntryStays, HandoffStays, StaysPlaced, Mail
<1>15. EntryOwned(k)' /\ HandoffOwned(k)'
  BY Zenon, <1>6, <1>7, <1>9, <1>12 DEF EntryOwned, HandoffOwned, Placed
<1> QED
  BY <1>13, <1>14, <1>15, DriverKeeps1, DriveOwners

\* FailAll: with the lanes and the inbox go the entries of their requests.
LEMMA FailAllOwners ==
    ASSUME ServeInv, OwnerInv, FailAll
    PROVE  OwnerInv'
<1>1. FlowInv /\ TerminalTypeOK /\ SchedulerInv
  BY DEF ServeInv, RegistryInv
<1>2. main.pc = "fail" /\ fail_all_active /\ UNCHANGED <<queue, batch_poisoned>>
  BY DEF FailAll, At, driverVars
<1>3. Drives
  <2>1. PICK pc \in {"poison", "leave"} : Goto(pc)
    BY DEF FailAll
  <2>2. main'.pc = pc /\ main'.msg = main.msg
    BY <1>1, <2>1, GotoFacts DEF Places, Leaving
  <2> QED
    BY <1>2, <2>2 DEF Drives, Driver
<1>4. \A c, g : ~Closing(c, g)
  BY <1>1, <1>2, NoClosing
<1>5. handoffs' = handoffs /\ \A c \in Keys : entries'[c] = IF Retired(c) THEN None ELSE entries[c]
  BY <1>2 DEF fail_all_active
<1>6. \A c \in Keys : pending[c] # None => Retired(c)
  <2>1. ASSUME NEW c \in Keys, pending[c] # None PROVE Retired(c)
    <3>1. CASE c \in Queued
      BY <1>1, <2>1, <3>1 DEF SchedulerInv, PendingIsCurrent, Retired
    <3>2. CASE c \in LaneKeys
      <4>1. PICK l \in Occupied : lanes[l].key = c
        BY <3>2 DEF LaneKeys
      <4>2. lanes[l].state \in {"Running", "AwaitingClient"}
        BY <1>1, <4>1, LaneOwner DEF OccupiedLanes
      <4>3. batch_is_current(c, lanes[l].ticket.admission)
        BY <1>1, <4>1, <4>2 DEF SchedulerInv, LaneOwnsItsEntry, batch_active_owner_matches, batch_ready_owner_matches
      <4> QED
        BY <4>1, <4>3 DEF Retired
    <3> QED
      BY <1>1, <2>1, <3>1, <3>2 DEF SchedulerInv, HeldOnce
  <2> QED
    BY <2>1
<1>7. ASSUME NEW c \in Keys PROVE EntryOwned(c)' /\ HandoffOwned(c)'
  <2>1. CASE Retired(c)
    <3>1. entries'[c] = None
      BY <1>5, <2>1
    <3>2. handoffs[c] # None => Awaited(c, handoffs[c].admission)'
      BY <1>2, <1>3, <1>5, DriverTombstones DEF Drives, Awaited, Mail
    <3> QED
      BY Zenon, <1>3, <1>5, <3>1, <3>2, DriverTombstones DEF Drives, EntryOwned, HandoffOwned
  <2>2. CASE ~Retired(c)
    <3>1. pending[c] = None /\ c \notin LaneKeys
      BY <1>1, <1>6, <2>2 DEF SchedulerInv, HeldOnce
    <3>2. EntryStays(c) /\ HandoffStays(c) /\ StaysPlaced(c)
      BY <1>2, <1>4, <1>5, <2>2, <3>1 DEF EntryStays, HandoffStays, StaysPlaced, Mail
    <3> QED
      BY <1>3, <3>2, DriverKeeps1
  <2> QED
    BY <2>1, <2>2
<1> QED
  BY <1>3, <1>7, DriveOwners

----------------------------------------------------------------------------
(* Beside main *)

\* Whoever steps beside main leaves every request where it is.
Beside ==
    /\ UNCHANGED <<main, batch_poisoned, pending>>
    /\ \A m \in Mail : m \in Mail'
    /\ \A c \in LaneKeys : c \in LaneKeys'

\* A step beside main, for one key.
LEMMA BesideOne ==
    ASSUME OwnerInv, Beside, NEW c \in Keys, EntryStays(c), HandoffStays(c), Owns(c) => Owns(c)'
    PROVE  EntryOwned(c)' /\ HandoffOwned(c)'
<1>1. EntryOwned(c) /\ HandoffOwned(c) /\ main' = main /\ pending' = pending
  BY DEF OwnerInv, Beside
<1>2. \A g : (Placed(c, g) => Placed(c, g)') /\ (Closing(c, g) => Closing(c, g)')
  BY ZenonT(30), <1>1 DEF Beside, Placed, Closing
<1>3. EntryOwned(c)'
  BY ZenonT(30), <1>1, <1>2 DEF EntryOwned, EntryStays, HandoffStays, Beside
<1>4. HandoffOwned(c)'
  <2>1. \A g : Awaited(c, g) => Awaited(c, g)'
    BY Zenon, <1>1 DEF Awaited, Beside, Key
  <2>2. Adopting(c) => Adopting(c)'
    BY <1>1 DEF Adopting, Handles
  <2> QED
    BY Zenon, <1>1, <2>1, <2>2 DEF HandoffOwned, HandoffStays
<1> QED
  BY <1>3, <1>4

\* A step beside main that takes nothing from an owner.
LEMMA BesideOwners ==
    ASSUME OwnerInv, Beside, OwnersStay
    PROVE  OwnerInv'
<1>1. \A c \in Keys : EntryOwned(c)' /\ HandoffOwned(c)'
  BY BesideOne DEF OwnersStay
<1>2. ActiveInv' /\ PoisonInv'
  BY DEF OwnerInv, ActiveInv, PoisonInv, Beside, OwnersStay, ActiveStays, HandoffStays
<1> QED
  BY <1>1, <1>2 DEF OwnerInv

\* A request just read is in the queue with its admission.
LEMMA ReadGenerateOwners ==
    ASSUME ServeInv, OwnerInv, NEW k \in Keys, ReadGenerate(k)
    PROVE  OwnerInv'
<1> DEFINE g == batch_next + 1
           e == FreshEntry(g, "Announced", FALSE)
           m == Generate(k, g, None)
<1>1. /\ queue \in Seq(Generates \cup {Reset}) /\ TerminalTypeOK
      /\ UNCHANGED <<main, batch_poisoned, pending, lanes, active, handoffs>>
      /\ handoffs[k] = None /\ entries' = [entries EXCEPT ![k] = e] /\ queue' = Append(queue, m)
  BY DEF ServeInv, RegistryInv, FlowInv, ThreadTypes, ReadGenerate, batch_announce_terminal, schedulerVars
<1>2. g \in Generations
  BY <1>1, MaxGenerationAssumption DEF TerminalTypeOK, ReadGenerate, batch_announce_terminal, Generations
<1>3. m \in Generates
  BY <1>2 DEF Generate, Generates
<1>4. e.generation = g /\ e.state = "Announced"
  BY DEF FreshEntry
<1> HIDE DEF e, m
<1>5. m \in Mail' /\ \A n \in Mail : n \in Mail'
  <2>1. Elements(Append(queue, m)) = Elements(queue) \cup {m}
    <3>1. Len(queue) \in Nat /\ DOMAIN queue = 1 .. Len(queue) /\ DOMAIN Append(queue, m) = 1 .. Len(queue) + 1
          /\ Append(queue, m)[Len(queue) + 1] = m
          /\ \A i \in 1 .. Len(queue) : Append(queue, m)[i] = queue[i]
      BY <1>1, <1>3, LenProperties, AppendProperties
    <3> QED
      BY <3>1 DEF Elements
  <2> QED
    BY <1>1, <1>3, <2>1 DEF Mail
<1>6. Beside
  BY <1>1, <1>5 DEF Beside, LaneKeys, Occupied
<1>7. \A c \in Keys : c # k => EntryOwned(c)' /\ HandoffOwned(c)'
  <2>1. \A c \in Keys : c # k => EntryStays(c) /\ HandoffStays(c) /\ (Owns(c) => Owns(c)')
    BY <1>1 DEF EntryStays, HandoffStays, Owns, TerminalTypeOK
  <2> QED
    BY <1>6, <2>1, BesideOne
<1>8. EntryOwned(k)' /\ HandoffOwned(k)'
  <2>1. entries'[k] = e
    BY <1>1 DEF TerminalTypeOK
  <2>2. Generate(k, entries'[k].generation, None) = m
    BY <1>4, <2>1 DEF m
  <2> QED
    BY Zenon, <1>1, <1>4, <1>5, <2>1, <2>2 DEF EntryOwned, HandoffOwned, Placed, Busy
<1>9. ActiveInv' /\ PoisonInv'
  BY <1>1 DEF OwnerInv, ActiveInv, PoisonInv
<1> QED
  BY <1>7, <1>8, <1>9 DEF OwnerInv

\* The control lines, the reset line and the deadlines.
LEMMA BesideStepOwners ==
    ASSUME ServeInv, OwnerInv,
           \/ \E k \in Keys, kind \in Controls : ReadControl(kind, k)
           \/ ReadControlBatch \/ ReadReset
           \/ \E k \in Keys : DeadlinePasses(k) /\ UNCHANGED <<schedulerVars, threadVars>>
           \/ \E l \in Lanes : LaneDeadlinePasses(l) /\ UNCHANGED threadVars
           \/ UNCHANGED serveVars
    PROVE  OwnerInv'
<1>1. /\ TerminalTypeOK /\ SchedulerInv /\ queue \in Seq(Generates \cup {Reset})
      /\ reader \in ReaderCalls \cup {None}
  BY DEF ServeInv, RegistryInv, FlowInv, ThreadTypes
<1>2. UNCHANGED <<main, batch_poisoned, pending>>
  BY DEF ReadControl, ReadControlBatch, ReadReset, LaneDeadlinePasses, schedulerVars, threadVars, serveVars, batchVars
<1>3. queue' = queue \/ queue' = Append(queue, Reset)
  BY DEF ReadControl, ReadControlBatch, ReadReset, threadVars, serveVars
<1>4. \A m \in Mail : m \in Mail'
  <2>1. ASSUME queue' = Append(queue, Reset) PROVE \A m \in Elements(queue) : m \in Elements(queue')
    <3>1. Len(queue) \in Nat /\ DOMAIN queue = 1 .. Len(queue) /\ DOMAIN Append(queue, Reset) = 1 .. Len(queue) + 1
          /\ \A i \in 1 .. Len(queue) : Append(queue, Reset)[i] = queue[i]
      BY <1>1, LenProperties, AppendProperties
    <3> QED
      BY <2>1, <3>1 DEF Elements
  <2> QED
    BY Zenon, <1>3, <2>1 DEF Mail, Elements
<1>5. lanes' = lanes \/ \E l \in Lanes : LaneDeadlinePasses(l)
  BY DEF ReadControl, ReadControlBatch, ReadReset, schedulerVars, threadVars, serveVars, batchVars
<1>6. \A c \in LaneKeys : c \in LaneKeys'
  <2>1. ASSUME NEW l \in Lanes, LaneDeadlinePasses(l) PROVE \A c \in LaneKeys : c \in LaneKeys'
    <3> DEFINE lane == [lanes[l] EXCEPT !.deadline = "passed"]
    <3>1. lanes[l] \in OccupiedLanes /\ lanes' = [lanes EXCEPT ![l] = lane]
      BY <1>1, <2>1, LaneOwner DEF LaneDeadlinePasses, Awaiting
    <3>2. lane \in OccupiedLanes /\ lane.key = lanes[l].key
      BY <3>1 DEF OccupiedLanes
    <3>3. lane # None
      BY <3>2, SchedulerAssumption
    <3> HIDE DEF lane
    <3>4. \A m \in Lanes : lanes[m] # None => lanes'[m] # None /\ lanes'[m].key = lanes[m].key
      BY <1>1, <3>1, <3>2, <3>3 DEF SchedulerInv, SchedulerTypeOK
    <3> QED
      BY <3>4 DEF LaneKeys, Occupied
  <2> QED
    BY Zenon, <1>5, <2>1 DEF LaneKeys, Occupied
<1>7. OwnersStay
  <2>1. \/ \E k \in Keys, kind \in Controls : apply_terminal_control(kind, k) \/ batch_apply_terminal_control(kind, k)
        \/ \E k \in Keys : DeadlinePasses(k)
        \/ UNCHANGED terminalVars
    <3>1. ReadControlBatch => reader.kind \in Controls /\ reader.key \in Keys
      BY <1>1 DEF ReadControlBatch, ReaderCalls
    <3> QED
      BY <3>1 DEF ReadControl, ReadControlBatch, ReadReset, LaneDeadlinePasses, serveVars, batchVars
  <2>2. ASSUME UNCHANGED terminalVars PROVE OwnersStay
    BY <2>2 DEF terminalVars, OwnersStay, EntryStays, HandoffStays, ActiveStays, Owns
  <2> QED
    BY <1>1, <2>1, <2>2, ControlOwners, MarkOwners
<1> QED
  BY <1>2, <1>4, <1>6, <1>7, BesideOwners DEF Beside

----------------------------------------------------------------------------
(* Every step, and the start *)

\* Every step of main, taken together.
LEMMA MainOwners ==
    ASSUME ServeInv, OwnerInv, MainNext \/ AwaitTimeout,
           Assign => FirstEmpty \in Lanes /\ lanes[FirstEmpty] = None,
           \A t \in transfers : adopt_singleton_transfer(t) => active' # None
    PROVE  OwnerInv'
<1>1. ASSUME \/ Recv \/ HandleReset \/ RefusePoisoned \/ RetireRefused \/ Activate \/ AdoptHandoff
             \/ RefuseInvalid \/ RouteBatch \/ RouteSequential \/ AdoptOwn \/ RouteHandoff
             \/ AdmitAborted \/ AdmitThink \/ AdoptThink \/ AdmitEnqueue
             \/ GenerateStart \/ SequentialCancel \/ SequentialError \/ SequentialFinish
             \/ PublishReady \/ AwaitDecision \/ AwaitTimeout \/ SequentialTerminal \/ Leave \/ Left \/ Poison
      PROVE  OwnerInv'
  BY <1>1, RecvOwners, ResetOwners, RefusedOwners, ActivateOwners, AdoptOwners, ServingOwners,
     HandOffOwners, AdmitOwners, LeaveOwners, PoisonOwners
<1>2. ASSUME \/ Poll \/ Sweep \/ CancelItem \/ RetireItem \/ CommitItem \/ DoneItem \/ ClearItem
             \/ SweepDone \/ DrainBarrier \/ DrainAborted \/ DrainRefused \/ DrainThink
             \/ DrainHandoff \/ DrainQueue \/ DrainEnqueue \/ DrainEmpty
             \/ Assign \/ AssignDone \/ Decode \/ MarkAwaiting \/ AnnounceReady \/ PublishDone
             \/ DriveFails \/ FailItem \/ FailAll
      PROVE  OwnerInv'
  BY <1>2, TurnOwners, WriteOwners, RetireOwners, CommitOwners, ClearOwners, MarkAwaitingOwners,
     AnsweredOwners, PreparedOwners, DrainHandoffOwners, DrainEnqueueOwners, AssignOwners, FailAllOwners
<1> QED
  BY <1>1, <1>2 DEF MainNext

\* The daemon starts with an empty registry.
LEMMA OwnersStart == ServeInit => OwnerInv
  BY DEF ServeInit, BatchInit, TerminalInit, OwnerInv, EntryOwned, HandoffOwned, ActiveInv, PoisonInv

\* What the invariant says of main between messages.
LEMMA OwnersWhenIdle == ServeInv /\ OwnerInv => IdleOwnsNothing
<1> SUFFICES ASSUME ServeInv, OwnerInv, main.pc = "recv" PROVE IdleOwnsNothing
  BY Zenon DEF IdleOwnsNothing, At
<1>1. main.pc \in Idle /\ main.pc \notin Driver
  BY DEF Idle, Driver
<1>2. active = None
  BY <1>1 DEF OwnerInv, ActiveInv
<1>3. FlowInv /\ SchedulerInv /\ SchedulerTypeOK
  BY DEF ServeInv, RegistryInv, SchedulerInv
<1>4. \A k \in Keys : pending[k] = None
  BY <1>1, <1>3 DEF FlowInv, MainInv
<1>5. pending = [k \in Keys |-> None]
  BY <1>3, <1>4 DEF SchedulerTypeOK
<1>6. Occupied = {}
  BY <1>3, <1>4, LaneOwner
<1>7. inbox = <<>>
  <2>1. ASSUME inbox # <<>> PROVE FALSE
    <3>1. 1 \in DOMAIN inbox /\ inbox[1] \in Keys
      BY <1>3, <2>1, LenProperties, EmptySeq, ElementOfSeq DEF SchedulerTypeOK
    <3>2. inbox[1] \in Queued
      BY <3>1 DEF Queued
    <3> QED
      BY <1>3, <1>4, <3>1, <3>2 DEF SchedulerInv, HeldOnce
  <2> QED
    BY <2>1
<1>8. ASSUME NEW k \in Keys
      PROVE  /\ entries[k] # None =>
                    \E i \in DOMAIN queue : queue[i] = Generate(k, entries[k].generation, None)
             /\ handoffs[k] # None =>
                    /\ ~handoffs[k].adopted
                    /\ \E i \in DOMAIN queue :
                          /\ queue[i].type = "generate" /\ queue[i].key = k
                          /\ queue[i].transfer # None
                          /\ queue[i].transfer.admission = handoffs[k].admission
  <2>1. /\ entries[k] # None => Generate(k, entries[k].generation, None) \in Mail
        /\ handoffs[k] # None =>
              /\ ~handoffs[k].adopted
              /\ \E m \in Mail : m.key = k /\ Presents(m.transfer, handoffs[k].admission)
    BY <1>1, IdleOwners
  <2>2. \A m \in Mail : m.type = "generate" /\ \E i \in DOMAIN queue : queue[i] = m
    BY DEF Mail, Elements, Generates
  <2> QED
    BY <2>1, <2>2 DEF Presents
<1> QED
  BY ZenonT(30), <1>2, <1>5, <1>6, <1>7, <1>8 DEF IdleOwnsNothing

=============================================================================
