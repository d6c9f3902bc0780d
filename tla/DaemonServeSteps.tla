--------------------------- MODULE DaemonServeSteps ---------------------------
(***************************************************************************)
(* The steps of main keep the invariant of the daemon's threads, and write *)
(* what the contract of an attempt allows.  What the steps do to the       *)
(* registry and the scheduler is tame, which DaemonServeProofs follows up. *)
(***************************************************************************)
EXTENDS DaemonServeInv, SequenceTheorems, TLAPS

\* The provers tried on a leaf that names none, in this order.
USE SMT, Zenon, SMTT(20), SMTT(30)

----------------------------------------------------------------------------
(* Sequences of records with a key *)

\* The members of a sequence are of its type.
LEMMA MembersOf ==
    ASSUME NEW T, NEW q \in Seq(T)
    PROVE  \A x \in Elements(q) : x \in T
  BY LenProperties DEF Elements

\* The front of a sequence and what stays behind it.
LEMMA FrontApart ==
    ASSUME NEW T, NEW G, NEW q \in Seq(T), q # <<>>, Apart(q, G)
    PROVE  /\ Head(q) \in T /\ Head(q) \in Elements(q)
           /\ Tail(q) \in Seq(T) /\ Apart(Tail(q), G)
           /\ Elements(q) = Elements(Tail(q)) \cup {Head(q)}
           /\ \A x \in Elements(Tail(q)) : x \in G /\ Head(q) \in G => x.key # Head(q).key
<1>1. Len(q) \in Nat \ {0} /\ DOMAIN q = 1 .. Len(q) /\ Head(q) = q[1] /\ Head(q) \in T
  BY LenProperties, EmptySeq, HeadTailProperties
<1>2. /\ Tail(q) \in Seq(T) /\ Len(Tail(q)) = Len(q) - 1
      /\ \A i \in 1 .. Len(Tail(q)) : Tail(q)[i] = q[i + 1]
  BY HeadTailProperties
<1>3. DOMAIN Tail(q) = 1 .. Len(q) - 1
  BY <1>2, LenProperties
<1>4. \A i \in DOMAIN Tail(q) : i + 1 \in DOMAIN q /\ i + 1 # 1 /\ Tail(q)[i] = q[i + 1]
  BY <1>1, <1>2, <1>3
<1>5. 1 \in DOMAIN q
  BY <1>1
<1>6. Apart(Tail(q), G)
  <2>1. \A i, j \in DOMAIN Tail(q) : i + 1 = j + 1 => i = j
    BY <1>1, <1>3
  <2> QED
    BY <1>4, <2>1 DEF Apart
<1>7. ASSUME NEW i \in DOMAIN q, i # 1 PROVE q[i] \in Elements(Tail(q))
  <2>1. i - 1 \in DOMAIN Tail(q) /\ Tail(q)[i - 1] = q[i]
    BY <1>1, <1>2, <1>3, <1>7
  <2> QED
    BY <2>1 DEF Elements
<1>8. Elements(q) = Elements(Tail(q)) \cup {Head(q)}
  <2>1. Elements(Tail(q)) \subseteq Elements(q)
    BY <1>4 DEF Elements
  <2>2. Head(q) \in Elements(q)
    BY <1>1, <1>5 DEF Elements
  <2>3. \A x \in Elements(q) : x = Head(q) \/ x \in Elements(Tail(q))
    BY <1>1, <1>7 DEF Elements
  <2> QED
    BY <2>1, <2>2, <2>3
<1>9. \A x \in Elements(Tail(q)) : x \in G /\ Head(q) \in G => x.key # Head(q).key
  BY <1>1, <1>4, <1>5 DEF Elements, Apart
<1> QED
  BY <1>1, <1>2, <1>6, <1>8, <1>9

\* Two sequences, one behind the other.
LEMMA JoinedApart ==
    ASSUME NEW T, NEW G, NEW p \in Seq(T), NEW q \in Seq(T), Apart(p, G), Apart(q, G),
           \A x \in Elements(p), y \in Elements(q) : x \in G /\ y \in G => x.key # y.key
    PROVE  p \o q \in Seq(T) /\ Elements(p \o q) = Elements(p) \cup Elements(q) /\ Apart(p \o q, G)
<1> DEFINE r == p \o q
<1>1. /\ Len(p) \in Nat /\ DOMAIN p = 1 .. Len(p)
      /\ Len(q) \in Nat /\ DOMAIN q = 1 .. Len(q)
  BY LenProperties
<1>2. /\ r \in Seq(T) /\ Len(r) = Len(p) + Len(q)
      /\ \A i \in 1 .. Len(p) + Len(q) : r[i] = IF i <= Len(p) THEN p[i] ELSE q[i - Len(p)]
  BY ConcatProperties
<1>3. DOMAIN r = 1 .. Len(p) + Len(q)
  BY <1>2, LenProperties
<1> HIDE DEF r
<1>4. \A i \in DOMAIN p : i \in DOMAIN r /\ r[i] = p[i]
  BY <1>1, <1>2, <1>3
<1>5. ASSUME NEW i \in DOMAIN q PROVE i + Len(p) \in DOMAIN r /\ r[i + Len(p)] = q[i]
  <2>1. i + Len(p) \in 1 .. Len(p) + Len(q) /\ ~(i + Len(p) <= Len(p)) /\ (i + Len(p)) - Len(p) = i
    BY <1>1
  <2> QED
    BY <1>2, <1>3, <2>1
<1>6. ASSUME NEW i \in DOMAIN r
      PROVE  \/ i \in DOMAIN p /\ r[i] = p[i]
             \/ i - Len(p) \in DOMAIN q /\ r[i] = q[i - Len(p)]
  BY <1>1, <1>2, <1>3
<1>7. Elements(r) = Elements(p) \cup Elements(q)
  BY <1>4, <1>5, <1>6 DEF Elements
<1>8. \A i, j \in DOMAIN r : i - Len(p) = j - Len(p) => i = j
  BY <1>1, <1>3
<1>9. Apart(r, G)
  BY <1>6, <1>8 DEF Apart, Elements
<1> QED
  BY <1>2, <1>7, <1>9 DEF r

\* A sequence of one record.
LEMMA OneApart ==
    ASSUME NEW T, NEW G, NEW x \in T
    PROVE  <<x>> \in Seq(T) /\ Elements(<<x>>) = {x} /\ Apart(<<x>>, G)
<1>1. <<x>> \in Seq(T) /\ DOMAIN <<x>> = {1} /\ <<x>>[1] = x
  OBVIOUS
<1> QED
  BY <1>1 DEF Elements, Apart

\* A record pushed on a sequence that has none of its key.
LEMMA PushedApart ==
    ASSUME NEW T, NEW G, NEW q \in Seq(T), NEW x \in T, Apart(q, G),
           \A y \in Elements(q) : x \in G /\ y \in G => y.key # x.key
    PROVE  /\ Append(q, x) \in Seq(T) /\ Elements(Append(q, x)) = Elements(q) \cup {x}
           /\ Apart(Append(q, x), G)
<1>1. Append(q, x) = q \o <<x>>
  BY AppendIsConcat
<1>2. <<x>> \in Seq(T) /\ Elements(<<x>>) = {x} /\ Apart(<<x>>, G)
  BY OneApart
<1>3. \A y \in Elements(q), z \in Elements(<<x>>) : y \in G /\ z \in G => y.key # z.key
  BY <1>2
<1>4. q \o <<x>> \in Seq(T) /\ Elements(q \o <<x>>) = Elements(q) \cup Elements(<<x>>) /\ Apart(q \o <<x>>, G)
  BY Zenon, <1>2, <1>3, JoinedApart
<1> QED
  BY <1>1, <1>2, <1>4

\* A line taken is a line of its request.
LEMMA TookLine ==
    ASSUME lines \in [Keys -> Seq(Controls \cup {"generate"})], NEW k \in Keys,
           NEW line \in Controls \cup {"generate"}, Took(k, line)
    PROVE  /\ lines' \in [Keys -> Seq(Controls \cup {"generate"})]
           /\ Lines(k)' = Lines(k) \cup {line}
           /\ \A c \in Keys : c # k => Lines(c)' = Lines(c)
<1> DEFINE T == Controls \cup {"generate"}
<1>1. lines[k] \in Seq(T) /\ lines' = [lines EXCEPT ![k] = Append(lines[k], line)]
  BY DEF Took
<1>2. Append(lines[k], line) \in Seq(T)
  BY <1>1, AppendProperties
<1>3. Elements(Append(lines[k], line)) = Elements(lines[k]) \cup {line}
  <2>1. Apart(lines[k], {}) /\ \A y \in Elements(lines[k]) : line \in {} /\ y \in {} => y.key # line.key
    BY DEF Apart
  <2>2. lines[k] \in Seq(T) /\ line \in T
    BY <1>1
  <2> HIDE DEF T
  <2> QED
    BY <2>1, <2>2, PushedApart
<1>4. \A c \in Keys : Lines(c)' = Elements(lines'[c]) /\ Lines(c) = Elements(lines[c])
  BY DEF Lines, Elements
<1> QED
  BY <1>1, <1>2, <1>3, <1>4

----------------------------------------------------------------------------
(* Steps of main outside the driver *)

\* What the invariant says of one occupied lane.
LEMMA LaneOwner ==
    ASSUME SchedulerInv, NEW l \in Occupied
    PROVE  /\ l \in Lanes /\ lanes[l] \in OccupiedLanes /\ lanes[l].key \in Keys
           /\ pending[lanes[l].key] # None /\ lanes[l].key \notin Elements(inbox)
           /\ \A m \in Occupied : lanes[m].key = lanes[l].key => m = l
           /\ lanes[l].ticket \in Tickets /\ lanes[l].ticket.admission \in Generations
<1>1. l \in Lanes /\ lanes[l] \in OccupiedLanes
  BY SchedulerAssumption DEF SchedulerInv, SchedulerTypeOK, Occupied
<1>2. lanes[l].key \in Keys /\ lanes[l].ticket \in Tickets
  BY <1>1 DEF OccupiedLanes
<1>3. lanes[l].key \in LaneKeys
  BY DEF LaneKeys
<1> QED
  BY <1>1, <1>2, <1>3 DEF SchedulerInv, HeldOnce, Elements, Queued, Tickets

\* A quiet step is tame, and loses no token.
LEMMA QuietTame ==
    ASSUME NEW k \in Keys, Quiet(k), UNCHANGED schedulerVars, UNCHANGED lines
    PROVE  Tame /\ transfers \subseteq transfers'
<1>1. transfers \subseteq transfers'
  BY Zenon DEF Quiet, terminalVars, claim_wire_terminal, activate_terminal_control,
     mark_terminal_control_ready, TerminalWaitTimesOut, DeadlinePasses, clear_terminal_control,
     adopt_singleton_transfer, batch_transition_to_queued, batch_clear_terminal_at_generation,
     batch_clear_terminal, batch_handoff_to_singleton_and_clear
<1> QED
  BY <1>1 DEF Tame

\* A step of the scheduler touches no token.
LEMMA DriverTame ==
    ASSUME DriverStep, UNCHANGED lines
    PROVE  Tame /\ transfers' = transfers
<1> DEFINE Same == transfers' = transfers
<1>1. ASSUME try_assign_one PROVE Same
  BY <1>1 DEF try_assign_one
<1>2. ASSUME fail_all_active PROVE Same
  BY <1>2 DEF fail_all_active
<1>3. ASSUME NEW l \in Lanes, mark_awaiting_commit(l) PROVE Same
  BY <1>3 DEF mark_awaiting_commit, batch_mark_ready_with_pending
<1>4. ASSUME NEW l \in Lanes, LaneDeadlinePasses(l) PROVE Same
  BY <1>4 DEF LaneDeadlinePasses, terminalVars
<1>5. ASSUME NEW k \in Keys, NEW g \in Generations, abort_queued(k, g) PROVE Same
  BY <1>5 DEF abort_queued, batch_clear_terminal_at_generation, batch_clear_terminal
<1>6. ASSUME NEW k \in Keys, NEW g \in Generations, NEW s \in Samplings, enqueue(k, g, s) PROVE Same
  BY <1>6 DEF enqueue, terminalVars
<1>7. ASSUME NEW k \in Keys, NEW g \in Generations, NEW s \in Samplings, adopt_running(k, g, s) PROVE Same
  BY <1>7 DEF adopt_running, terminalVars
<1>8. ASSUME NEW k \in Keys, NEW g \in Generations, NEW l \in Lanes,
             commit_lane_retain_terminal(l, k, g) \/ abort_lane(l, k, g) \/ retire_lane_for_singleton(l, k, g)
      PROVE  Same
  BY <1>8 DEF commit_lane_retain_terminal, abort_lane, retire_lane_for_singleton, terminalVars,
              batch_clear_terminal_at_generation, batch_clear_terminal
<1>9. Same
  BY <1>1, <1>2, <1>3, <1>4, <1>5, <1>6, <1>7, <1>8 DEF DriverStep
<1> QED
  BY <1>9 DEF Tame

\* An empty scheduler is emptied, and the registry cleared.
LEMMA ResetTame ==
    ASSUME RegistryInv, UNCHANGED lines, \A k \in Keys : pending[k] = None,
           EmptyScheduler \/ UNCHANGED schedulerVars, batch_clear_all_terminals
    PROVE  /\ Tame /\ transfers' = transfers
           /\ UNCHANGED schedulerVars
<1>1. Occupied = {} /\ Queued = {} /\ LaneKeys = {}
  BY LaneOwner DEF RegistryInv, SchedulerInv, HeldOnce, LaneKeys, SchedulerTypeOK, Queued
<1>2. inbox = <<>>
  <2>1. inbox \in Seq(Keys) /\ DOMAIN inbox = {}
    BY Zenon, <1>1 DEF Queued, RegistryInv, SchedulerInv, SchedulerTypeOK
  <2> QED
    BY <2>1, LenProperties, EmptySeq
<1>3. cohort_key = None /\ \A l \in Lanes : lanes[l] = None
  BY <1>1 DEF Occupied, RegistryInv, SchedulerInv, OneCohort
<1>4. UNCHANGED schedulerVars
  BY <1>1, <1>2, <1>3 DEF EmptyScheduler, schedulerVars, RegistryInv, SchedulerInv, SchedulerTypeOK
<1> QED
  BY <1>4 DEF Tame, ResetTerminals, batch_clear_all_terminals

\* A step beside the registry.
LEMMA RestTame ==
    ASSUME UNCHANGED terminalVars, UNCHANGED schedulerVars, UNCHANGED lines
    PROVE  Tame /\ transfers' = transfers
  BY DEF Tame, terminalVars

\* The token a hand-off makes.
LEMMA TransferType ==
    ASSUME TerminalTypeOK, NEW k \in Keys, NEW g, batch_handoff_to_singleton_and_clear(k, g)
    PROVE  TransferOf(k) \in Transfers
<1>1. entries[k] \in Entries
  BY DEF TerminalTypeOK, batch_handoff_to_singleton_and_clear, batch_is_current
<1>2. Owns(k) => active \in Singletons
  BY DEF TerminalTypeOK, Owns
<1> QED
  BY <1>1, <1>2 DEF TransferOf, Transfers, Entries

\* Outside the driver there is no list, and no item but an adoption.
LEMMA SoloFacts ==
    ASSUME FlowInv, main.pc \notin Driver
    PROVE  /\ work = <<>> /\ Todo = {}
           /\ main.pc \notin {"adopt", "adopt_think"} => main.item = None
<1>1. work = <<>>
  BY DEF FlowInv, WorkInv, Driver
<1>2. Todo = {}
  BY <1>1 DEF Todo, Elements
<1>3. main.pc \notin {"adopt", "adopt_think"} => main.item = None
  BY DEF FlowInv, ItemInv, Driver
<1> QED
  BY <1>1, <1>2, <1>3

\* A step with the request main handles, and with nothing else.
LEMMA SoloStep ==
    ASSUME FlowInv, main.pc \notin Idle \cup Driver,
           main' \in MainRecords, main'.msg = main.msg, main'.pc \notin Driver,
           IF main'.pc \in {"adopt", "adopt_think"} THEN AdoptionOf(Key)' ELSE main'.item = None,
           NEW events \in Seq(WireEvents), wire' = [wire EXCEPT ![Key] = events],
           Stage(main'.pc, events, "commit" \in Lines(Key)),
           UNCHANGED <<queue, work, streamed>>, UNCHANGED schedulerVars, UNCHANGED readerVars,
           batch_poisoned' \in BOOLEAN, transfers \subseteq transfers'
    PROVE  FlowInv'
<1> USE NoItemAssumption DEF FlowInv
<1>1. /\ main.msg \in Generates /\ Key \in Keys /\ wire \in [Keys -> Seq(WireEvents)]
      /\ wire'[Key] = events /\ \A k \in Keys : k # Key => wire'[k] = wire[k]
  BY DEF ThreadTypes, Generates, Key
<1>2. Key' = Key /\ \A k : Lines(k)' = Lines(k)
  BY DEF Key, Lines, readerVars
<1>3. work = <<>> /\ work' = <<>> /\ Todo' = {} /\ \A k \in Keys : pending'[k] = None
  BY SoloFacts DEF Todo, Elements, MainInv, schedulerVars
<1>4. Mail' = Mail /\ \A k : Handles(k)' => Handles(k)
  BY DEF Mail, Elements, Handles
<1>5. ThreadTypes'
  BY <1>1, <1>3 DEF ThreadTypes, readerVars
<1>6. ReadInv'
  BY <1>1, <1>2 DEF ReadInv, MainInv, readerVars
<1>7. QueueInv'
  <2>1. \A m \in Mail : m.key # Key /\ m.key \in Keys
    BY DEF QueueInv, Handles, Key, Mail, Generates
  <2> QED
    BY <1>1, <1>2, <1>3, <1>4, <2>1 DEF QueueInv
<1>8. MainInv'
  BY <1>1, <1>2, <1>3 DEF MainInv
<1>9. WorkInv'
  BY <1>3 DEF WorkInv, Apart
<1>10. ItemInv'
  BY <1>2 DEF ItemInv, AdoptionOf, Adoptions
<1>11. HeldInv'
  BY <1>3 DEF HeldInv
<1>12. StreamInv'
  BY <1>3, SoloFacts DEF StreamInv, Running, Occupied, schedulerVars, Driver
<1>13. TokenInv'
  BY <1>2, <1>4 DEF TokenInv, Minted, AdoptionOf, Key
<1> QED
  BY <1>5, <1>6, <1>7, <1>8, <1>9, <1>10, <1>11, <1>12, <1>13

----------------------------------------------------------------------------
(* What may be written *)

\* The phases of the wires main writes.
LEMMA Phases ==
    ASSUME NEW read
    PROVE  /\ PhaseOf(<<>>, read) = IF read THEN "open" ELSE "new"
           /\ PhaseOf(Started, read) = "started"
           /\ PhaseOf(Offered, read) = "offered"
           /\ PhaseOf(<<"start", "aborted">>, read) = "aborted"
           /\ \A t \in Terminals : /\ PhaseOf(Append(<<>>, t), read) = t
                                   /\ PhaseOf(Append(Started, t), read) = t
                                   /\ PhaseOf(Append(Offered, t), read) = t
<1>1. PhaseOf(<<>>, read) = IF read THEN "open" ELSE "new"
  BY DEF PhaseOf
<1>2. ASSUME NEW events \in Seq(WireEvents), events # <<>>
      PROVE  LET last == events[Len(events)]
             IN  PhaseOf(events, read) = IF last = "start" THEN "started"
                                         ELSE IF last = "commit_ready" THEN "offered" ELSE last
  BY <1>2 DEF PhaseOf
<1>3. /\ Started \in Seq(WireEvents) /\ Started # <<>> /\ Started[Len(Started)] = "start"
      /\ Offered \in Seq(WireEvents) /\ Offered # <<>> /\ Offered[Len(Offered)] = "commit_ready"
  BY DEF Started, Offered, WireEvents
<1>4. LET e == <<"start", "aborted">>
      IN  e \in Seq(WireEvents) /\ e # <<>> /\ e[Len(e)] = "aborted"
  BY DEF WireEvents, Terminals
<1>5. ASSUME NEW t \in Terminals, NEW events \in Seq(WireEvents)
      PROVE  LET e == Append(events, t) IN e \in Seq(WireEvents) /\ e # <<>> /\ e[Len(e)] = t
  BY AppendProperties DEF WireEvents
<1>6. \A t \in Terminals : t # "start" /\ t # "commit_ready"
  BY DEF Terminals
<1>7. <<>> \in Seq(WireEvents)
  OBVIOUS
<1>8. ASSUME NEW t \in Terminals, NEW events \in Seq(WireEvents)
      PROVE  PhaseOf(Append(events, t), read) = t
  BY Zenon, <1>2, <1>5, <1>6
<1> QED
  BY Zenon, <1>1, <1>2, <1>3, <1>4, <1>7, <1>8

\* What is lawful is a step of the contract.
LEMMA LawfulStep ==
    ASSUME ThreadTypes, UNCHANGED lines, Lawful
    PROVE  [Contract!Next]_(Contract!contract)
<1> DEFINE phases == [c \in Keys |-> Phase(c)]
           commits == {c \in Keys : "commit" \in Lines(c)}
<1>1. PICK k \in Keys : "generate" \in Lines(k) /\ \E events : Writes(k, events)
  BY DEF Lawful
<1>2. PICK events : Writes(k, events)
  BY <1>1
<1>3. \A c : Lines(c)' = Lines(c)
  BY DEF Lines
<1>4. commits' = commits
  BY <1>3
<1>5. wire \in [Keys -> Seq(WireEvents)] /\ wire' = [wire EXCEPT ![k] = events]
  BY <1>2 DEF Writes, ThreadTypes
<1>6. phases' = [phases EXCEPT ![k] = PhaseOf(events, TRUE)]
  BY Zenon, <1>1, <1>3, <1>5 DEF Phase
<1>7. phases[k] = PhaseOf(wire[k], TRUE) /\ DOMAIN phases = Keys
  BY Zenon, <1>1 DEF Phase
<1>8. "commit" \in Lines(k) => k \in commits
  OBVIOUS
<1> DEFINE from == phases[k]
           to == PhaseOf(events, TRUE)
           Fits == /\ from = to \/ from \in {"open", "started", "offered"}
                   /\ \/ from = to
                      \/ from = "open" /\ to = "started"
                      \/ from = "started" /\ to = "offered"
                      \/ to = "aborted"
                      \/ to = "error"
                      \/ from = "offered" /\ k \in commits /\ to = "done"
<1>9. Fits
  <2> DEFINE old == wire[k]
  <2>1. Legal(old, events, "commit" \in Lines(k))
    BY <1>2 DEF Writes
  <2>2. "aborted" \in Terminals /\ "error" \in Terminals /\ "done" \in Terminals
    BY DEF Terminals
  <2>3. /\ PhaseOf(<<>>, TRUE) = "open" /\ PhaseOf(Started, TRUE) = "started"
        /\ PhaseOf(Offered, TRUE) = "offered" /\ PhaseOf(<<"start", "aborted">>, TRUE) = "aborted"
        /\ \A t \in Terminals : /\ PhaseOf(Append(<<>>, t), TRUE) = t
                                /\ PhaseOf(Append(Started, t), TRUE) = t
                                /\ PhaseOf(Append(Offered, t), TRUE) = t
    BY Zenon, Phases
  <2>4. from = PhaseOf(old, TRUE)
    BY <1>7
  <2> HIDE DEF phases, commits, old
  <2>5. CASE events = old
    BY <2>4, <2>5
  <2>6. CASE old = <<>> /\ events \in {Started, <<"start", "aborted">>}
    BY Zenon, <2>3, <2>4, <2>6
  <2>7. CASE old = Started /\ events = Offered
    BY Zenon, <2>3, <2>4, <2>7
  <2>8. CASE old \in {<<>>, Started, Offered} /\ \E t \in {"aborted", "error"} : events = Append(old, t)
    <3>1. PICK t \in {"aborted", "error"} : events = Append(old, t)
      BY <2>8
    <3>2. t \in Terminals
      BY <2>2
    <3>3. to = t
      BY Zenon, <2>3, <2>8, <3>1, <3>2
    <3>4. from \in {"open", "started", "offered"}
      BY Zenon, <2>3, <2>4, <2>8
    <3> QED
      BY Zenon, <3>3, <3>4
  <2>9. CASE old = Offered /\ "commit" \in Lines(k) /\ events = Append(old, "done")
    BY Zenon, <1>8, <2>2, <2>3, <2>4, <2>9
  <2> QED
    BY Zenon, <2>1, <2>5, <2>6, <2>7, <2>8, <2>9 DEF Legal
<1>10. Contract!contract = <<phases, commits>>
  BY DEF Contract!contract
<1>11. CASE from = to
  <2>1. phases' = phases
    <3>1. [phases EXCEPT ![k] = phases[k]] = phases
      OBVIOUS
    <3> HIDE DEF phases, to
    <3> QED
      BY Zenon, <1>6, <1>11, <3>1 DEF to
  <2> QED
    BY <1>4, <2>1 DEF Contract!contract
<1>12. CASE from # to
  <2>1. /\ from \in {"open", "started", "offered"} /\ phases' = [phases EXCEPT ![k] = to] /\ commits' = commits
    BY Zenon, <1>4, <1>6, <1>9, <1>12
  <2>2. Contract!Start(k) \/ Contract!Offer(k) \/ Contract!Done(k) \/ Contract!Abort(k) \/ Contract!Fail(k)
    BY Zenon, <1>9, <1>12, <2>1 DEF Contract!Start, Contract!Offer, Contract!Done, Contract!Abort, Contract!Fail,
       Contract!Move
  <2> QED
    BY <2>2 DEF Contract!Next
<1> QED
  BY Zenon, <1>11, <1>12

\* A step that leaves the wire alone.
LEMMA Unwritten ==
    ASSUME ThreadTypes, NEW k \in Keys, UNCHANGED wire
    PROVE  Writes(k, wire[k])
<1>1. wire \in [Keys -> Seq(WireEvents)]
  BY DEF ThreadTypes
<1> QED
  BY <1>1 DEF Writes, Legal

\* One event.
LEMMA OneWritten ==
    ASSUME ThreadTypes, NEW k \in Keys, NEW event \in WireEvents, Write(k, event),
           Legal(wire[k], Append(wire[k], event), "commit" \in Lines(k))
    PROVE  Writes(k, Append(wire[k], event))
<1>1. wire \in [Keys -> Seq(WireEvents)]
  BY DEF ThreadTypes
<1>2. Append(wire[k], event) \in Seq(WireEvents)
  BY <1>1, AppendProperties
<1> QED
  BY <1>1, <1>2 DEF Writes, Write

\* The first events.
LEMMA Openings ==
    /\ Append(<<>>, "start") = Started
    /\ <<>> \o <<"start", "aborted">> = <<"start", "aborted">>
    /\ Append(Started, "commit_ready") = Offered
    /\ <<"start", "aborted">> \in Seq(WireEvents)
<1>1. <<"start", "aborted">> \in Seq(WireEvents)
  BY DEF WireEvents, Terminals
<1>2. <<>> \o <<"start", "aborted">> = <<"start", "aborted">>
  BY <1>1, ConcatEmptySeq
<1>3. Append(<<>>, "start") = <<"start">>
  <2>1. <<>> \in Seq(WireEvents) /\ <<"start">> \in Seq(WireEvents) /\ "start" \in WireEvents
    BY DEF WireEvents
  <2>2. Append(<<>>, "start") = <<>> \o <<"start">>
    BY <2>1, AppendIsConcat
  <2> QED
    BY <2>1, <2>2, ConcatEmptySeq
<1>4. Append(<<"start">>, "commit_ready") = <<"start", "commit_ready">>
  <2>1. PICK x \in WireEvents : x = "commit_ready"
    BY DEF WireEvents
  <2> DEFINE s == <<"start">>
             a == Append(s, x)
             b == <<"start", "commit_ready">>
  <2>2. s \in Seq(WireEvents) /\ Len(s) = 1 /\ s[1] = "start"
    BY DEF WireEvents
  <2>3. b \in Seq(WireEvents) /\ Len(b) = 2 /\ b[1] = "start" /\ b[2] = "commit_ready"
    BY DEF WireEvents
  <2> HIDE DEF s, b
  <2>4. a \in Seq(WireEvents) /\ Len(a) = 2 /\ a[1] = "start" /\ a[2] = x
    <3>1. /\ a \in Seq(WireEvents) /\ Len(a) = Len(s) + 1
          /\ \A i \in 1 .. Len(s) : a[i] = s[i]
          /\ a[Len(s) + 1] = x
      <4>1. s \in Seq(WireEvents) /\ x \in WireEvents
        BY <2>1, <2>2
      <4>2. a \in Seq(WireEvents) /\ Len(a) = Len(s) + 1
        BY <4>1, AppendProperties
      <4>3. \A i \in 1 .. Len(s) : a[i] = s[i]
        BY <4>1, AppendProperties
      <4>4. a[Len(s) + 1] = x
        BY <4>1, AppendProperties
      <4> QED
        BY <4>2, <4>3, <4>4
    <3>2. Len(s) + 1 = 2 /\ 1 \in 1 .. Len(s)
      BY <2>2
    <3> HIDE DEF a
    <3> QED
      BY <2>2, <3>1, <3>2
  <2> HIDE DEF a
  <2>5. \A i \in 1 .. 2 : a[i] = b[i]
    BY <2>1, <2>3, <2>4
  <2>6. a = b
    BY <2>3, <2>4, <2>5, SeqEqual
  <2> QED
    BY <2>1, <2>6 DEF a, b, s
<1> QED
  BY <1>1, <1>2, <1>3, <1>4 DEF Started, Offered

\* A terminal writer writes its terminal or nothing.
LEMMA TerminalWritten ==
    ASSUME ThreadTypes, NEW k \in Keys, NEW scope \in Generations \cup {None},
           NEW event \in Terminals, wire[k] \in {<<>>, Started, Offered},
           event = "done" => wire[k] = Offered /\ "commit" \in Lines(k),
           WriteTerminal(k, scope, event)
    PROVE  Quiet(k) /\ \E events \in {wire[k], Append(wire[k], event)} : Writes(k, events)
<1>1. CASE ClaimGranted(k, scope)
  <2>1. claim_wire_terminal(k, scope) /\ Write(k, event)
    BY <1>1 DEF WriteTerminal
  <2>2. event \in WireEvents /\ Legal(wire[k], Append(wire[k], event), "commit" \in Lines(k))
    BY DEF Legal, Terminals, WireEvents
  <2>3. Writes(k, Append(wire[k], event))
    BY <2>1, <2>2, OneWritten
  <2> QED
    BY <2>1, <2>3 DEF Quiet
<1>2. CASE ~ClaimGranted(k, scope)
  <2>1. UNCHANGED terminalVars /\ UNCHANGED wire
    BY <1>2 DEF WriteTerminal
  <2> QED
    BY <2>1, Unwritten DEF Quiet
<1> QED
  BY <1>1, <1>2

\* A request aborted before it was started.
LEMMA CancelledWritten ==
    ASSUME ThreadTypes, NEW k \in Keys, NEW scope \in Generations \cup {None},
           wire[k] = <<>>, WriteCancelled(k, scope)
    PROVE  Quiet(k) /\ \E events : Writes(k, events)
<1>1. CASE ClaimGranted(k, scope)
  <2>1. claim_wire_terminal(k, scope) /\ wire' = [wire EXCEPT ![k] = <<"start", "aborted">>]
    BY <1>1, Openings DEF WriteCancelled
  <2> QED
    BY Zenon, <2>1, Openings DEF Quiet, Writes, Legal
<1>2. CASE ~ClaimGranted(k, scope)
  <2>1. UNCHANGED terminalVars /\ Write(k, "start")
    BY <1>2 DEF WriteCancelled
  <2>2. "start" \in WireEvents /\ Legal(wire[k], Append(wire[k], "start"), "commit" \in Lines(k))
    BY Openings DEF Legal, WireEvents
  <2> QED
    BY Zenon, <2>1, <2>2, OneWritten DEF Quiet
<1> QED
  BY <1>1, <1>2

----------------------------------------------------------------------------
(* The main loop and sequential generation *)

\* The request main handles.
LEMMA MsgFacts ==
    ASSUME FlowInv, main.pc \notin Idle
    PROVE  /\ main.msg \in Generates /\ Key \in Keys /\ Admission \in Generations
           /\ main.msg.transfer # None => main.msg.transfer \in transfers /\ main.msg.transfer.key = Key
           /\ main.scope \in Generations \cup {None}
           /\ "generate" \in Lines(Key) /\ Stage(main.pc, wire[Key], "commit" \in Lines(Key))
           /\ main.pc \notin Driver => \A k \in Keys : pending[k] = None
           /\ ThreadTypes
  BY DEF FlowInv, ThreadTypes, MainRecords, MainInv, TokenInv, Minted, Generates, Key, Admission

\* The scope a writer enters.
LEMMA ScopeType ==
    ASSUME NEW k, NEW g \in Generations
    PROVE  EnterScope(k, g) \in Generations \cup {None}
  BY DEF EnterScope

\* Going on to another place.
LEMMA GotoFacts ==
    ASSUME FlowInv, NEW pc \in Places, Goto(pc)
    PROVE  /\ main' \in MainRecords /\ main'.pc = pc /\ main'.msg = main.msg
           /\ main'.scope = main.scope /\ main'.item = main.item
  BY Zenon DEF FlowInv, ThreadTypes, MainRecords, Goto

\* A step with the request main handles, to another place outside the driver.
LEMMA SoloMove ==
    ASSUME ServeInv, main.pc \notin Idle \cup Driver, main' \in MainRecords, main'.msg = main.msg,
           main'.item = None, main'.pc \notin Driver \cup {"adopt", "adopt_think"},
           Quiet(Key), NEW events, Writes(Key, events),
           Stage(main'.pc, events, "commit" \in Lines(Key)),
           UNCHANGED <<schedulerVars, driverVars, queue, readerVars>>
    PROVE  Kept /\ Lawful
<1>1. UNCHANGED lines /\ UNCHANGED schedulerVars /\ UNCHANGED readerVars /\ UNCHANGED <<queue, work, streamed>>
      /\ batch_poisoned' = batch_poisoned
  BY DEF readerVars, driverVars
<1>2. Key \in Keys /\ "generate" \in Lines(Key) /\ batch_poisoned \in BOOLEAN
  BY MsgFacts DEF ServeInv, ThreadTypes
<1>3. Tame /\ transfers \subseteq transfers'
  BY <1>1, <1>2, QuietTame DEF ServeInv
<1>4. FlowInv'
  BY Zenon, <1>1, <1>2, <1>3, SoloStep DEF ServeInv, Writes
<1> QED
  BY <1>2, <1>3, <1>4 DEF Kept, Lawful

\* The same, with nothing on the wire.
LEMMA SilentMove ==
    ASSUME ServeInv, main.pc \notin Idle \cup Driver, main' \in MainRecords, main'.msg = main.msg,
           main'.item = None, main'.pc \notin Driver \cup {"adopt", "adopt_think"}, Quiet(Key),
           Stage(main'.pc, wire[Key], "commit" \in Lines(Key)),
           UNCHANGED <<schedulerVars, driverVars, queue, readerVars>>, UNCHANGED wire
    PROVE  Kept /\ Lawful
<1>1. Key \in Keys /\ ThreadTypes
  BY MsgFacts DEF ServeInv
<1>2. Writes(Key, wire[Key])
  BY <1>1, Unwritten
<1> QED
  BY <1>2, SoloMove

\* A terminal for the request, after which main lets go of it.
LEMMA TerminalMove ==
    ASSUME ServeInv, main.pc \notin Idle \cup Driver \cup {"adopt", "adopt_think"},
           wire[Key] \in {<<>>, Started, Offered}, NEW scope \in Generations \cup {None},
           NEW event \in Terminals, event = "done" => wire[Key] = Offered /\ "commit" \in Lines(Key),
           WriteTerminal(Key, scope, event), NEW pc \in {"refused", "leave"}, Goto(pc),
           UNCHANGED <<schedulerVars, driverVars, queue, readerVars>>
    PROVE  Kept /\ Lawful
<1>1. Key \in Keys /\ ThreadTypes /\ FlowInv
  BY MsgFacts DEF ServeInv
<1>2. PICK events : Writes(Key, events)
  BY <1>1, TerminalWritten
<1>3. Quiet(Key)
  BY <1>1, TerminalWritten
<1>4. pc \in Places /\ pc \notin Driver \cup {"adopt", "adopt_think"} /\ main.item = None
  BY <1>1, SoloFacts DEF Places, Leaving, Driver
<1>5. main' \in MainRecords /\ main'.pc = pc /\ main'.msg = main.msg /\ main'.item = None
  BY <1>1, <1>4, GotoFacts
<1>6. Stage(main'.pc, events, "commit" \in Lines(Key))
  BY <1>5 DEF Stage, Unstarted
<1> QED
  BY <1>2, <1>3, <1>4, <1>5, <1>6, SoloMove

\* The refusals, and the ends of sequential generation.
LEMMA TerminalSteps ==
    ASSUME ServeInv, UNCHANGED readerVars,
           \/ RefusePoisoned \/ RefuseInvalid \/ SequentialError \/ SequentialTerminal
    PROVE  Kept /\ Lawful
<1> USE DEF Idle, Driver, Unstarted, Stage
<1>1. FlowInv
  BY DEF ServeInv
<1>2. "error" \in Terminals /\ "done" \in Terminals /\ "aborted" \in Terminals
  BY DEF Terminals
<1>3. main.pc \in {"dispatch", "route", "admit", "generate", "sequential", "done", "cancel"}
  BY DEF RefusePoisoned, RefuseInvalid, SequentialError, SequentialTerminal, At
<1>4. /\ Admission \in Generations /\ main.scope \in Generations \cup {None}
      /\ EnterScope(Key, Admission) \in Generations \cup {None}
      /\ Stage(main.pc, wire[Key], "commit" \in Lines(Key))
  BY <1>1, <1>3, MsgFacts, ScopeType
<1>5. wire[Key] \in {<<>>, Started, Offered}
  BY <1>3, <1>4
<1> DEFINE at == main.pc \notin Idle \cup Driver \cup {"adopt", "adopt_think"}
<1>6. at
  BY <1>3
<1> HIDE DEF Idle, Driver, Unstarted
<1>7. CASE RefusePoisoned
  <2>1. /\ WriteTerminal(Key, EnterScope(Key, Admission), "error") /\ Goto("refused")
        /\ UNCHANGED <<schedulerVars, driverVars, queue, readerVars>>
    BY <1>7 DEF RefusePoisoned
  <2> QED
    BY <1>2, <1>4, <1>5, <1>6, <2>1, TerminalMove
<1>8. CASE RefuseInvalid
  <2> DEFINE scope == IF At("admit") THEN EnterScope(Key, Admission) ELSE main.scope
  <2>1. /\ WriteTerminal(Key, scope, "error") /\ Goto("leave") /\ scope \in Generations \cup {None}
        /\ UNCHANGED <<schedulerVars, driverVars, queue, readerVars>>
    BY <1>4, <1>8 DEF RefuseInvalid
  <2> HIDE DEF scope
  <2> QED
    BY <1>2, <1>5, <1>6, <2>1, TerminalMove
<1>9. CASE SequentialError
  <2>1. /\ WriteTerminal(Key, main.scope, "error") /\ Goto("leave")
        /\ UNCHANGED <<schedulerVars, driverVars, queue, readerVars>>
    BY <1>9 DEF SequentialError
  <2> QED
    BY <1>2, <1>4, <1>5, <1>6, <2>1, TerminalMove
<1>10. CASE SequentialTerminal
  <2> DEFINE event == IF At("done") THEN "done" ELSE "aborted"
  <2>1. /\ WriteTerminal(Key, main.scope, event) /\ Goto("leave")
        /\ UNCHANGED <<schedulerVars, driverVars, queue, readerVars>>
    BY <1>10 DEF SequentialTerminal
  <2>2. event = "done" => wire[Key] = Offered /\ "commit" \in Lines(Key)
    BY <1>4 DEF At
  <2>3. event \in Terminals
    BY <1>2
  <2> HIDE DEF event
  <2> QED
    BY <1>4, <1>5, <1>6, <2>1, <2>2, <2>3, TerminalMove
<1> QED
  BY <1>7, <1>8, <1>9, <1>10

\* Main goes on with its request, by Goto.
LEMMA SilentGoto ==
    ASSUME ServeInv, main.pc \notin Idle \cup Driver \cup {"adopt", "adopt_think"},
           NEW pc \in Places \ (Driver \cup {"adopt", "adopt_think"}), Goto(pc), Quiet(Key),
           Stage(pc, wire[Key], "commit" \in Lines(Key)),
           UNCHANGED <<schedulerVars, driverVars, queue, readerVars>>, UNCHANGED wire
    PROVE  Kept /\ Lawful
<1>1. FlowInv
  BY DEF ServeInv
<1>2. main.item = None
  BY <1>1, SoloFacts
<1>3. main' \in MainRecords /\ main'.pc = pc /\ main'.msg = main.msg /\ main'.item = None
  BY <1>1, <1>2, GotoFacts
<1> QED
  BY <1>3, SilentMove

\* Retiring an admission the scheduler does not hold.
LEMMA QuietClear ==
    ASSUME NEW k \in Keys, NEW g \in Generations, pending[k] = None, ClearAdmission(k, g)
    PROVE  Quiet(k)
  BY DEF ClearAdmission, Quiet

\* The ends of the generate arm.
LEMMA LeavingSteps ==
    ASSUME ServeInv, UNCHANGED readerVars, RetireRefused \/ Leave \/ Left
    PROVE  Kept /\ Lawful
<1>1. FlowInv
  BY DEF ServeInv
<1>2. main.pc \in {"refused", "leave", "left"}
  BY DEF RetireRefused, Leave, Left, At
<1>3. main.pc \notin Idle \cup Driver \cup {"adopt", "adopt_think"}
  BY <1>2 DEF Idle, Driver
<1>4. Key \in Keys /\ Admission \in Generations /\ pending[Key] = None
  BY <1>1, <1>3, MsgFacts
<1>5. PICK pc \in {"left", "recv"} : Goto(pc)
  BY DEF RetireRefused, Leave, Left
<1>6. pc \in Places \ (Driver \cup {"adopt", "adopt_think"})
  BY DEF Places, Leaving, Idle, Driver
<1>7. Stage(pc, wire[Key], "commit" \in Lines(Key))
  BY DEF Stage, Unstarted
<1>8. UNCHANGED <<schedulerVars, driverVars, queue, readerVars>> /\ UNCHANGED wire
  BY DEF RetireRefused, Leave, Left
<1>9. Quiet(Key)
  <2>1. ClearAdmission(Key, Admission) \/ UNCHANGED terminalVars \/ clear_terminal_control
    BY DEF RetireRefused, Leave, Left
  <2> QED
    BY <1>4, <2>1, QuietClear DEF Quiet
<1> QED
  BY <1>3, <1>5, <1>6, <1>7, <1>8, <1>9, SilentGoto

\* The sequential producer's steps that write nothing.
LEMMA SequentialSteps ==
    ASSUME ServeInv, UNCHANGED readerVars,
           \/ SequentialCancel \/ SequentialFinish \/ AwaitDecision \/ AwaitTimeout
    PROVE  Kept /\ Lawful
<1>1. FlowInv
  BY DEF ServeInv
<1>2. main.pc \in {"sequential", "await"}
  BY DEF SequentialCancel, SequentialFinish, AwaitDecision, AwaitTimeout, At
<1>3. main.pc \notin Idle \cup Driver \cup {"adopt", "adopt_think"}
  BY <1>2 DEF Idle, Driver
<1>4. Key \in Keys /\ Stage(main.pc, wire[Key], "commit" \in Lines(Key))
  BY <1>1, <1>3, MsgFacts
<1>5. /\ {"cancel", "publish_ready", "done"} \subseteq Places \ (Driver \cup {"adopt", "adopt_think"})
  BY DEF Places, Sequential, Driver
<1>6. UNCHANGED <<schedulerVars, driverVars, queue, readerVars>> /\ UNCHANGED wire
  BY DEF SequentialCancel, SequentialFinish, AwaitDecision, AwaitTimeout, batchVars
<1>7. Quiet(Key)
  BY DEF SequentialCancel, SequentialFinish, AwaitDecision, AwaitTimeout, batchVars, Quiet
<1>8. wire[Key] \in {Started, Offered}
  BY <1>2, <1>4 DEF Stage
<1>9. CASE Goto("cancel")
  <2>1. Stage("cancel", wire[Key], "commit" \in Lines(Key))
    BY <1>8 DEF Stage, Unstarted
  <2> QED
    BY <1>3, <1>5, <1>6, <1>7, <1>9, <2>1, SilentGoto
<1>10. CASE SequentialFinish /\ Goto("publish_ready")
  <2>1. Stage("publish_ready", wire[Key], "commit" \in Lines(Key))
    BY <1>4, <1>10 DEF Stage, Unstarted, SequentialFinish, At
  <2> QED
    BY <1>3, <1>5, <1>6, <1>7, <1>10, <2>1, SilentGoto
<1>11. CASE AwaitDecision /\ Owns(Key) /\ active.decision = "Commit" /\ Goto("done")
  <2>1. "commit" \in Lines(Key)
    BY <1>11 DEF ServeInv, RegistryInv, CommitInv, Owns
  <2>2. Stage("done", wire[Key], "commit" \in Lines(Key))
    BY <1>4, <1>11, <2>1 DEF Stage, Unstarted, AwaitDecision, At
  <2> QED
    BY <1>3, <1>5, <1>6, <1>7, <1>11, <2>2, SilentGoto
<1> QED
  BY <1>9, <1>10, <1>11 DEF SequentialCancel, SequentialFinish, AwaitDecision, AwaitTimeout

\* Activation, adoption and the routes, up to the start of the request.
LEMMA RouteSteps ==
    ASSUME ServeInv, UNCHANGED readerVars,
           \/ Activate \/ AdoptHandoff \/ RouteBatch \/ RouteHandoff \/ AdoptOwn \/ AdoptThink
    PROVE  Kept /\ Lawful
<1>1. FlowInv /\ TerminalTypeOK /\ main \in MainRecords
  BY DEF ServeInv, RegistryInv, FlowInv, ThreadTypes
<1>2. main.pc \in {"dispatch", "route", "adopt", "adopt_think"}
  BY DEF Activate, AdoptHandoff, RouteBatch, RouteHandoff, AdoptOwn, AdoptThink, At
<1>3. main.pc \notin Idle \cup Driver
  BY <1>2 DEF Idle, Driver
<1>4. /\ Key \in Keys /\ Admission \in Generations /\ pending[Key] = None
      /\ Stage(main.pc, wire[Key], "commit" \in Lines(Key))
      /\ EnterScope(Key, Admission) \in Generations \cup {None}
      /\ main.msg.transfer # None => main.msg.transfer \in transfers
  BY <1>1, <1>3, MsgFacts, ScopeType
<1>5. /\ main.pc \notin {"adopt", "adopt_think"} => main.item = None
      /\ main.pc \in {"adopt", "adopt_think"} => main.item.transfer \in transfers
  BY Zenon, <1>1, <1>3, SoloFacts DEF FlowInv, ItemInv, TokenInv, Minted
<1>6. UNCHANGED <<schedulerVars, driverVars, queue, readerVars>> /\ UNCHANGED wire
  BY DEF Activate, AdoptHandoff, RouteBatch, RouteHandoff, AdoptOwn, AdoptThink, batchVars
<1>7. Quiet(Key)
  <2>1. CASE Activate
    BY <2>1 DEF Activate, Quiet
  <2>2. CASE AdoptHandoff
    BY Zenon, <1>4, <2>2 DEF AdoptHandoff, Quiet
  <2>3. CASE RouteBatch
    BY Zenon, <1>4, <2>3 DEF RouteBatch, Quiet
  <2>4. CASE RouteHandoff
    BY Zenon, <2>4 DEF RouteHandoff, Quiet, batchVars
  <2>5. CASE AdoptOwn \/ AdoptThink
    BY <1>5, <2>5 DEF AdoptOwn, AdoptThink, Quiet, At
  <2> QED
    BY <2>1, <2>2, <2>3, <2>4, <2>5
<1>8. {"route", "recv", "admit", "generate"} \subseteq Places \ (Driver \cup {"adopt", "adopt_think"})
  BY DEF Places, Unstarted, Idle, Driver
<1>9. /\ main' \in MainRecords /\ main'.msg = main.msg /\ main'.item = None
      /\ main'.pc \in {"route", "recv", "admit", "generate"}
  <2>1. CASE Activate
    BY Zenon, <1>1, <1>4, <1>5, <1>8, <2>1 DEF Activate, MainRecords, At
  <2>2. CASE AdoptHandoff \/ RouteBatch
    BY <1>1, <1>5, <1>8, <2>2 DEF AdoptHandoff, RouteBatch, MainRecords, At, Goto
  <2>3. CASE RouteHandoff \/ AdoptOwn
    BY Zenon, <1>1, <1>5, <1>8, <2>3 DEF RouteHandoff, AdoptOwn, MainRecords, Rebound
  <2>4. CASE AdoptThink
    BY Zenon, <1>1, <1>5, <1>8, <2>4 DEF AdoptThink, MainRecords
  <2> QED
    BY <2>1, <2>2, <2>3, <2>4
<1>10. wire[Key] = <<>>
  BY <1>2, <1>4 DEF Stage, Unstarted
<1>11. Stage(main'.pc, wire[Key], "commit" \in Lines(Key))
  BY <1>9, <1>10 DEF Stage, Unstarted
<1> QED
  BY <1>3, <1>6, <1>7, <1>8, <1>9, <1>11, SilentMove

\* The request is handed off, or there is nothing to hand off.
LEMMA HandOffSteps ==
    ASSUME ServeInv, UNCHANGED readerVars, RouteSequential \/ AdmitThink
    PROVE  Kept /\ Lawful
<1>1. FlowInv /\ TerminalTypeOK /\ main \in MainRecords /\ RegistryInv
  BY DEF ServeInv, RegistryInv, FlowInv, ThreadTypes
<1>2. main.pc \in {"route", "admit"}
  BY DEF RouteSequential, AdmitThink, At
<1>3. main.pc \notin Idle \cup Driver /\ main.pc \notin {"adopt", "adopt_think"}
  BY <1>2 DEF Idle, Driver
<1>4. /\ Key \in Keys /\ Admission \in Generations /\ pending[Key] = None /\ ThreadTypes
      /\ "generate" \in Lines(Key) /\ Stage(main.pc, wire[Key], "commit" \in Lines(Key))
  BY <1>1, <1>3, MsgFacts
<1>5. main.item = None /\ wire[Key] = <<>>
  BY <1>1, <1>2, <1>3, <1>4, SoloFacts DEF Stage, Unstarted
<1>6. PICK adopting \in {"adopt", "adopt_think"} : \E other \in {Rebound, [main EXCEPT !.pc = "generate"]} : HandOff(adopting, other)
  BY DEF RouteSequential, AdmitThink
<1>7. PICK other \in {Rebound, [main EXCEPT !.pc = "generate"]} : HandOff(adopting, other)
  BY <1>6
<1>8. {"adopt", "adopt_think", "generate"} \subseteq Places \ Driver
  BY DEF Places, Unstarted, Driver
<1>9. UNCHANGED <<schedulerVars, driverVars, queue, readerVars>> /\ UNCHANGED wire
  BY <1>7 DEF HandOff
<1>10. CASE batch_is_current(Key, Admission) /\ handoffs[Key] = None
  <2> DEFINE item == [act |-> "adopt", key |-> Key, transfer |-> TransferOf(Key)]
  <2>1. /\ batch_handoff_to_singleton_and_clear(Key, Admission)
        /\ main' = [main EXCEPT !.pc = adopting, !.item = item]
    BY <1>7, <1>10 DEF HandOff
  <2>2. UNCHANGED lines /\ UNCHANGED schedulerVars /\ UNCHANGED readerVars /\ UNCHANGED <<queue, work, streamed>>
        /\ batch_poisoned' = batch_poisoned
    BY <1>9 DEF readerVars, driverVars
  <2>3. Quiet(Key)
    BY <1>4, <2>1 DEF Quiet
  <2>4. Tame /\ transfers \subseteq transfers'
    BY <1>1, <1>4, <2>2, <2>3, QuietTame
  <2>5. TransferOf(Key) \in transfers' /\ TransferOf(Key).key = Key
    BY <2>1 DEF batch_handoff_to_singleton_and_clear, TransferOf
  <2>6. TransferOf(Key) \in Transfers
    BY <1>1, <1>4, <2>1, TransferType
  <2>7. item \in Adoptions /\ item.key = Key /\ item.transfer = TransferOf(Key)
    BY <1>4, <2>6 DEF Adoptions
  <2> HIDE DEF item
  <2>8. main' \in MainRecords /\ main'.pc = adopting /\ main'.msg = main.msg /\ main'.item = item
    BY Zenon, <1>1, <1>8, <2>1, <2>7 DEF MainRecords
  <2>9. AdoptionOf(Key)'
    BY <2>5, <2>7, <2>8 DEF AdoptionOf, Minted, Key
  <2>10. Stage(main'.pc, wire[Key], "commit" \in Lines(Key))
    BY <1>5, <2>8 DEF Stage, Unstarted
  <2>11. Writes(Key, wire[Key])
    BY <1>4, <1>9, Unwritten
  <2>12. wire[Key] \in Seq(WireEvents) /\ wire' = [wire EXCEPT ![Key] = wire[Key]] /\ batch_poisoned' \in BOOLEAN
    BY <1>4, <2>2, <2>11 DEF Writes, ThreadTypes
  <2>13. main'.pc \notin Driver /\ main'.pc \in {"adopt", "adopt_think"}
    BY <1>8, <2>8
  <2>14. FlowInv'
    BY Zenon, <1>1, <1>3, <2>2, <2>4, <2>8, <2>9, <2>10, <2>12, <2>13, SoloStep
  <2> QED
    BY <1>4, <2>4, <2>11, <2>14 DEF Kept, Lawful
<1>11. CASE ~(batch_is_current(Key, Admission) /\ handoffs[Key] = None)
  <2>1. UNCHANGED terminalVars /\ main' = other
    BY <1>7, <1>11 DEF HandOff
  <2>2. main' \in MainRecords /\ main'.pc = "generate" /\ main'.msg = main.msg /\ main'.item = None
    BY Zenon, <1>1, <1>5, <1>8, <2>1 DEF MainRecords, Rebound
  <2>3. Stage(main'.pc, wire[Key], "commit" \in Lines(Key)) /\ main'.pc \notin Driver \cup {"adopt", "adopt_think"}
    BY <1>5, <1>8, <2>2 DEF Stage, Unstarted
  <2>4. Quiet(Key)
    BY <2>1 DEF Quiet
  <2> QED
    BY <1>3, <1>9, <2>2, <2>3, <2>4, SilentMove
<1> QED
  BY <1>10, <1>11

\* The first events of a request outside the driver.
LEMMA EventSteps ==
    ASSUME ServeInv, UNCHANGED readerVars, AdmitAborted \/ GenerateStart \/ PublishReady
    PROVE  Kept /\ Lawful
<1>1. FlowInv /\ main \in MainRecords
  BY DEF ServeInv, FlowInv, ThreadTypes
<1>2. main.pc \in {"admit", "generate", "publish_ready"}
  BY DEF AdmitAborted, GenerateStart, PublishReady, At
<1>3. main.pc \notin Idle \cup Driver /\ main.pc \notin {"adopt", "adopt_think"}
  BY <1>2 DEF Idle, Driver
<1>4. /\ Key \in Keys /\ Admission \in Generations /\ ThreadTypes
      /\ EnterScope(Key, Admission) \in Generations \cup {None}
      /\ Stage(main.pc, wire[Key], "commit" \in Lines(Key))
  BY <1>1, <1>3, MsgFacts, ScopeType
<1>5. main.item = None
  BY <1>1, <1>3, SoloFacts
<1>6. UNCHANGED <<schedulerVars, driverVars, queue, readerVars>>
  BY DEF AdmitAborted, GenerateStart, PublishReady, batchVars
<1>7. {"leave", "sequential", "await"} \subseteq Places \ (Driver \cup {"adopt", "adopt_think"})
  BY DEF Places, Leaving, Sequential, Driver
<1>8. ASSUME NEW pc \in {"leave", "sequential", "await"}, Goto(pc), Quiet(Key), NEW events,
             Writes(Key, events), Stage(pc, events, "commit" \in Lines(Key))
      PROVE  Kept /\ Lawful
  <2>1. /\ main' \in MainRecords /\ main'.pc = pc /\ main'.msg = main.msg /\ main'.item = None
        /\ pc \notin Driver \cup {"adopt", "adopt_think"}
    BY <1>1, <1>5, <1>7, <1>8, GotoFacts
  <2> QED
    BY <1>3, <1>6, <1>8, <2>1, SoloMove
<1>9. CASE AdmitAborted
  <2>1. wire[Key] = <<>> /\ WriteCancelled(Key, EnterScope(Key, Admission)) /\ Goto("leave")
    BY <1>4, <1>9 DEF Stage, Unstarted, AdmitAborted, At
  <2>2. Quiet(Key)
    BY <1>4, <2>1, CancelledWritten
  <2>3. PICK events : Writes(Key, events)
    BY <1>4, <2>1, CancelledWritten
  <2>4. Stage("leave", events, "commit" \in Lines(Key))
    BY DEF Stage, Unstarted
  <2> QED
    BY <1>8, <2>1, <2>2, <2>3, <2>4
<1>10. CASE GenerateStart
  <2>1. wire[Key] = <<>> /\ Write(Key, "start") /\ Goto("sequential") /\ UNCHANGED terminalVars
    BY <1>4, <1>10 DEF Stage, Unstarted, GenerateStart, At, batchVars
  <2>2. "start" \in WireEvents /\ Legal(wire[Key], Append(wire[Key], "start"), "commit" \in Lines(Key))
    BY <2>1, Openings DEF Legal, WireEvents
  <2>3. Writes(Key, Append(wire[Key], "start")) /\ Append(wire[Key], "start") = Started
    BY Zenon, <1>4, <2>1, <2>2, OneWritten, Openings
  <2>4. Stage("sequential", Append(wire[Key], "start"), "commit" \in Lines(Key)) /\ Quiet(Key)
    BY <2>1, <2>3 DEF Stage, Unstarted, Quiet
  <2> QED
    BY <1>8, <2>1, <2>3, <2>4
<1>11. CASE PublishReady
  <2>1. wire[Key] = Started /\ Write(Key, "commit_ready") /\ Goto("await") /\ UNCHANGED terminalVars
    BY <1>4, <1>11 DEF Stage, PublishReady, At, batchVars
  <2>2. "commit_ready" \in WireEvents /\ Legal(wire[Key], Append(wire[Key], "commit_ready"), "commit" \in Lines(Key))
    BY <2>1, Openings DEF Legal, WireEvents
  <2>3. Writes(Key, Append(wire[Key], "commit_ready")) /\ Append(wire[Key], "commit_ready") = Offered
    BY <1>4, <2>1, <2>2, OneWritten, Openings
  <2>4. Stage("await", Append(wire[Key], "commit_ready"), "commit" \in Lines(Key)) /\ Quiet(Key)
    BY <2>1, <2>3 DEF Stage, Unstarted, Quiet
  <2> QED
    BY <1>8, <2>1, <2>3, <2>4
<1> QED
  BY <1>9, <1>10, <1>11

\* The batch route is poisoned.
LEMMA PoisonStep ==
    ASSUME ServeInv, UNCHANGED readerVars, Poison
    PROVE  Kept /\ Lawful
<1>1. FlowInv /\ RegistryInv /\ main \in MainRecords
  BY DEF ServeInv, FlowInv, ThreadTypes
<1>2. main.pc = "poison" /\ main.pc \notin Idle \cup Driver /\ main.pc \notin {"adopt", "adopt_think"}
  BY DEF Poison, At, Idle, Driver
<1>3. /\ Key \in Keys /\ ThreadTypes /\ "generate" \in Lines(Key) /\ \A k \in Keys : pending[k] = None
  BY <1>1, <1>2, MsgFacts
<1>4. /\ batch_clear_all_terminals /\ batch_poisoned' = TRUE /\ Goto("leave") /\ UNCHANGED wire
      /\ UNCHANGED schedulerVars /\ UNCHANGED <<queue, work, streamed>>
  BY DEF Poison
<1>5. UNCHANGED lines
  BY DEF readerVars
<1>6. Tame /\ transfers' = transfers
  BY <1>1, <1>3, <1>4, <1>5, ResetTame
<1>7. "leave" \in Places \ (Driver \cup {"adopt", "adopt_think"})
  BY DEF Places, Leaving, Driver
<1>8. main' \in MainRecords /\ main'.pc = "leave" /\ main'.msg = main.msg /\ main'.item = None
  BY <1>1, <1>2, <1>4, <1>7, GotoFacts, SoloFacts
<1>9. Writes(Key, wire[Key])
  BY <1>3, <1>4, Unwritten
<1>10. Stage(main'.pc, wire[Key], "commit" \in Lines(Key))
  BY <1>8 DEF Stage, Unstarted
<1>11. wire[Key] \in Seq(WireEvents) /\ wire' = [wire EXCEPT ![Key] = wire[Key]] /\ batch_poisoned' \in BOOLEAN
  BY Zenon, <1>4, <1>9 DEF Writes
<1>12. FlowInv'
  BY Zenon, <1>1, <1>2, <1>4, <1>6, <1>7, <1>8, <1>10, <1>11, SoloStep
<1> QED
  BY <1>3, <1>6, <1>9, <1>12 DEF Kept, Lawful

\* Main takes a message, or is done with a reset.
LEMMA IdleStep ==
    ASSUME FlowInv, main.pc \in Idle, main' \in MainRecords, main'.item = None,
           main'.pc \in {"recv", "reset", "dispatch"},
           main'.pc = "dispatch" => main'.msg \in Mail /\ \A m \in Mail' : m.key # main'.msg.key,
           queue' \in Seq(Generates \cup {Reset}), Apart(queue', Generates), Mail' \subseteq Mail,
           UNCHANGED <<work, streamed, batch_poisoned, wire>>, UNCHANGED schedulerVars,
           UNCHANGED readerVars, transfers \subseteq transfers'
    PROVE  FlowInv'
<1> USE DEF FlowInv
<1> USE NoItemAssumption
<1>1. main.pc \notin Driver /\ main'.pc \notin Driver /\ main'.pc \notin {"adopt", "adopt_think"}
      /\ (main'.pc \notin Idle <=> main'.pc = "dispatch")
  BY DEF Idle, Driver
<1>2. \A k : Lines(k)' = Lines(k)
  BY DEF Lines, readerVars
<1>3. work = <<>> /\ work' = <<>> /\ Todo' = {} /\ \A k \in Keys : pending'[k] = None
  BY <1>1, SoloFacts DEF Todo, Elements, MainInv, schedulerVars
<1>4. main'.pc = "dispatch" => main'.msg \in Generates /\ Key' \in Keys
  BY DEF Mail, Generates, Key
<1>5. ThreadTypes'
  BY Zenon, <1>1, <1>3, <1>4 DEF ThreadTypes, readerVars
<1>6. ReadInv'
  BY <1>2 DEF ReadInv, readerVars
<1>7. QueueInv'
  BY <1>1, <1>2, <1>3 DEF QueueInv, Handles, schedulerVars
<1>8. MainInv'
  <2>1. main'.pc = "dispatch" => "generate" \in Lines(Key') /\ wire[Key'] = <<>>
    BY DEF QueueInv, Key
  <2> QED
    BY <1>1, <1>2, <1>3, <2>1 DEF MainInv, Stage
<1>9. WorkInv'
  BY <1>3 DEF WorkInv, Apart
<1>10. ItemInv'
  BY Zenon, <1>1 DEF ItemInv
<1>11. HeldInv'
  BY Zenon, <1>3 DEF HeldInv
<1>12. StreamInv'
  BY Zenon, <1>1, <1>3, SoloFacts DEF StreamInv, Running, Occupied, schedulerVars, Driver
<1>13. TokenInv'
  BY Zenon, <1>1 DEF TokenInv, Minted, Key
<1> QED
  BY <1>5, <1>6, <1>7, <1>8, <1>9, <1>10, <1>11, <1>12, <1>13

\* A message taken from the queue.
LEMMA TakenMessage ==
    ASSUME FlowInv, queue # <<>>
    PROVE  /\ Head(queue) \in Generates \cup {Reset} /\ Tail(queue) \in Seq(Generates \cup {Reset})
           /\ Apart(Tail(queue), Generates)
           /\ Elements(Tail(queue)) \cap Generates \subseteq Mail
           /\ Head(queue) \in Generates => /\ Head(queue) \in Mail
                                           /\ \A m \in Elements(Tail(queue)) \cap Generates : m.key # Head(queue).key
           /\ Elements(queue) = Elements(Tail(queue)) \cup {Head(queue)}
<1> DEFINE T == Generates \cup {Reset}
<1>1. queue \in Seq(T) /\ Apart(queue, Generates)
  BY DEF FlowInv, ThreadTypes, QueueInv
<1> HIDE DEF T
<1>2. /\ Head(queue) \in T /\ Head(queue) \in Elements(queue)
      /\ Tail(queue) \in Seq(T) /\ Apart(Tail(queue), Generates)
      /\ Elements(queue) = Elements(Tail(queue)) \cup {Head(queue)}
      /\ \A x \in Elements(Tail(queue)) : x \in Generates /\ Head(queue) \in Generates => x.key # Head(queue).key
  BY Zenon, <1>1, FrontApart
<1> QED
  BY <1>2 DEF Mail, T

\* Main takes the next message.
LEMMA RecvStep ==
    ASSUME ServeInv, UNCHANGED readerVars, Recv
    PROVE  Kept /\ Proper
<1>1. FlowInv /\ RegistryInv
  BY DEF ServeInv
<1>2. /\ main.pc \in Idle /\ queue # <<>> /\ queue' = Tail(queue)
      /\ UNCHANGED terminalVars /\ UNCHANGED schedulerVars /\ UNCHANGED <<work, streamed, batch_poisoned, wire>>
  BY DEF Recv, At, Idle, batchVars, driverVars
<1>3. Mail' = Elements(Tail(queue)) \cap Generates
  BY <1>2 DEF Mail
<1>4. main' = [pc |-> IF Head(queue).type = "reset" THEN "reset" ELSE "dispatch",
               msg |-> Head(queue), scope |-> None, item |-> None]
  BY DEF Recv
<1>5. "dispatch" \in Places /\ "reset" \in Places /\ Reset.type = "reset"
      /\ (main'.pc = "dispatch" => Head(queue) \in Generates)
  <2>1. "dispatch" \in Places /\ "reset" \in Places
    BY DEF Places, Idle, Unstarted
  <2>2. Reset.type = "reset"
    BY DEF Reset
  <2>3. Head(queue) \in Generates \cup {Reset}
    BY Zenon, <1>1, <1>2, TakenMessage
  <2>4. main'.pc = IF Head(queue).type = "reset" THEN "reset" ELSE "dispatch"
    BY <1>4
  <2> QED
    BY <2>1, <2>2, <2>3, <2>4
<1>6. /\ main' \in MainRecords /\ main'.item = None /\ main'.pc \in {"recv", "reset", "dispatch"}
      /\ main'.msg = Head(queue)
  BY <1>1, <1>2, <1>4, <1>5, TakenMessage DEF MainRecords
<1>7. FlowInv'
  BY <1>1, <1>2, <1>3, <1>5, <1>6, TakenMessage, IdleStep DEF terminalVars
<1>8. Tame
  BY <1>2, RestTame DEF readerVars
<1> QED
  BY <1>2, <1>7, <1>8 DEF Kept, Proper

\* The reset arm.
LEMMA ResetStep ==
    ASSUME ServeInv, UNCHANGED readerVars, HandleReset
    PROVE  Kept /\ Proper
<1>1. FlowInv /\ RegistryInv
  BY DEF ServeInv
<1>2. /\ main.pc \in Idle /\ main.pc = "reset" /\ queue' = queue /\ Goto("recv") /\ UNCHANGED lines
      /\ UNCHANGED <<work, streamed, batch_poisoned, wire>>
  BY DEF HandleReset, At, Idle, driverVars, readerVars
<1>3. (EmptyScheduler /\ batch_clear_all_terminals) \/ UNCHANGED batchVars
  BY DEF HandleReset
<1>4. main.pc \notin Driver /\ main.pc \notin {"adopt", "adopt_think"} /\ "recv" \in Places
  BY <1>2 DEF Idle, Driver, Places
<1>5. main.item = None /\ \A k \in Keys : pending[k] = None
  BY <1>1, <1>4, SoloFacts DEF FlowInv, MainInv
<1>6. Tame /\ transfers' = transfers /\ UNCHANGED schedulerVars
  <2>1. CASE EmptyScheduler /\ batch_clear_all_terminals
    BY <1>1, <1>2, <1>5, <2>1, ResetTame
  <2>2. CASE UNCHANGED batchVars
    <3>1. UNCHANGED terminalVars /\ UNCHANGED schedulerVars
      BY <2>2 DEF batchVars
    <3> QED
      BY <1>2, <3>1, RestTame
  <2> QED
    BY <1>3, <2>1, <2>2
<1>7. main' \in MainRecords /\ main'.pc = "recv" /\ main'.item = None
  BY <1>1, <1>2, <1>4, <1>5, GotoFacts
<1>8. Mail' = Mail /\ queue' \in Seq(Generates \cup {Reset}) /\ Apart(queue', Generates)
  BY <1>1, <1>2 DEF Mail, FlowInv, ThreadTypes, QueueInv
<1>9. FlowInv'
  BY <1>1, <1>2, <1>6, <1>7, <1>8, IdleStep
<1> QED
  BY <1>2, <1>6, <1>9 DEF Kept, Proper

----------------------------------------------------------------------------
(* Steps of the driver *)

\* What every step inside the driver, and out of it, keeps.
LEMMA DriverFrame ==
    ASSUME FlowInv, main.pc \in Driver \cup {"admit"}, main'.pc \in Driver \cup {"leave", "poison"},
           main'.pc \notin Driver => \A k \in Keys : pending'[k] = None,
           main' \in MainRecords, main'.msg = main.msg, main'.item \notin Adoptions,
           UNCHANGED readerVars, batch_poisoned' = batch_poisoned,
           queue' \in Seq(Generates \cup {Reset}), Apart(queue', Generates),
           work' \in Seq(ListItems), streamed' \in [Lanes -> 0 .. MaxTokens],
           NEW k \in Keys, "generate" \in Lines(k), NEW events, Writes(k, events),
           transfers \subseteq transfers',
           \A m \in Mail' : /\ \E n \in Mail : n.key = m.key
                            /\ m.transfer # None => m.transfer \in transfers' /\ m.transfer.key = m.key
                            /\ pending'[m.key] = None
                            /\ m.key = k => events = <<>>,
           DriveInv'
    PROVE  FlowInv'
<1> USE DEF FlowInv
<1>1. \A c : Lines(c)' = Lines(c)
  BY Zenon DEF Lines, readerVars
<1>2. /\ wire \in [Keys -> Seq(WireEvents)] /\ events \in Seq(WireEvents) /\ wire' = [wire EXCEPT ![k] = events]
  BY DEF ThreadTypes, Writes
<1>3. main.msg \in Generates /\ main.pc \notin Idle /\ main'.pc \notin Idle /\ Key' = Key
  BY DEF ThreadTypes, Idle, Driver, Key
<1>4. ThreadTypes'
  BY Zenon, <1>2, <1>3 DEF ThreadTypes, readerVars
<1>5. ReadInv'
  BY Zenon, <1>1, <1>2 DEF ReadInv, readerVars
<1>6. QueueInv'
  <2>1. ASSUME NEW m \in Mail'
        PROVE  /\ "generate" \in Lines(m.key)' /\ wire'[m.key] = <<>>
               /\ ~Handles(m.key)' /\ pending'[m.key] = None
    <3>1. PICK n \in Mail : n.key = m.key
      BY Zenon, <2>1
    <3>2. n.key \in Keys /\ "generate" \in Lines(n.key) /\ wire[n.key] = <<>> /\ ~Handles(n.key)
      BY Zenon DEF QueueInv, Mail, Generates
    <3> QED
      BY ZenonT(30), <1>1, <1>2, <1>3, <2>1, <3>1, <3>2 DEF Handles
  <2> QED
    BY Zenon, <2>1 DEF QueueInv
<1>7. MainInv'
  <2>1. "generate" \in Lines(Key)'
    BY <1>1, <1>3 DEF MainInv
  <2>2. Stage(main'.pc, wire'[Key'], "commit" \in Lines(Key'))
    BY DEF Stage, Unstarted, Driver
  <2> QED
    BY <1>1, <1>3, <2>1, <2>2 DEF MainInv
<1>8. TokenInv'
  BY <1>3 DEF TokenInv, Minted, Key
<1> QED
  BY Zenon, <1>4, <1>5, <1>6, <1>7, <1>8 DEF DriveInv

\* The same when the queue stays as it is.
LEMMA DriverFrameQueue ==
    ASSUME FlowInv, main.pc \in Driver, main'.pc \in Driver \cup {"leave", "poison"},
           main'.pc \notin Driver => \A k \in Keys : pending'[k] = None,
           main' \in MainRecords, main'.msg = main.msg, main'.item \notin Adoptions,
           UNCHANGED readerVars, UNCHANGED <<queue, batch_poisoned>>,
           work' \in Seq(ListItems), streamed' \in [Lanes -> 0 .. MaxTokens],
           NEW k \in Keys, "generate" \in Lines(k), NEW events, Writes(k, events),
           transfers \subseteq transfers',
           \A c \in Keys : pending[c] = None => pending'[c] = None,
           wire[k] # <<>> \/ events = <<>>,
           DriveInv'
    PROVE  FlowInv'
<1>1. /\ queue' \in Seq(Generates \cup {Reset}) /\ Apart(queue', Generates) /\ Mail' = Mail
  BY DEF FlowInv, ThreadTypes, QueueInv, Mail
<1>2. ASSUME NEW m \in Mail'
      PROVE  /\ \E n \in Mail : n.key = m.key
             /\ m.transfer # None => m.transfer \in transfers' /\ m.transfer.key = m.key
             /\ pending'[m.key] = None
             /\ m.key = k => events = <<>>
  <2>1. m \in Mail /\ m.key \in Keys /\ wire[m.key] = <<>> /\ pending[m.key] = None
    BY <1>1, <1>2 DEF FlowInv, QueueInv, Mail, Generates
  <2>2. m.transfer # None => m.transfer \in transfers /\ m.transfer.key = m.key
    BY <2>1 DEF FlowInv, TokenInv, Minted
  <2> QED
    BY <2>1, <2>2
<1> QED
  BY <1>1, <1>2, DriverFrame

\* The driver has nothing in hand: it is at one of its empty places.
LEMMA EmptyHanded ==
    ASSUME FlowInv, main.pc \in Driver
    PROVE  /\ main.pc \in {"poll", "drain", "assign", "decode"} => work = <<>>
           /\ main.pc \in {"poll", "assign", "decode", "fail"} => main.item = None
           /\ main.item # None => main.item \in OpenItems
           /\ work = <<>> => Todo = {}
<1>1. main.item \in OpenItems \cup Adoptions \cup {None}
  BY DEF FlowInv, ThreadTypes, MainRecords
<1>2. main.item \in Adoptions => main.item.act = "adopt" /\ main.item # None
  BY NoItemAssumption DEF Adoptions
<1>3. main.item # None => main.item \in OpenItems
  BY <1>1, <1>2 DEF FlowInv, ItemInv, Driver
<1>4. main.pc \in {"poll", "assign", "decode", "fail"} => main.item = None
  BY <1>3 DEF FlowInv, ItemInv, OpenItems
<1> QED
  BY <1>3, <1>4 DEF FlowInv, WorkInv, Todo, Elements

\* The driver turns to its next phase, or returns, with nothing in hand.
LEMMA TurnStep ==
    ASSUME FlowInv, main.pc \in Driver \ {"fail"}, work = <<>>, work' = <<>>,
           main.item # None => main.item.act = "handoff",
           main'.pc \in (Driver \ {"fail"}) \cup {"leave"},
           main'.pc = "leave" => \A k \in Keys : pending[k] = None,
           main' \in MainRecords, main'.item = None, UNCHANGED <<streamed, wire, lines>>,
           UNCHANGED schedulerVars
    PROVE  DriveInv'
<1>1. Todo = {} /\ Todo' = {}
  BY DEF Todo, Elements
<1>2. \A c : Lines(c)' = Lines(c)
  BY DEF Lines
<1>3. WorkInv'
  BY <1>1 DEF WorkInv, Apart
<1>4. ItemInv'
  BY DEF ItemInv, Driver
<1>5. HeldInv'
  <2>1. \A k : ~Doing("retire", k) /\ ~Doing("announce", k) /\ ~Doing("announce", k)'
    BY DEF Doing, Item_is
  <2>2. \A k : AwaitsClient(k)' = AwaitsClient(k)
    BY DEF AwaitsClient, Awaiting, Occupied, schedulerVars
  <2> QED
    BY <1>1, <1>2, <2>1, <2>2 DEF FlowInv, HeldInv, schedulerVars
<1>6. StreamInv'
  BY Zenon, <1>1 DEF FlowInv, StreamInv, Running, Occupied, schedulerVars
<1> QED
  BY <1>3, <1>4, <1>5, <1>6 DEF DriveInv

\* A scheduler with no lane occupied and nothing queued holds no request.
LEMMA NothingHeld ==
    ASSUME SchedulerInv, Occupied = {}, inbox = <<>>
    PROVE  \A k \in Keys : pending[k] = None
  BY DEF SchedulerInv, HeldOnce, Queued, LaneKeys

\* In the driver, a step for one request.
LEMMA DriverQuiet ==
    ASSUME ServeInv, main.pc \in Driver, NEW k \in Keys, Quiet(k), UNCHANGED schedulerVars, UNCHANGED readerVars
    PROVE  Tame /\ transfers \subseteq transfers'
  BY QuietTame DEF ServeInv, readerVars

\* The turns of the driver.
LEMMA TurnSteps ==
    ASSUME ServeInv, UNCHANGED readerVars,
           SweepDone \/ DrainBarrier \/ DrainEmpty \/ AssignDone \/ PublishDone
    PROVE  Kept /\ Proper
<1>1. FlowInv /\ SchedulerInv
  BY DEF ServeInv, RegistryInv
<1>2. /\ main.pc \in {"sweep", "drain", "assign", "publish"} /\ main.pc \in Driver \ {"fail"}
  BY DEF SweepDone, DrainBarrier, DrainEmpty, AssignDone, PublishDone, Draining, At, Driver
<1>3. /\ UNCHANGED terminalVars /\ UNCHANGED schedulerVars /\ UNCHANGED <<work, streamed, batch_poisoned>>
      /\ UNCHANGED <<queue, wire, lines>>
  BY DEF SweepDone, DrainBarrier, DrainEmpty, AssignDone, PublishDone, batchVars, driverVars, readerVars
<1>4. work = <<>> /\ main.item = None
  BY <1>1, <1>2, EmptyHanded DEF SweepDone, DrainBarrier, DrainEmpty, AssignDone, PublishDone, Draining, At
<1>5. PICK pc \in {"drain", "assign", "decode", "poll", "leave"} :
         Goto(pc) /\ (pc = "leave" => Occupied = {} /\ inbox = <<>>)
  <2>1. CASE SweepDone \/ DrainEmpty \/ PublishDone
    BY <2>1 DEF SweepDone, DrainEmpty, PublishDone
  <2>2. CASE DrainBarrier
    BY <2>2 DEF DrainBarrier, AfterBarrier
  <2>3. CASE AssignDone
    <3> DEFINE pc == CASE Running # {} -> "decode"
                       [] Occupied = {} /\ inbox = <<>> -> "leave"
                       [] OTHER -> "poll"
    <3>1. Goto(pc)
      BY <2>3 DEF AssignDone
    <3>2. pc \in {"decode", "leave", "poll"} /\ (pc = "leave" => Occupied = {} /\ inbox = <<>>)
      BY DEF Running
    <3> QED
      BY <3>1, <3>2
  <2> QED
    BY <2>1, <2>2, <2>3
<1>6. pc \in Places /\ pc \in (Driver \ {"fail"}) \cup {"leave"}
  BY DEF Places, Driver, Leaving
<1>7. main' \in MainRecords /\ main'.pc = pc /\ main'.msg = main.msg /\ main'.item = None
  BY <1>1, <1>4, <1>5, <1>6, GotoFacts
<1>8. main'.pc = "leave" => \A k \in Keys : pending[k] = None
  BY <1>1, <1>5, <1>7, NothingHeld
<1>9. DriveInv'
  BY <1>1, <1>2, <1>3, <1>4, <1>6, <1>7, <1>8, TurnStep
<1>10. /\ Key \in Keys /\ "generate" \in Lines(Key) /\ ThreadTypes /\ main.pc \in Driver
  BY <1>1, <1>2, MsgFacts DEF Idle
<1>11. Writes(Key, wire[Key])
  BY <1>3, <1>10, Unwritten
<1>12. Tame /\ transfers \subseteq transfers'
  BY <1>3, <1>10, DriverQuiet DEF Quiet
<1>13. /\ work' \in Seq(ListItems) /\ streamed' \in [Lanes -> 0 .. MaxTokens]
       /\ main'.item \notin Adoptions /\ \A c \in Keys : pending[c] = None => pending'[c] = None
       /\ (main'.pc \notin Driver => \A k \in Keys : pending'[k] = None)
       /\ main'.pc \in Driver \cup {"leave", "poison"}
  BY ZenonT(30), <1>3, <1>6, <1>7, <1>8, <1>10, NoItemAssumption DEF ThreadTypes, schedulerVars
<1>14. FlowInv'
  BY ZenonT(30), <1>1, <1>3, <1>7, <1>9, <1>10, <1>11, <1>12, <1>13, DriverFrameQueue
<1> QED
  BY <1>3, <1>12, <1>14 DEF Kept, Proper

\* A new list is worked off.
LEMMA NewList ==
    ASSUME FlowInv, main.pc \in Driver \ {"fail"}, main.item # None => main.item.act = "handoff",
           main'.pc \in {"settle", "sweep", "publish", "fail"}, main' \in MainRecords, main'.item = None,
           work' \in Seq(ListItems), Apart(work', ListItems),
           \A w \in Elements(work') : FromScheduler(w, w.act) /\ (w.act = "fail" <=> main'.pc = "fail"),
           main'.pc # "fail" => \A l \in Running : \/ \E w \in Elements(work') : w.act = "await" /\ w.lane = l
                                                   \/ streamed'[l] < MaxTokens,
           UNCHANGED <<wire, lines>>, UNCHANGED schedulerVars
    PROVE  DriveInv'
<1>1. Todo' = Elements(work')
  BY Zenon DEF Todo
<1>2. \A c : Lines(c)' = Lines(c)
  BY Zenon DEF Lines
<1>3. WorkInv'
  <2>1. ASSUME NEW w \in Todo' PROVE Listed(w)' /\ ~Doing("retire", w.key)'
    BY <1>1, <2>1 DEF Listed, FromScheduler, Doing, Item_is, Holds, schedulerVars
  <2> QED
    BY <2>1 DEF WorkInv
<1>4. ItemInv'
  BY Zenon DEF ItemInv
<1>5. HeldInv'
  <2>1. \A k : ~Doing("retire", k) /\ ~Doing("announce", k) /\ ~Doing("announce", k)'
    BY Zenon DEF Doing, Item_is
  <2>2. \A k : AwaitsClient(k)' = AwaitsClient(k)
    BY Zenon DEF AwaitsClient, Awaiting, Occupied, schedulerVars
  <2> QED
    BY Zenon, <1>2, <2>1, <2>2 DEF FlowInv, HeldInv, schedulerVars
<1>6. StreamInv'
  <2>1. Running' = Running
    BY Zenon DEF Running, Occupied, schedulerVars
  <2> QED
    BY Zenon, <1>1, <2>1 DEF StreamInv
<1> QED
  BY Zenon, <1>3, <1>4, <1>5, <1>6 DEF DriveInv

\* Main goes on with a new list, and nothing else happens.
LEMMA ListStep ==
    ASSUME ServeInv, main.pc \in Driver \ {"fail"}, main.item = None,
           NEW pc \in {"settle", "sweep", "publish", "fail"}, Goto(pc),
           work' \in Seq(ListItems), Apart(work', ListItems),
           \A w \in Elements(work') : FromScheduler(w, w.act) /\ (w.act = "fail" <=> pc = "fail"),
           streamed' \in [Lanes -> 0 .. MaxTokens],
           pc # "fail" => \A l \in Running : \/ \E w \in Elements(work') : w.act = "await" /\ w.lane = l
                                             \/ streamed'[l] < MaxTokens,
           UNCHANGED batchVars, UNCHANGED <<wire, queue, batch_poisoned>>, UNCHANGED readerVars
    PROVE  Kept /\ Proper
<1>1. /\ FlowInv /\ UNCHANGED terminalVars /\ UNCHANGED schedulerVars /\ UNCHANGED <<wire, lines>>
  BY DEF ServeInv, batchVars, readerVars
<1>2. pc \in Places /\ pc \in Driver
  BY DEF Places, Driver
<1>3. main' \in MainRecords /\ main'.pc = pc /\ main'.msg = main.msg /\ main'.item = None
  BY <1>1, <1>2, GotoFacts
<1>4. DriveInv'
  BY <1>1, <1>3, NewList
<1>5. /\ Key \in Keys /\ "generate" \in Lines(Key) /\ ThreadTypes
  BY <1>1, MsgFacts DEF Idle, Driver
<1>6. Writes(Key, wire[Key])
  BY <1>1, <1>5, Unwritten
<1>7. Tame /\ transfers \subseteq transfers'
  BY ZenonT(30), <1>1, <1>5, DriverQuiet DEF Quiet
<1>8. /\ main'.item \notin Adoptions /\ \A c \in Keys : pending[c] = None => pending'[c] = None
  BY Zenon, <1>1, <1>3, NoItemAssumption DEF schedulerVars
<1>9. FlowInv'
  BY <1>1, <1>2, <1>3, <1>4, <1>5, <1>6, <1>7, <1>8, DriverFrameQueue
<1> QED
  BY <1>7, <1>9 DEF Kept, Proper

\* With no list in hand, every running lane has a token left.
LEMMA TokensLeft ==
    ASSUME FlowInv, main.pc \in Driver \ {"fail"}, work = <<>>
    PROVE  \A l \in Running : l \in Lanes /\ l \in Occupied /\ streamed[l] < MaxTokens /\ streamed[l] \in 0 .. MaxTokens
<1>1. Todo = {}
  BY DEF Todo, Elements
<1> QED
  BY <1>1 DEF FlowInv, StreamInv, ThreadTypes, Running, Occupied

----------------------------------------------------------------------------
(* The items of a list *)

\* The head of the list: a request the scheduler holds, with no terminal yet.
LEMMA HeadFacts ==
    ASSUME ServeInv, main.item = None, work # <<>>, NEW w, w = Head(work)
    PROVE  /\ w \in ListItems /\ w \in Todo /\ w.key \in Keys /\ w.admission \in Generations /\ Listed(w)
           /\ main.pc \in Driver /\ main.pc \in {"settle", "sweep", "publish", "fail"}
           /\ Tail(work) \in Seq(ListItems) /\ Apart(Tail(work), ListItems)
           /\ Todo = Elements(Tail(work)) \cup {w}
           /\ \A v \in Elements(Tail(work)) : v \in Todo /\ v.key \in Keys /\ v.key # w.key
           /\ "generate" \in Lines(w.key)
           /\ wire[w.key] = IF AwaitsClient(w.key) THEN Offered ELSE Started
<1>1. work \in Seq(ListItems) /\ Apart(work, ListItems)
  BY DEF ServeInv, FlowInv, ThreadTypes, WorkInv
<1>2. /\ w \in ListItems /\ w \in Elements(work)
      /\ Tail(work) \in Seq(ListItems) /\ Apart(Tail(work), ListItems)
      /\ Elements(work) = Elements(Tail(work)) \cup {w}
      /\ \A x \in Elements(Tail(work)) : x \in ListItems /\ w \in ListItems => x.key # w.key
  BY <1>1, FrontApart
<1>3. \A x \in Elements(Tail(work)) : x \in ListItems
  BY <1>2, MembersOf
<1>4. w.key \in Keys /\ w.admission \in Generations /\ \A x \in Elements(Tail(work)) : x.key \in Keys
  BY <1>2, <1>3 DEF ListItems
<1>5. Listed(w) /\ main.pc \in {"settle", "sweep", "publish", "fail"}
  BY <1>2 DEF ServeInv, FlowInv, WorkInv, Todo
<1>6. /\ "generate" \in Lines(w.key)
      /\ wire[w.key] = IF AwaitsClient(w.key) THEN Offered ELSE Started
  <2>1. pending[w.key] # None /\ ~Doing("retire", w.key) /\ ~Doing("announce", w.key)
    BY <1>5 DEF Listed, Doing, Item_is
  <2> QED
    BY <1>2, <1>4, <2>1 DEF ServeInv, FlowInv, HeldInv, Todo
<1> QED
  BY Zenon, <1>2, <1>3, <1>4, <1>5, <1>6 DEF Todo, Driver

\* The head is taken up.
LEMMA TakeFacts ==
    ASSUME ServeInv, main.item = None, work # <<>>, NEW w, w = Head(work),
           NEW act \in {"retire", "done", "announce"}, Take(act)
    PROVE  /\ main' \in MainRecords /\ main'.pc = main.pc /\ main'.msg = main.msg
           /\ main'.item \in OpenItems /\ main'.item # None /\ main'.item \notin Adoptions
           /\ main'.item.act = act /\ main'.item.key = w.key
           /\ main'.item.lane = w.lane /\ main'.item.admission = w.admission
           /\ work' = Tail(work) /\ Todo' = Elements(Tail(work))
<1>1. main \in MainRecords /\ w \in ListItems
  BY HeadFacts DEF ServeInv, FlowInv, ThreadTypes
<1> DEFINE item == [w EXCEPT !.act = act]
<1>2. item \in OpenItems /\ item.act = act /\ item.key = w.key /\ item.lane = w.lane /\ item.admission = w.admission
  BY <1>1 DEF ListItems, OpenItems
<1>3. main' = [main EXCEPT !.item = item] /\ work' = Tail(work)
  BY DEF Take
<1> HIDE DEF item
<1>4. main' \in MainRecords /\ main'.pc = main.pc /\ main'.msg = main.msg /\ main'.item = item
  BY <1>1, <1>2, <1>3 DEF MainRecords
<1>5. item # None /\ item \notin Adoptions
  BY <1>2, NoItemAssumption DEF Adoptions
<1> QED
  BY <1>2, <1>3, <1>4, <1>5 DEF Todo

\* A terminal for the head, which is to leave the scheduler.
LEMMA RetiringStep ==
    ASSUME ServeInv, UNCHANGED readerVars, NEW act \in {"cancel", "commit"}, Head_is(act), NEW w, w = Head(work), NEW k, k = w.key,
           NEW scope \in Generations \cup {None}, NEW event \in {"aborted", "error"},
           WriteTerminal(k, scope, event), Take("retire"),
           UNCHANGED schedulerVars, UNCHANGED <<streamed, batch_poisoned, queue>>
    PROVE  Kept /\ Proper
<1>1. /\ main.item = None /\ work # <<>> /\ w.act = act /\ FlowInv /\ ThreadTypes
  BY DEF Head_is, ServeInv, FlowInv
<1>3. /\ w \in ListItems /\ w \in Todo /\ k \in Keys /\ Listed(w)
      /\ main.pc \in Driver /\ main.pc \in {"settle", "sweep", "publish", "fail"}
      /\ Tail(work) \in Seq(ListItems) /\ Apart(Tail(work), ListItems)
      /\ Todo = Elements(Tail(work)) \cup {w}
      /\ \A v \in Elements(Tail(work)) : v \in Todo /\ v.key \in Keys /\ v.key # k
      /\ "generate" \in Lines(k) /\ wire[k] \in {Started, Offered}
  BY Zenon, <1>1, HeadFacts
<1>4. /\ main' \in MainRecords /\ main'.pc = main.pc /\ main'.msg = main.msg
      /\ main'.item # None /\ main'.item \notin Adoptions
      /\ main'.item.act = "retire" /\ main'.item.key = k
      /\ work' = Tail(work) /\ Todo' = Elements(Tail(work))
  BY Zenon, <1>1, TakeFacts
<1>5. main.pc # "fail"
  BY Zenon, <1>1, <1>3 DEF Listed
<1>6. Quiet(k) /\ \E events : Writes(k, events)
  <2>1. event \in Terminals /\ event # "done" /\ wire[k] \in {<<>>, Started, Offered} /\ WriteTerminal(k, scope, event)
    BY <1>3 DEF Terminals
  <2> QED
    BY ZenonT(30), <1>1, <1>3, <2>1, TerminalWritten
<1>7. PICK events : Writes(k, events)
  BY <1>6
<1>8. /\ wire \in [Keys -> Seq(WireEvents)] /\ wire' = [wire EXCEPT ![k] = events]
      /\ \A c : Lines(c)' = Lines(c)
  BY <1>1, <1>7 DEF Writes, ThreadTypes, Lines, readerVars
<1>9. \A c : AwaitsClient(c)' = AwaitsClient(c)
  BY DEF AwaitsClient, Awaiting, Occupied, schedulerVars
<1>10. WorkInv'
  <2>1. ASSUME NEW v \in Todo' PROVE Listed(v)' /\ ~Doing("retire", v.key)'
    <3>1. Listed(v) /\ v.key # k
      BY ZenonT(30), <1>1, <1>3, <1>4, <2>1 DEF FlowInv, WorkInv
    <3> QED
      BY Zenon, <1>4, <3>1 DEF Listed, Doing, Item_is, Holds, schedulerVars
  <2> QED
    BY Zenon, <1>3, <1>4, <2>1 DEF WorkInv
<1>11. ItemInv'
  BY ZenonT(30), <1>3, <1>4, <1>5 DEF ItemInv
<1>12. HeldInv'
  <2>1. ASSUME NEW c \in Keys, pending'[c] # None, c # k
        PROVE  "generate" \in Lines(c)' /\ wire'[c] = IF AwaitsClient(c)' /\ ~Doing("announce", c)' THEN Offered ELSE Started
    <3>1. pending[c] # None /\ ~Doing("retire", c) /\ ~Doing("announce", c) /\ ~Doing("announce", c)'
      BY Zenon, <1>1, <1>4, <2>1 DEF Doing, Item_is, schedulerVars
    <3> QED
      BY ZenonT(30), <1>1, <1>5, <1>8, <1>9, <2>1, <3>1 DEF FlowInv, HeldInv
  <2>2. Doing("retire", k)' /\ "generate" \in Lines(k)'
    BY ZenonT(30), <1>3, <1>4, <1>8 DEF Doing, Item_is
  <2> QED
    BY <2>1, <2>2 DEF HeldInv
<1>13. StreamInv'
  <2>1. Running' = Running /\ w.act # "await"
    BY <1>1 DEF Running, Occupied, schedulerVars
  <2>2. \A v \in Todo : v.act = "await" => v \in Todo'
    BY Zenon, <1>3, <1>4, <2>1
  <2> QED
    BY ZenonT(30), <1>1, <1>4, <2>1, <2>2 DEF FlowInv, StreamInv
<1>14. DriveInv'
  BY <1>10, <1>11, <1>12, <1>13 DEF DriveInv
<1>15. Tame /\ transfers \subseteq transfers'
  BY <1>3, <1>6, DriverQuiet
<1>16. /\ work' \in Seq(ListItems) /\ streamed' \in [Lanes -> 0 .. MaxTokens] /\ wire[k] # <<>>
       /\ \A c \in Keys : pending[c] = None => pending'[c] = None
  <2>1. Started # <<>> /\ Offered # <<>>
    BY DEF Started, Offered
  <2> QED
    BY Zenon, <1>1, <1>3, <1>4, <2>1 DEF ThreadTypes, schedulerVars
<1>17. FlowInv'
  BY ZenonT(30), <1>1, <1>3, <1>4, <1>7, <1>14, <1>15, <1>16, DriverFrameQueue
<1> QED
  BY Zenon, <1>3, <1>7, <1>15, <1>17 DEF Kept, Proper, Lawful

\* That step keeps the invariant.
LEMMA ReleasedStep ==
    ASSUME ServeInv, UNCHANGED readerVars, NEW k \in Keys, Released(k)
    PROVE  Kept /\ Proper
<1> USE DEF Released
<1>1. FlowInv /\ ThreadTypes /\ SchedulerInv
  BY ZenonT(30) DEF ServeInv, FlowInv, RegistryInv
<1>2. /\ \A c : Lines(c)' = Lines(c)
      /\ pending \in [Keys -> Requests \cup {None}] /\ pending'[k] = None
      /\ \A c \in Keys : c # k => pending'[c] = pending[c]
  BY ZenonT(30), <1>1 DEF Lines, readerVars, SchedulerInv, SchedulerTypeOK
<1>3. \A l \in Lanes : lanes'[l] # None => lanes'[l] = lanes[l]
  BY Zenon
<1>4. Running' \subseteq Running
  BY Zenon, <1>3 DEF Running, Occupied
<1>5. ASSUME NEW c, c # k PROVE AwaitsClient(c)' = AwaitsClient(c)
  BY ZenonT(30), <1>3, <1>5 DEF AwaitsClient, Awaiting, Occupied
<1>6. WorkInv'
  <2>1. ASSUME NEW v \in Todo' PROVE Listed(v)' /\ ~Doing("retire", v.key)'
    <3>1. v \in ListItems /\ v.key \in Keys /\ v.key # k /\ Listed(v) /\ v.lane \in Lanes \cup {None}
      BY Zenon, <1>1, <2>1 DEF FlowInv, WorkInv, ListItems
    <3>2. ~Doing("retire", v.key)'
      BY <3>1 DEF Doing, Item_is
    <3>3. v.lane # None => Holds(v.lane, v.key, v.admission)'
      BY <3>1 DEF Listed, Holds
    <3> QED
      BY ZenonT(30), <1>2, <3>1, <3>2, <3>3 DEF Listed
  <2> QED
    BY Zenon, <1>1, <2>1 DEF FlowInv, WorkInv
<1>7. ItemInv'
  BY Zenon, <1>2 DEF ItemInv, Driver
<1>8. HeldInv'
  <2>1. ASSUME NEW c \in Keys, pending'[c] # None
        PROVE  "generate" \in Lines(c)' /\ wire'[c] = IF AwaitsClient(c)' /\ ~Doing("announce", c)' THEN Offered ELSE Started
    <3>1. c # k /\ pending[c] # None
      BY Zenon, <1>2, <2>1
    <3>2. ~Doing("retire", c) /\ ~Doing("announce", c) /\ ~Doing("announce", c)'
      BY <3>1 DEF Doing, Item_is
    <3>3. "generate" \in Lines(c) /\ wire[c] = IF AwaitsClient(c) THEN Offered ELSE Started
      BY Zenon, <1>1, <3>1, <3>2 DEF FlowInv, HeldInv
    <3> QED
      BY Zenon, <1>2, <1>5, <3>1, <3>2, <3>3
  <2> QED
    BY Zenon, <2>1 DEF HeldInv
<1>9. StreamInv'
  BY Zenon, <1>1, <1>4 DEF FlowInv, StreamInv
<1>10. DriveInv'
  BY Zenon, <1>6, <1>7, <1>8, <1>9 DEF DriveInv
<1>11. Writes(k, wire[k])
  BY <1>1, Unwritten
<1>12. wire[k] # <<>> \/ wire[k] = <<>>
  OBVIOUS
<1>13. \A c \in Keys : pending[c] = None => pending'[c] = None
  BY Zenon, <1>2
<1>14. /\ streamed' \in [Lanes -> 0 .. MaxTokens]
       /\ main'.pc \in Driver \cup {"leave", "poison"} /\ main'.pc \in Driver
       /\ UNCHANGED <<queue, batch_poisoned>>
  BY Zenon, <1>1 DEF ThreadTypes
<1>15. FlowInv'
  BY Zenon, <1>1, <1>10, <1>11, <1>12, <1>13, <1>14, DriverFrameQueue
<1> QED
  BY <1>15 DEF Kept, Proper

\* abort_lane or abort_queued, behind the terminal.
LEMMA RetireItemStep ==
    ASSUME ServeInv, UNCHANGED readerVars, RetireItem
    PROVE  Kept /\ Proper
<1> USE DEF RetireItem
<1>1. FlowInv /\ ThreadTypes /\ SchedulerInv /\ RegistryInv
  BY DEF ServeInv, FlowInv, RegistryInv
<1>2. main.item # None /\ main.item.act = "retire" /\ main \in MainRecords
  BY <1>1 DEF Item_is, ThreadTypes
<1>3. main.pc \in {"settle", "sweep", "drain", "publish"} /\ main.pc \in Driver \ {"fail"}
  BY <1>1, <1>2 DEF FlowInv, ItemInv, Driver
<1>4. main.item \in OpenItems
  BY <1>1, <1>2, <1>3, EmptyHanded
<1>5. PICK i : i = main.item
  OBVIOUS
<1>6. i.key \in Keys /\ i.admission \in Generations /\ i.lane \in Lanes \cup {None}
  BY <1>4, <1>5 DEF OpenItems
<1>7. PICK k : k = i.key
  OBVIOUS
<1>8. /\ pending' = [pending EXCEPT ![k] = None] /\ pending[k] # None /\ DriverStep
      /\ \A l \in Lanes : \/ lanes'[l] = lanes[l]
                          \/ lanes[l] # None /\ lanes[l].key = k /\ lanes'[l] = None
  <2>1. CASE i.lane = None
    <3>1. abort_queued(k, i.admission)
      BY <1>5, <1>7, <2>1
    <3> QED
      BY Zenon, <1>6, <1>7, <3>1 DEF abort_queued, DriverStep
  <2>2. CASE i.lane # None
    <3>1. abort_lane(i.lane, k, i.admission) /\ i.lane \in Lanes
      BY <1>5, <1>6, <1>7, <2>2
    <3>2. /\ lanes' = [lanes EXCEPT ![i.lane] = None] /\ pending' = [pending EXCEPT ![k] = None]
          /\ lanes[i.lane] # None /\ lanes[i.lane].key = k
      BY <3>1 DEF abort_lane, ReleaseLane, Holds
    <3>3. DriverStep
      BY <1>6, <1>7, <3>1 DEF DriverStep
    <3>4. pending[k] # None
      BY <1>1, <3>1, <3>2, LaneOwner DEF Occupied
    <3>5. lanes \in [Lanes -> OccupiedLanes \cup {None}]
      BY <1>1 DEF SchedulerInv, SchedulerTypeOK
    <3> QED
      BY <3>1, <3>2, <3>3, <3>4, <3>5
  <2> QED
    BY <2>1, <2>2
<1>9. Tame /\ transfers' = transfers
  BY <1>1, <1>8, DriverTame DEF readerVars
<1>10. main' = [main EXCEPT !.item = None] /\ UNCHANGED <<wire, queue>> /\ UNCHANGED driverVars
  OBVIOUS
<1>11. UNCHANGED <<wire, streamed, batch_poisoned, queue>> /\ UNCHANGED work
  BY <1>10 DEF driverVars
<1>12. main' \in MainRecords /\ main'.pc = main.pc /\ main'.msg = main.msg /\ main'.item = None
  BY <1>2, <1>10 DEF MainRecords
<1>13. main'.item \notin Adoptions
  BY <1>12, NoItemAssumption
<1>14. Doing("retire", k)
  BY <1>2, <1>5, <1>7 DEF Doing, Item_is
<1>15. /\ work' \in Seq(ListItems) /\ Apart(work', ListItems) /\ (work' # <<>> => work # <<>>)
       /\ \A v \in Todo' : v \in Todo /\ v \in ListItems /\ v.key # k
       /\ \A v \in Todo : v.act = "await" => v \in Todo'
  <2>1. work \in Seq(ListItems) /\ Apart(work, ListItems) /\ Todo' = Todo
    BY <1>1, <1>11 DEF FlowInv, ThreadTypes, WorkInv, Todo
  <2>2. \A v \in Todo : v \in ListItems /\ ~Doing("retire", v.key)
    <3>1. \A v \in Todo : v \in ListItems
      BY <2>1, MembersOf DEF Todo
    <3> QED
      BY <1>1, <3>1 DEF FlowInv, WorkInv
  <2> QED
    BY <1>11, <1>14, <2>1, <2>2
<1>16. "generate" \in Lines(k)
  BY <1>1, <1>6, <1>7, <1>8 DEF FlowInv, HeldInv
<1> HIDE DEF RetireItem
<1>17. k \in Keys /\ (main.item = None \/ Doing("retire", k))
  BY <1>6, <1>7, <1>14
<1>18. Released(k)
  BY Zenon, <1>3, <1>8, <1>9, <1>11, <1>12, <1>13, <1>15, <1>16, <1>17 DEF Released
<1> QED
  BY <1>17, <1>18, ReleasedStep

\* The cancelled and the committed requests of a list.
LEMMA SettleSteps ==
    ASSUME ServeInv, UNCHANGED readerVars, CancelItem \/ CommitItem
    PROVE  Kept /\ Proper
<1>1. FlowInv /\ ThreadTypes /\ SchedulerInv /\ RegistryInv
  BY DEF ServeInv, FlowInv, RegistryInv
<1>2. main.item = None /\ work # <<>> /\ UNCHANGED <<streamed, batch_poisoned, queue>>
  BY Zenon DEF CancelItem, CommitItem, Head_is
<1>3. PICK w : w = Head(work)
  OBVIOUS
<1>4. PICK k : k = w.key
  OBVIOUS
<1>5. /\ w \in ListItems /\ k \in Keys /\ w.admission \in Generations /\ Listed(w)
      /\ main.pc \in Driver /\ main.pc \in {"settle", "sweep", "publish", "fail"}
      /\ Tail(work) \in Seq(ListItems) /\ Apart(Tail(work), ListItems)
      /\ Todo = Elements(Tail(work)) \cup {w}
      /\ \A v \in Elements(Tail(work)) : v \in Todo /\ v.key \in Keys /\ v.key # k
      /\ "generate" \in Lines(k) /\ wire[k] = IF AwaitsClient(k) THEN Offered ELSE Started
  BY Zenon, <1>2, <1>3, <1>4, HeadFacts
<1>6. PICK scope \in Generations \cup {None} : scope = ItemScope(w)
  BY Zenon, <1>5, ScopeType DEF ItemScope
<1>7. CASE CancelItem
  <2>1. /\ Head_is("cancel") /\ WriteTerminal(k, scope, "aborted") /\ Take("retire") /\ UNCHANGED schedulerVars
    BY <1>3, <1>4, <1>6, <1>7 DEF CancelItem
  <2> QED
    BY <1>2, <1>3, <1>4, <1>6, <2>1, RetiringStep
<1>8. CASE CommitItem /\ ~Committable(w.lane, k, w.admission)
  <2>1. /\ Head_is("commit") /\ WriteTerminal(k, scope, "error") /\ Take("retire") /\ UNCHANGED schedulerVars
    BY <1>3, <1>4, <1>6, <1>8 DEF CommitItem
  <2> QED
    BY <1>2, <1>3, <1>4, <1>6, <2>1, RetiringStep
<1>9. CASE CommitItem /\ Committable(w.lane, k, w.admission)
  <2>1. /\ w.act = "commit" /\ commit_lane_retain_terminal(w.lane, k, w.admission) /\ Take("done") /\ UNCHANGED wire
    BY <1>3, <1>4, <1>9 DEF CommitItem, Head_is
  <2>2. /\ lanes' = [lanes EXCEPT ![w.lane] = None] /\ pending' = [pending EXCEPT ![k] = None]
        /\ w.lane \in Awaiting /\ w.lane \in Lanes /\ lanes[w.lane] # None /\ lanes[w.lane].key = k
        /\ batch_poll_decision(k, w.admission) = "Commit"
    BY <1>9, <2>1 DEF commit_lane_retain_terminal, Committable, Holds, Awaiting, Occupied
  <2>3. wire[k] = Offered
    BY Zenon, <1>5, <2>2 DEF AwaitsClient
  <2>4. "commit" \in Lines(k)
    <3>1. entries[k] # None /\ entries[k].commit_latched
      <4>1. None # "Commit"
        BY NoneAssumption DEF Decisions
      <4>2. entries[k] \in Entries \cup {None} /\ batch_ready_owner_matches(k, w.admission, lanes[w.lane].ticket)
        BY Zenon, <1>1, <1>5, <1>9 DEF RegistryInv, TerminalTypeOK, Committable
      <4>3. entries[k] # None /\ entries[k].generation = w.admission
        BY <4>2 DEF batch_ready_owner_matches, batch_is_current
      <4>4. entries[k].commit_latched \in BOOLEAN /\ entries[k].abort_latched \in BOOLEAN
        BY <4>2, <4>3 DEF Entries
      <4> QED
        BY <2>2, <4>1, <4>3, <4>4 DEF batch_poll_decision
    <3> QED
      BY Zenon, <1>1, <1>5, <3>1 DEF RegistryInv, CommitInv
  <2>5. DriverStep
    BY Zenon, <1>5, <2>1, <2>2 DEF DriverStep
  <2>6. Tame /\ transfers' = transfers
    BY <1>1, <2>5, DriverTame DEF readerVars
  <2>7. main.pc \in Driver \ {"fail"} /\ main.pc \in {"settle", "sweep", "publish"} /\ pending[k] # None
    BY Zenon, <1>4, <1>5, <2>1 DEF Listed
  <2>8. \A l \in Lanes : \/ lanes'[l] = lanes[l]
                         \/ lanes[l] # None /\ lanes[l].key = k /\ lanes'[l] = None
    <3>1. lanes \in [Lanes -> OccupiedLanes \cup {None}]
      BY <1>1 DEF SchedulerInv, SchedulerTypeOK
    <3> QED
      BY <2>2, <3>1
  <2>9. /\ main' \in MainRecords /\ main'.pc = main.pc /\ main'.msg = main.msg
        /\ main'.item # None /\ main'.item \notin Adoptions
        /\ main'.item.act = "done" /\ main'.item.key = k
        /\ work' = Tail(work) /\ Todo' = Elements(Tail(work))
    BY Zenon, <1>2, <1>3, <1>4, <2>1, TakeFacts
  <2>10. /\ work' \in Seq(ListItems) /\ Apart(work', ListItems)
         /\ \A v \in Todo' : v \in Todo /\ v \in ListItems /\ v.key # k
         /\ \A v \in Todo : v.act = "await" => v \in Todo'
    <3>1. \A v \in Todo : v = w \/ v \in Elements(Tail(work))
      BY Zenon, <1>5
    <3>2. w.act # "await"
      BY <2>1
    <3>3. \A v \in Elements(Tail(work)) : v \in ListItems
      BY Zenon, <1>5, MembersOf
    <3> QED
      BY Zenon, <1>5, <2>9, <3>1, <3>2, <3>3
  <2>11. Released(k)
    BY Zenon, <1>2, <1>5, <2>1, <2>2, <2>3, <2>4, <2>6, <2>7, <2>8, <2>9, <2>10 DEF Released
  <2> QED
    BY <1>5, <2>11, ReleasedStep
<1> QED
  BY <1>7, <1>8, <1>9

\* The ends of an item the scheduler has given back.
LEMMA GivenBack ==
    ASSUME ServeInv, UNCHANGED readerVars, NEW k \in Keys, Doing("done", k) \/ Doing("clear", k), Quiet(k),
           UNCHANGED schedulerVars, UNCHANGED driverVars, UNCHANGED queue,
           NEW c \in Keys, "generate" \in Lines(c), NEW events, Writes(c, events),
           wire[c] # <<>> \/ events = <<>>, pending[c] = None \/ events = wire[c],
           main' \in MainRecords, main'.pc = main.pc, main'.msg = main.msg, main'.item \notin Adoptions,
           main'.item # None => main'.item.act = "clear" /\ main'.item.key = k
    PROVE  Kept /\ Proper
<1>1. FlowInv /\ ThreadTypes
  BY Zenon DEF ServeInv, FlowInv
<1>2. main.pc \in {"settle", "sweep", "drain", "publish"} /\ main.pc \in Driver /\ pending[k] = None
  BY Zenon, <1>1 DEF FlowInv, ItemInv, Driver, Doing, Item_is
<1>3. /\ wire \in [Keys -> Seq(WireEvents)] /\ wire' = [wire EXCEPT ![c] = events]
      /\ \A x : Lines(x)' = Lines(x) /\ AwaitsClient(x)' = AwaitsClient(x)
      /\ pending' = pending /\ lanes' = lanes /\ work' = work /\ streamed' = streamed
      /\ batch_poisoned' = batch_poisoned
  BY Zenon, <1>1 DEF Writes, ThreadTypes, Lines, readerVars, schedulerVars, driverVars, AwaitsClient, Awaiting, Occupied
<1>4. \A x : ~Doing("retire", x)' /\ ~Doing("announce", x)' /\ ~Doing("retire", x) /\ ~Doing("announce", x)
  BY Zenon DEF Doing, Item_is
<1>5. WorkInv'
  BY ZenonT(30), <1>1, <1>3, <1>4 DEF FlowInv, WorkInv, Todo, Listed, Holds
<1>6. ItemInv'
  BY Zenon, <1>2, <1>3 DEF ItemInv
<1>7. HeldInv'
  <2>1. ASSUME NEW x \in Keys, pending'[x] # None
        PROVE  "generate" \in Lines(x)' /\ wire'[x] = IF AwaitsClient(x)' THEN Offered ELSE Started
    <3>1. "generate" \in Lines(x) /\ wire[x] = IF AwaitsClient(x) THEN Offered ELSE Started
      BY Zenon, <1>1, <1>2, <1>3, <1>4, <2>1 DEF FlowInv, HeldInv
    <3> QED
      BY ZenonT(30), <1>3, <2>1, <3>1
  <2> QED
    BY Zenon, <1>4, <2>1 DEF HeldInv
<1>8. StreamInv'
  BY <1>1, <1>3 DEF FlowInv, StreamInv, Running, Occupied, Todo
<1>9. DriveInv'
  BY ZenonT(30), <1>5, <1>6, <1>7, <1>8 DEF DriveInv
<1>10. Tame /\ transfers \subseteq transfers'
  BY Zenon, <1>2, DriverQuiet
<1>11. /\ work' \in Seq(ListItems) /\ streamed' \in [Lanes -> 0 .. MaxTokens]
       /\ UNCHANGED <<queue, batch_poisoned>>
       /\ \A x \in Keys : pending[x] = None => pending'[x] = None
       /\ main'.pc \in Driver /\ main'.pc \in Driver \cup {"leave", "poison"}
  BY Zenon, <1>1, <1>2, <1>3 DEF ThreadTypes
<1>12. FlowInv'
  BY Zenon, <1>1, <1>2, <1>9, <1>10, <1>11, DriverFrameQueue
<1> QED
  BY <1>10, <1>12 DEF Kept, Proper, Lawful

\* done, and the admission retired.
LEMMA DoneSteps ==
    ASSUME ServeInv, UNCHANGED readerVars, DoneItem \/ ClearItem
    PROVE  Kept /\ Proper
<1>1. FlowInv /\ ThreadTypes
  BY DEF ServeInv, FlowInv
<1>2. /\ main.item # None /\ main.item.act \in {"done", "clear"} /\ main \in MainRecords
      /\ UNCHANGED schedulerVars /\ UNCHANGED driverVars /\ UNCHANGED queue
  BY <1>1 DEF DoneItem, ClearItem, Item_is, ThreadTypes
<1>3. /\ main.pc \in {"settle", "sweep", "drain", "publish"} /\ main.pc \in Driver
  BY ZenonT(30), <1>1, <1>2 DEF FlowInv, ItemInv, Driver
<1>4. main.item \in OpenItems
  BY Zenon, <1>1, <1>2, <1>3, EmptyHanded
<1>5. PICK i : i = main.item
  OBVIOUS
<1>6. PICK k \in Keys : k = i.key
  BY <1>4, <1>5 DEF OpenItems
<1>7. /\ i.admission \in Generations /\ pending[k] = None /\ (Doing("done", k) \/ Doing("clear", k))
  BY Zenon, <1>1, <1>2, <1>4, <1>5, <1>6 DEF OpenItems, FlowInv, ItemInv, Doing, Item_is
<1>8. CASE DoneItem
  <2>1. /\ WriteTerminal(k, ItemScope(i), "done") /\ i.act = "done"
        /\ main' = [main EXCEPT !.item.act = "clear"]
    BY <1>5, <1>6, <1>8 DEF DoneItem, Item_is
  <2>2. wire[k] = Offered /\ "commit" \in Lines(k) /\ "generate" \in Lines(k) /\ wire[k] # <<>>
    <3>1. wire[k] = Offered /\ "commit" \in Lines(k)
      BY <1>1, <1>2, <1>5, <1>6, <2>1 DEF FlowInv, ItemInv
    <3>2. Offered # <<>>
      BY DEF Offered
    <3> QED
      BY <1>1, <3>1, <3>2 DEF FlowInv, ReadInv
  <2>3. PICK scope \in Generations \cup {None} : scope = ItemScope(i)
    BY <1>6, <1>7, ScopeType DEF ItemScope
  <2>4. "done" \in Terminals /\ wire[k] \in {<<>>, Started, Offered}
    BY <2>2 DEF Terminals
  <2>5. Quiet(k) /\ \E events : Writes(k, events)
    BY <1>1, <2>1, <2>2, <2>3, <2>4, TerminalWritten
  <2>6. PICK events : Writes(k, events)
    BY <2>5
  <2> DEFINE item == [i EXCEPT !.act = "clear"]
  <2>7. item \in OpenItems /\ item.act = "clear" /\ item.key = k
    BY <1>4, <1>5, <1>6 DEF OpenItems
  <2>8. main' = [main EXCEPT !.item = item]
    BY <1>5, <2>1
  <2> HIDE DEF item
  <2>9. main' \in MainRecords /\ main'.pc = main.pc /\ main'.msg = main.msg /\ main'.item = item
    BY <1>2, <2>7, <2>8 DEF MainRecords
  <2>10. main'.item \notin Adoptions /\ (main'.item # None => main'.item.act = "clear" /\ main'.item.key = k)
    BY <2>7, <2>9 DEF Adoptions
  <2> QED
    BY <1>2, <1>7, <2>2, <2>5, <2>6, <2>9, <2>10, GivenBack
<1>9. CASE ClearItem
  <2>1. ClearAdmission(k, i.admission) /\ main' = [main EXCEPT !.item = None] /\ UNCHANGED wire
    BY <1>5, <1>6, <1>9 DEF ClearItem
  <2>2. Quiet(k)
    BY <1>7, <2>1, QuietClear
  <2>3. PICK c \in Keys : "generate" \in Lines(c)
    BY <1>1, <1>3, MsgFacts DEF Idle, Driver
  <2>4. Writes(c, wire[c])
    BY <1>1, <2>1, Unwritten
  <2>5. main' \in MainRecords /\ main'.pc = main.pc /\ main'.msg = main.msg /\ main'.item = None
    BY <1>2, <2>1 DEF MainRecords
  <2>6. main'.item \notin Adoptions
    BY <2>5, NoItemAssumption
  <2>7. (wire[c] # <<>> \/ wire[c] = <<>>) /\ (pending[c] = None \/ wire[c] = wire[c])
    OBVIOUS
  <2> QED
    BY <1>2, <1>7, <2>2, <2>3, <2>4, <2>5, <2>6, <2>7, GivenBack
<1> QED
  BY <1>8, <1>9

\* The requests fail_all answers.
LEMMA FailItemStep ==
    ASSUME ServeInv, UNCHANGED readerVars, FailItem
    PROVE  Kept /\ Proper
<1>1. FlowInv /\ ThreadTypes
  BY DEF ServeInv, FlowInv
<1>2. PICK w : w = Head(work)
  OBVIOUS
<1>3. PICK k : k = w.key
  OBVIOUS
<1>4. /\ main.item = None /\ work # <<>> /\ w.act = "fail" /\ work' = Tail(work) /\ main' = main
      /\ UNCHANGED schedulerVars /\ streamed' = streamed /\ UNCHANGED <<queue, batch_poisoned>>
      /\ WriteTerminal(k, ItemScope(w), "error")
  BY <1>2, <1>3 DEF FailItem, Head_is
<1>5. /\ w \in ListItems /\ k \in Keys /\ w.admission \in Generations /\ Listed(w) /\ main.pc \in Driver
      /\ Tail(work) \in Seq(ListItems) /\ Apart(Tail(work), ListItems)
      /\ Todo = Elements(Tail(work)) \cup {w}
      /\ \A v \in Elements(Tail(work)) : v \in Todo /\ v.key \in Keys /\ v.key # k
      /\ "generate" \in Lines(k) /\ wire[k] \in {<<>>, Started, Offered} /\ wire[k] # <<>>
  <2>1. Started # <<>> /\ Offered # <<>>
    BY DEF Started, Offered
  <2> QED
    BY Zenon, <1>2, <1>3, <1>4, <2>1, HeadFacts
<1>6. main.pc = "fail" /\ Todo' = Elements(Tail(work))
  BY Zenon, <1>4, <1>5 DEF Listed, Todo
<1>7. PICK scope \in Generations \cup {None} : scope = ItemScope(w)
  BY Zenon, <1>3, <1>5, ScopeType DEF ItemScope
<1>8. Quiet(k) /\ \E events : Writes(k, events)
  <2>1. "error" \in Terminals
    BY DEF Terminals
  <2> QED
    BY ZenonT(30), <1>1, <1>4, <1>5, <1>7, <2>1, TerminalWritten
<1>9. PICK events : Writes(k, events)
  BY <1>8
<1>10. /\ wire \in [Keys -> Seq(WireEvents)] /\ wire' = [wire EXCEPT ![k] = events]
       /\ \A x : Lines(x)' = Lines(x) /\ AwaitsClient(x)' = AwaitsClient(x)
       /\ \A x : ~Doing("retire", x) /\ ~Doing("retire", x)' /\ ~Doing("announce", x) /\ ~Doing("announce", x)'
       /\ pending' = pending /\ lanes' = lanes
  BY ZenonT(30), <1>1, <1>4, <1>9 DEF Writes, ThreadTypes, Lines, readerVars, schedulerVars, AwaitsClient, Awaiting,
       Occupied, Doing, Item_is
<1>11. WorkInv'
  BY ZenonT(30), <1>1, <1>4, <1>5, <1>6, <1>10 DEF FlowInv, WorkInv, Listed, Holds
<1>12. ItemInv'
  BY Zenon, <1>4, <1>6 DEF ItemInv
<1>13. HeldInv'
  <2>1. ASSUME NEW x \in Keys, pending'[x] # None, \E v \in Todo' : v.key = x
        PROVE  wire'[x] = IF AwaitsClient(x)' THEN Offered ELSE Started
    <3>1. x # k /\ \E v \in Todo : v.key = x
      BY <1>5, <1>6, <2>1
    <3>2. wire[x] = IF AwaitsClient(x) THEN Offered ELSE Started
      BY <1>1, <1>10, <2>1, <3>1 DEF FlowInv, HeldInv
    <3> QED
      BY Zenon, <1>10, <2>1, <3>1, <3>2
  <2>2. \A x \in Keys : pending'[x] # None => "generate" \in Lines(x)'
    BY Zenon, <1>1, <1>10 DEF FlowInv, HeldInv
  <2> QED
    BY ZenonT(30), <1>4, <1>6, <1>10, <2>1, <2>2 DEF HeldInv
<1>14. StreamInv'
  BY <1>4, <1>6 DEF StreamInv
<1>15. DriveInv'
  BY <1>11, <1>12, <1>13, <1>14 DEF DriveInv
<1>16. Tame /\ transfers \subseteq transfers'
  BY ZenonT(30), <1>4, <1>5, <1>8, DriverQuiet
<1>17. /\ work' \in Seq(ListItems) /\ streamed' \in [Lanes -> 0 .. MaxTokens]
       /\ \A x \in Keys : pending[x] = None => pending'[x] = None
       /\ main'.pc \in Driver /\ main'.pc \in Driver \cup {"leave", "poison"}
       /\ main' \in MainRecords /\ main'.msg = main.msg /\ main'.item \notin Adoptions
  BY ZenonT(30), <1>1, <1>4, <1>5, <1>10, NoItemAssumption DEF ThreadTypes
<1>18. FlowInv'
  BY Zenon, <1>1, <1>4, <1>5, <1>9, <1>15, <1>16, <1>17, DriverFrameQueue
<1> QED
  BY Zenon, <1>5, <1>9, <1>16, <1>18 DEF Kept, Proper, Lawful

\* A lane that finished waits for the client.
LEMMA MarkAwaitingStep ==
    ASSUME ServeInv, UNCHANGED readerVars, MarkAwaiting
    PROVE  Kept /\ Proper
<1>1. FlowInv /\ ThreadTypes /\ SchedulerInv /\ RegistryInv
  BY DEF ServeInv, FlowInv, RegistryInv
<1>2. PICK w : w = Head(work)
  OBVIOUS
<1>3. PICK k : k = w.key
  OBVIOUS
<1>4. PICK l : l = w.lane
  OBVIOUS
<1>5. /\ main.item = None /\ work # <<>> /\ w.act = "await" /\ Take("announce")
      /\ streamed' = streamed /\ wire' = wire /\ UNCHANGED <<queue, batch_poisoned>>
      /\ mark_awaiting_commit(l)
  BY <1>2, <1>4 DEF MarkAwaiting, Head_is
<1>6. /\ w \in ListItems /\ k \in Keys /\ Listed(w) /\ main.pc \in Driver
      /\ main.pc \in {"settle", "sweep", "publish", "fail"}
      /\ Tail(work) \in Seq(ListItems) /\ Apart(Tail(work), ListItems)
      /\ Todo = Elements(Tail(work)) \cup {w}
      /\ \A v \in Elements(Tail(work)) : v \in Todo /\ v.key \in Keys /\ v.key # k
      /\ "generate" \in Lines(k) /\ wire[k] = IF AwaitsClient(k) THEN Offered ELSE Started
  BY Zenon, <1>2, <1>3, <1>5, HeadFacts
<1>7. /\ main' \in MainRecords /\ main'.pc = main.pc /\ main'.msg = main.msg
      /\ main'.item # None /\ main'.item \notin Adoptions
      /\ main'.item.act = "announce" /\ main'.item.key = k
      /\ work' = Tail(work) /\ Todo' = Elements(Tail(work))
  BY Zenon, <1>2, <1>3, <1>5, TakeFacts
<1>8. /\ l \in Running /\ l \in Occupied /\ l \in Lanes /\ lanes[l] # None /\ lanes[l].state = "Running"
      /\ lanes' = [lanes EXCEPT ![l].state = "AwaitingClient", ![l].deadline = "armed"]
      /\ pending' = pending /\ lanes \in [Lanes -> OccupiedLanes \cup {None}]
  BY <1>1, <1>5 DEF mark_awaiting_commit, Running, Occupied, SchedulerInv, SchedulerTypeOK
<1>9. lanes[l].key = k
  <2>1. l # None
    BY <1>8, LanesAssumption, NoneAssumption
  <2> QED
    BY Zenon, <1>3, <1>4, <1>6, <2>1 DEF Listed, Holds
<1>10. main.pc # "fail" /\ main.pc \in {"settle", "sweep", "publish"}
  BY Zenon, <1>5, <1>6 DEF Listed
<1>11. /\ \A m \in Lanes : m # l => lanes'[m] = lanes[m]
       /\ lanes'[l] # None /\ lanes'[l].state = "AwaitingClient"
       /\ lanes'[l].key = lanes[l].key /\ lanes'[l].ticket = lanes[l].ticket
  <2>1. lanes[l] \in OccupiedLanes
    BY <1>1, <1>8, LaneOwner
  <2> DEFINE lane == [lanes[l] EXCEPT !.state = "AwaitingClient", !.deadline = "armed"]
  <2>2. lane \in OccupiedLanes /\ lane.state = "AwaitingClient" /\ lane.key = lanes[l].key
        /\ lane.ticket = lanes[l].ticket
    BY Zenon, <2>1 DEF OccupiedLanes
  <2>3. lanes' = [lanes EXCEPT ![l] = lane]
    BY Zenon, <1>8
  <2> HIDE DEF lane
  <2>4. lane # None
    BY <2>2, SchedulerAssumption
  <2> QED
    BY Zenon, <1>8, <2>2, <2>3, <2>4
<1>12. Running' = Running \ {l}
  BY <1>11 DEF Running, Occupied
<1>13. ~AwaitsClient(k) /\ AwaitsClient(k)' /\ \A x : x # k => AwaitsClient(x)' = AwaitsClient(x)
  <2>1. ~AwaitsClient(k)
    <3>1. \A m \in Occupied : lanes[m].key = k => m = l
      BY <1>1, <1>8, <1>9, LaneOwner
    <3> QED
      BY <1>8, <3>1 DEF AwaitsClient, Awaiting
  <2>2. AwaitsClient(k)'
    BY Zenon, <1>8, <1>9, <1>11 DEF AwaitsClient, Awaiting, Occupied
  <2>3. ASSUME NEW x, x # k PROVE AwaitsClient(x)' = AwaitsClient(x)
    BY <1>8, <1>9, <1>11, <2>3 DEF AwaitsClient, Awaiting, Occupied
  <2> QED
    BY <2>1, <2>2, <2>3
<1>14. \A x : Lines(x)' = Lines(x)
  BY DEF Lines, readerVars
<1>15. WorkInv'
  <2>1. ASSUME NEW v \in Todo' PROVE Listed(v)' /\ ~Doing("retire", v.key)'
    <3>1. Listed(v) /\ v \in ListItems /\ v.lane \in Lanes \cup {None}
      <4>1. v \in ListItems
        BY Zenon, <1>6, <1>7, <2>1, MembersOf
      <4> QED
        BY Zenon, <1>1, <1>6, <1>7, <2>1, <4>1 DEF FlowInv, WorkInv, ListItems
    <3>2. v.lane # None => Holds(v.lane, v.key, v.admission)'
      BY <1>11, <3>1 DEF Listed, Holds
    <3> QED
      BY <1>7, <1>8, <3>1, <3>2 DEF Listed, Doing, Item_is
  <2> QED
    BY <1>6, <1>7, <2>1 DEF WorkInv
<1>16. ItemInv'
  BY <1>7, <1>10, <1>13 DEF ItemInv
<1>17. HeldInv'
  <2>1. ASSUME NEW x \in Keys, pending'[x] # None
        PROVE  "generate" \in Lines(x)' /\ wire'[x] = IF AwaitsClient(x)' /\ ~Doing("announce", x)' THEN Offered ELSE Started
    <3>1. ~Doing("retire", x) /\ ~Doing("announce", x) /\ (Doing("announce", x)' <=> x = k)
      BY <1>5, <1>7 DEF Doing, Item_is
    <3>2. "generate" \in Lines(x) /\ wire[x] = IF AwaitsClient(x) THEN Offered ELSE Started
      BY <1>1, <1>8, <1>10, <2>1, <3>1 DEF FlowInv, HeldInv
    <3> QED
      BY <1>5, <1>13, <1>14, <3>1, <3>2
  <2> QED
    BY <2>1 DEF HeldInv
<1>18. StreamInv'
  <2>1. ASSUME NEW m \in Running' PROVE (\E v \in Todo' : v.act = "await" /\ v.lane = m) \/ streamed'[m] < MaxTokens
    <3>1. m \in Running /\ m # l
      BY <1>12, <2>1
    <3> QED
      BY Zenon, <1>1, <1>4, <1>5, <1>6, <1>7, <1>10, <3>1 DEF FlowInv, StreamInv
  <2> QED
    BY <2>1 DEF StreamInv
<1>19. DriveInv'
  BY <1>15, <1>16, <1>17, <1>18 DEF DriveInv
<1>20. Tame /\ transfers' = transfers
  <2>1. DriverStep
    BY <1>5, <1>8 DEF DriverStep
  <2> QED
    BY <1>1, <2>1, DriverTame DEF readerVars
<1>21. /\ work' \in Seq(ListItems) /\ streamed' \in [Lanes -> 0 .. MaxTokens]
       /\ \A x \in Keys : pending[x] = None => pending'[x] = None
       /\ main'.pc \in Driver /\ main'.pc \in Driver \cup {"leave", "poison"}
       /\ (wire[k] # <<>> \/ wire[k] = <<>>) /\ transfers \subseteq transfers'
  BY <1>1, <1>5, <1>6, <1>7, <1>8, <1>20 DEF ThreadTypes
<1>22. Writes(k, wire[k])
  BY Zenon, <1>1, <1>5, <1>6, Unwritten
<1>23. FlowInv'
  BY Zenon, <1>1, <1>5, <1>6, <1>7, <1>19, <1>21, <1>22, DriverFrameQueue
<1> QED
  BY <1>5, <1>20, <1>23 DEF Kept, Proper

\* commit_ready goes out.
LEMMA AnnounceReadyStep ==
    ASSUME ServeInv, UNCHANGED readerVars, AnnounceReady
    PROVE  Kept /\ Proper
<1>1. FlowInv /\ ThreadTypes /\ SchedulerInv /\ RegistryInv
  BY DEF ServeInv, FlowInv, RegistryInv
<1>2. /\ main.item # None /\ main.item.act = "announce" /\ main \in MainRecords
      /\ Write(main.item.key, "commit_ready") /\ main' = [main EXCEPT !.item = None]
      /\ UNCHANGED terminalVars /\ UNCHANGED schedulerVars
      /\ work' = work /\ streamed' = streamed /\ UNCHANGED <<queue, batch_poisoned>>
  BY <1>1 DEF AnnounceReady, Item_is, ThreadTypes, batchVars, driverVars
<1>3. /\ main.pc \in {"settle", "sweep", "drain", "publish"} /\ main.pc \in Driver
  BY <1>1, <1>2 DEF FlowInv, ItemInv, Driver
<1>4. PICK k \in Keys : k = main.item.key
  BY <1>1, <1>2, <1>3, EmptyHanded DEF OpenItems
<1>5. AwaitsClient(k) /\ pending[k] # None
  <2>1. AwaitsClient(k)
    BY <1>1, <1>2, <1>4 DEF FlowInv, ItemInv
  <2> QED
    BY Zenon, <1>1, <2>1, LaneOwner DEF AwaitsClient, Awaiting
<1>6. "generate" \in Lines(k) /\ wire[k] = Started
  <2>1. ~Doing("retire", k) /\ Doing("announce", k)
    BY <1>2, <1>4 DEF Doing, Item_is
  <2> QED
    BY <1>1, <1>3, <1>5, <2>1 DEF FlowInv, HeldInv
<1>7. Writes(k, Offered)
  <2>1. "commit_ready" \in WireEvents /\ Legal(wire[k], Append(wire[k], "commit_ready"), "commit" \in Lines(k))
    BY <1>6, Openings DEF Legal, WireEvents
  <2>2. Writes(k, Append(wire[k], "commit_ready"))
    BY <1>1, <1>2, <1>4, <2>1, OneWritten
  <2> QED
    BY Zenon, <1>6, <2>2, Openings
<1>8. /\ wire \in [Keys -> Seq(WireEvents)] /\ wire' = [wire EXCEPT ![k] = Offered]
      /\ \A x : Lines(x)' = Lines(x) /\ AwaitsClient(x)' = AwaitsClient(x)
      /\ pending' = pending /\ lanes' = lanes
  BY <1>1, <1>2, <1>7 DEF Writes, ThreadTypes, Lines, readerVars, schedulerVars, AwaitsClient, Awaiting, Occupied
<1>9. /\ main' \in MainRecords /\ main'.pc = main.pc /\ main'.msg = main.msg /\ main'.item = None
      /\ main'.item \notin Adoptions
  BY <1>2, NoItemAssumption DEF MainRecords
<1>10. \A x : ~Doing("retire", x)' /\ ~Doing("announce", x)' /\ ~Doing("retire", x) /\ (Doing("announce", x) => x = k)
  BY <1>2, <1>4, <1>9 DEF Doing, Item_is
<1>11. WorkInv'
  BY <1>1, <1>2, <1>8, <1>9, <1>10 DEF FlowInv, WorkInv, Todo, Listed, Holds
<1>12. ItemInv'
  BY <1>3, <1>9 DEF ItemInv
<1>13. HeldInv'
  <2>1. ASSUME NEW x \in Keys, pending'[x] # None
        PROVE  "generate" \in Lines(x)' /\ wire'[x] = IF AwaitsClient(x)' THEN Offered ELSE Started
    <3>1. CASE x = k
      BY <1>5, <1>6, <1>8, <3>1
    <3>2. CASE x # k
      <4>1. "generate" \in Lines(x) /\ wire[x] = IF AwaitsClient(x) THEN Offered ELSE Started
        BY <1>1, <1>3, <1>8, <1>10, <2>1, <3>2 DEF FlowInv, HeldInv
      <4> QED
        BY <1>8, <3>2, <4>1
    <3> QED
      BY <3>1, <3>2
  <2> QED
    BY <1>10, <2>1 DEF HeldInv
<1>14. StreamInv'
  BY <1>1, <1>2, <1>8, <1>9 DEF FlowInv, StreamInv, Running, Occupied, Todo
<1>15. DriveInv'
  BY <1>11, <1>12, <1>13, <1>14 DEF DriveInv
<1>16. Tame /\ transfers \subseteq transfers'
  <2>1. Quiet(k)
    BY <1>2 DEF Quiet
  <2> QED
    BY <1>2, <1>3, <2>1, DriverQuiet
<1>17. /\ work' \in Seq(ListItems) /\ streamed' \in [Lanes -> 0 .. MaxTokens] /\ wire[k] # <<>>
       /\ \A x \in Keys : pending[x] = None => pending'[x] = None
       /\ main'.pc \in Driver /\ main'.pc \in Driver \cup {"leave", "poison"}
  <2>1. Started # <<>>
    BY DEF Started
  <2> QED
    BY <1>1, <1>2, <1>3, <1>6, <1>8, <1>9, <2>1 DEF ThreadTypes
<1>18. FlowInv'
  BY <1>1, <1>2, <1>3, <1>6, <1>7, <1>9, <1>15, <1>16, <1>17, DriverFrameQueue
<1> QED
  BY <1>6, <1>7, <1>16, <1>18 DEF Kept, Proper, Lawful

\* The item steps.
LEMMA ItemSteps ==
    ASSUME ServeInv, UNCHANGED readerVars,
           \/ CancelItem \/ RetireItem \/ CommitItem \/ DoneItem \/ ClearItem
           \/ MarkAwaiting \/ AnnounceReady \/ FailItem
    PROVE  Kept /\ Proper
  BY SettleSteps, RetireItemStep, DoneSteps, MarkAwaitingStep, AnnounceReadyStep, FailItemStep

----------------------------------------------------------------------------
(* Draining the queue *)

\* The message at the front of the queue.
LEMMA FrontMessage ==
    ASSUME FlowInv, queue # <<>>, Head(queue) \in Generates, NEW k, k = Msg.key
    PROVE  /\ k \in Keys /\ Msg.admission \in Generations /\ "generate" \in Lines(k)
           /\ wire[k] = <<>> /\ pending[k] = None /\ ~Handles(k)
           /\ Tail(queue) \in Seq(Generates \cup {Reset}) /\ Apart(Tail(queue), Generates)
           /\ \A m \in Elements(Tail(queue)) \cap Generates :
                 /\ m \in Mail /\ m.key \in Keys /\ m.key # k /\ pending[m.key] = None
                 /\ m.transfer # None => m.transfer \in transfers /\ m.transfer.key = m.key
<1>1. /\ Tail(queue) \in Seq(Generates \cup {Reset}) /\ Apart(Tail(queue), Generates)
      /\ Elements(Tail(queue)) \cap Generates \subseteq Mail /\ Msg \in Mail
      /\ \A m \in Elements(Tail(queue)) \cap Generates : m.key # Msg.key
  BY TakenMessage DEF Msg
<1>2. k \in Keys /\ Msg.admission \in Generations /\ \A m \in Mail : m.key \in Keys
  BY DEF Generates, Msg, Mail
<1>3. /\ \A m \in Mail : "generate" \in Lines(m.key) /\ wire[m.key] = <<>> /\ ~Handles(m.key) /\ pending[m.key] = None
      /\ \A m \in Mail : m.transfer # None => m.transfer \in transfers /\ m.transfer.key = m.key
  BY DEF FlowInv, QueueInv, TokenInv, Minted
<1> QED
  BY <1>1, <1>2, <1>3

\* What the driver keeps of a message it took.
LEMMA DrainItemFacts ==
    ASSUME FlowInv, main.pc = "drain", queue # <<>>, Head(queue) \in Generates, NEW k, k = Msg.key,
           NEW act \in {"clear", "handoff", "enqueue"},
           main' = [main EXCEPT !.item = [DrainItem EXCEPT !.act = act]]
    PROVE  /\ main' \in MainRecords /\ main'.pc = "drain" /\ main'.msg = main.msg
           /\ main'.item # None /\ main'.item \notin Adoptions
           /\ main'.item.act = act /\ main'.item.key = k /\ main'.item.admission = Msg.admission
<1>1. main \in MainRecords /\ k \in Keys /\ Msg.admission \in Generations
  BY FrontMessage DEF FlowInv, ThreadTypes
<1> DEFINE item == [DrainItem EXCEPT !.act = act]
<1>2. item \in OpenItems /\ item.act = act /\ item.key = k /\ item.admission = Msg.admission
  BY <1>1 DEF DrainItem, OpenItems
<1> HIDE DEF item
<1>3. main' = [main EXCEPT !.item = item]
  BY DEF item
<1>4. main' \in MainRecords /\ main'.pc = "drain" /\ main'.msg = main.msg /\ main'.item = item
  BY <1>1, <1>2, <1>3 DEF MainRecords
<1>5. item # None /\ item \notin Adoptions
  BY <1>2, NoItemAssumption DEF Adoptions
<1> QED
  BY <1>2, <1>4, <1>5

\* The item of the message at the front of the queue.
LEMMA FrontItem ==
    ASSUME FlowInv, main.item # None, main.item.act \in {"handoff", "enqueue"}
    PROVE  /\ main.pc = "drain" /\ queue # <<>> /\ Head(queue) \in Generates
           /\ Msg.key = main.item.key /\ Msg.transfer = None /\ work = <<>> /\ main \in MainRecords
<1>1. main.pc \in {"settle", "sweep", "drain", "publish"} /\ main.pc \in Driver /\ main \in MainRecords
  BY Zenon DEF FlowInv, ItemInv, Driver, ThreadTypes
<1>2. main.item \in OpenItems
  BY <1>1, EmptyHanded
<1>3. queue # <<>> /\ Head(queue) = Generate(main.item.key, main.item.admission, None)
  BY DEF FlowInv, ItemInv
<1>4. Head(queue) \in Generates /\ Msg.key = main.item.key /\ Msg.transfer = None
  <2>1. main.item.key \in Keys /\ main.item.admission \in Generations
    BY <1>2 DEF OpenItems
  <2>2. Msg = [type |-> "generate", key |-> main.item.key, admission |-> main.item.admission, transfer |-> None]
        /\ Msg = Head(queue)
    BY <1>3 DEF Generate, Msg
  <2>3. Msg.key = main.item.key /\ Msg.transfer = None
    BY <2>2
  <2>4. Msg \in Generates
    BY <2>1, <2>2 DEF Generates
  <2> QED
    BY Zenon, <2>2, <2>3, <2>4
<1>5. main.pc = "drain"
  BY DEF FlowInv, ItemInv
<1>6. work = <<>>
  BY <1>1, <1>5, EmptyHanded
<1> QED
  BY ZenonT(30), <1>1, <1>3, <1>4, <1>5, <1>6

=============================================================================
