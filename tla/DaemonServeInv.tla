---------------------------- MODULE DaemonServeInv ----------------------------
(***************************************************************************)
(* What holds of the daemon at every step, and the shapes its steps have.  *)
(* ServeInv says, for every request, where it is (the queue, main, the     *)
(* scheduler, the driver's list) and what is on its wire while it is       *)
(* there.                                                                  *)
(***************************************************************************)
EXTENDS DaemonServe

\* The members of q that are in G have keys of their own.
Apart(q, G) == \A i, j \in DOMAIN q : q[i] \in G /\ q[j] \in G /\ q[i].key = q[j].key => i = j

----------------------------------------------------------------------------
(* The invariant of the threads *)

\* The requests in main's queue, and what the driver's list still has to do
Mail == Elements(queue) \cap Generates
Todo == Elements(work)

Started == <<"start">>
Offered == <<"start", "commit_ready">>

\* Main handles the message of k, or is in the middle of act for k.
Handles(k) == main.pc \notin Idle /\ main.msg.key = k
Doing(act, k) == Item_is(act) /\ main.item.key = k

AwaitsClient(k) == \E l \in Awaiting : lanes[l].key = k

MainRecords ==
    [pc : Places, msg : Generates \cup {Reset, None}, scope : Generations \cup {None},
     item : OpenItems \cup Adoptions \cup {None}]

WireEvents == Terminals \cup {"start", "commit_ready"}

ThreadTypes ==
    /\ lines \in [Keys -> Seq(Controls \cup {"generate"})]
    /\ resets \in 0 .. Resets
    /\ reader \in ReaderCalls \cup {None}
    /\ queue \in Seq(Generates \cup {Reset})
    /\ main \in MainRecords
    /\ main.pc \notin Idle => main.msg \in Generates
    /\ work \in Seq(ListItems)
    /\ streamed \in [Lanes -> 0 .. MaxTokens]
    /\ batch_poisoned \in BOOLEAN
    /\ wire \in [Keys -> Seq(WireEvents)]

\* Nothing is written for a request the reader has not taken.
ReadInv ==
    /\ \A k \in Keys : "generate" \notin Lines(k) => wire[k] = <<>>
    /\ reader # None => reader.kind \in Lines(reader.key)

\* A request in the queue is in no other place, and not on the wire.
QueueInv ==
    /\ Apart(queue, Generates)
    /\ \A m \in Mail :
          /\ "generate" \in Lines(m.key) /\ wire[m.key] = <<>>
          /\ ~Handles(m.key) /\ pending[m.key] = None

\* What is on the wire of a request when main is at pc with it.
Stage(pc, events, committed) ==
    /\ pc \in Unstarted => events = <<>>
    /\ pc \in {"sequential", "publish_ready"} => events = Started
    /\ pc \in {"await", "done"} => events = Offered
    /\ pc = "cancel" => events \in {Started, Offered}
    /\ pc = "done" => committed

\* Outside the driver the scheduler is empty.
MainInv ==
    /\ main.pc \notin Idle => "generate" \in Lines(Key) /\ Stage(main.pc, wire[Key], "commit" \in Lines(Key))
    /\ main.pc \notin Driver => \A k \in Keys : pending[k] = None

\* An element of a list is of a request the scheduler holds.
Listed(w) ==
    /\ pending[w.key] # None
    /\ w.lane # None => Holds(w.lane, w.key, w.admission)
    /\ w.act = "fail" <=> main.pc = "fail"

WorkInv ==
    /\ work # <<>> => main.pc \in {"settle", "sweep", "publish", "fail"}
    /\ Apart(work, ListItems)
    /\ \A w \in Todo : Listed(w) /\ ~Doing("retire", w.key)

ItemInv ==
    /\ main.pc \in {"adopt", "adopt_think"} => main.item \in Adoptions /\ main.item.key = Key
    /\ main.item # None =>
          LET k == main.item.key
          IN  /\ main.item.act = "adopt" => main.pc \in {"adopt", "adopt_think"}
              /\ main.item.act # "adopt" => main.pc \in {"settle", "sweep", "drain", "publish"}
              /\ main.item.act \in {"handoff", "enqueue"} =>
                    /\ main.pc = "drain"
                    /\ queue # <<>> /\ Head(queue) = Generate(k, main.item.admission, None)
              /\ main.item.act \in {"done", "clear"} => pending[k] = None
              /\ main.item.act = "announce" => AwaitsClient(k)
              /\ main.item.act = "done" => wire[k] = Offered /\ "commit" \in Lines(k)

\* What is on the wire of a request the scheduler holds, until its terminal
\* is written.
HeldInv ==
    \A k \in Keys : pending[k] # None =>
        /\ "generate" \in Lines(k)
        /\ \/ Doing("retire", k)
           \/ main.pc = "fail" /\ \A w \in Todo : w.key # k
           \/ wire[k] = IF AwaitsClient(k) /\ ~Doing("announce", k) THEN Offered ELSE Started

\* A lane that runs has a token left, unless it is about to stop.
StreamInv ==
    \A l \in Running :
        \/ main.pc = "fail"
        \/ \E w \in Todo : w.act = "await" /\ w.lane = l
        \/ streamed[l] < MaxTokens

\* A token main is to present was handed out for its request.
Minted(t, k) == t \in transfers /\ t.key = k

TokenInv ==
    /\ \A m \in Mail : m.transfer # None => Minted(m.transfer, m.key)
    /\ main.pc \notin Idle /\ main.msg.transfer # None => Minted(main.msg.transfer, Key)
    /\ main.item \in Adoptions => Minted(main.item.transfer, main.item.key)

FlowInv ==
    /\ ThreadTypes /\ ReadInv /\ QueueInv /\ MainInv /\ WorkInv /\ ItemInv /\ HeldInv
    /\ StreamInv /\ TokenInv

\* A commit decision, wherever it is kept, comes from a commit line.
CommitInv ==
    /\ \A k \in Keys : entries[k] # None /\ entries[k].commit_latched => "commit" \in Lines(k)
    /\ active # None /\ active.decision = "Commit" => "commit" \in Lines(active.key)
    /\ \A k \in Keys : handoffs[k] # None /\ handoffs[k].singleton # None
          /\ handoffs[k].singleton.decision = "Commit" => "commit" \in Lines(k)
    /\ \A t \in transfers : t.singleton # None /\ t.singleton.decision = "Commit"
          => "commit" \in Lines(t.key)

RegistryInv == TerminalTypeOK /\ SchedulerInv /\ CommitInv

ServeInv == RegistryInv /\ FlowInv

----------------------------------------------------------------------------
(* The steps *)

Acts == {"cancel", "commit", "await", "fail"}

\* What holds of a new element, before main goes on to its list.
FromScheduler(w, act) ==
    /\ w \in ListItems /\ w.act = act
    /\ pending[w.key] # None
    /\ w.lane # None => w.lane \in Occupied /\ w.key = lanes[w.lane].key /\ Holds(w.lane, w.key, w.admission)
    /\ w.lane = None => w.key \in Queued

\* What main does to the registry beside the scheduler's own calls.
Quiet(k) ==
    \/ UNCHANGED terminalVars
    \/ \E scope \in Generations \cup {None} : claim_wire_terminal(k, scope)
    \/ activate_terminal_control(k)
    \/ mark_terminal_control_ready(k)
    \/ TerminalWaitTimesOut(k)
    \/ DeadlinePasses(k)
    \/ clear_terminal_control
    \/ \E t \in transfers : adopt_singleton_transfer(t)
    \/ /\ pending[k] = None
       /\ \E g \in Generations :
             \/ batch_transition_to_queued(k, g)
             \/ batch_clear_terminal_at_generation(k, g)
             \/ batch_handoff_to_singleton_and_clear(k, g)

\* What a step of main does to the registry and the scheduler: one quiet call,
\* one call of the scheduler, or the clearing of the registry.
Tame ==
    /\ UNCHANGED lines
    /\ \/ UNCHANGED schedulerVars /\ (UNCHANGED terminalVars \/ \E k \in Keys : Quiet(k))
       \/ DriverStep
       \/ ResetTerminals

\* A step of main keeps the invariant of the threads, and is tame.
Kept == FlowInv' /\ Tame

\* The lines the reader has taken only grow.
LinesGrow == \A c \in Keys : Lines(c) \subseteq Lines(c)'

\* The item of an adoption under way.
AdoptionOf(k) ==
    main.item \in Adoptions /\ main.item.key = k /\ Minted(main.item.transfer, k)

\* The wire of a request may grow from old to new.
Legal(old, new, committed) ==
    \/ new = old
    \/ old = <<>> /\ new \in {Started, <<"start", "aborted">>}
    \/ old = Started /\ new = Offered
    \/ old \in {<<>>, Started, Offered} /\ \E t \in {"aborted", "error"} : new = Append(old, t)
    \/ old = Offered /\ committed /\ new = Append(old, "done")

\* A step that writes for k at most.
Writes(k, events) ==
    /\ events \in Seq(WireEvents)
    /\ wire' = [wire EXCEPT ![k] = events]
    /\ Legal(wire[k], events, "commit" \in Lines(k))

Lawful == \E k \in Keys : "generate" \in Lines(k) /\ \E events : Writes(k, events)

\* What a step may do to the wires: at most what is lawful.
Proper == Lawful \/ UNCHANGED wire

\* The part of the invariant the driver's steps disturb
DriveInv == WorkInv /\ ItemInv /\ HeldInv /\ StreamInv

\* A request leaves the scheduler, from its lane or from the inbox, and the
\* driver goes on to what remains of its list.
Released(k) ==
    /\ main.pc \in Driver \ {"fail"} /\ pending[k] # None /\ "generate" \in Lines(k)
    /\ pending' = [pending EXCEPT ![k] = None]
    /\ \A l \in Lanes : \/ lanes'[l] = lanes[l]
                        \/ lanes[l] # None /\ lanes[l].key = k /\ lanes'[l] = None
    /\ Tame /\ transfers' = transfers
    /\ UNCHANGED <<wire, streamed, batch_poisoned, queue>>
    /\ main' \in MainRecords /\ main'.pc = main.pc /\ main'.msg = main.msg /\ main'.item \notin Adoptions
    /\ main.item = None \/ Doing("retire", k)
    /\ main'.item # None =>
          /\ main'.item.act = "done" /\ main'.item.key = k
          /\ main.pc \in {"settle", "sweep", "publish"} /\ wire[k] = Offered /\ "commit" \in Lines(k)
    /\ work' \in Seq(ListItems) /\ Apart(work', ListItems) /\ (work' # <<>> => work # <<>>)
    /\ \A v \in Todo' : v \in Todo /\ v \in ListItems /\ v.key # k
    /\ \A v \in Todo : v.act = "await" => v \in Todo'

\* A lane changes its deadline at most.
SameLanes ==
    \A l \in Lanes :
        /\ lanes'[l] = None <=> lanes[l] = None
        /\ lanes'[l].state = lanes[l].state /\ lanes'[l].key = lanes[l].key
        /\ lanes'[l].ticket = lanes[l].ticket

=============================================================================
