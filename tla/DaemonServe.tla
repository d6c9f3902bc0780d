---------------------------- MODULE DaemonServe ----------------------------
(***************************************************************************)
(* The serving loop of hipfire-daemon with fixed-lane continuous batching: *)
(* the stdin reader thread and the main loop of                            *)
(* crates/hipfire-daemon/src/main.rs, the generate arm, and the batch      *)
(* driver of crates/hipfire-generate/src/batch.rs                          *)
(* (drive_qwen_continuous_batch), over the terminal registry and the       *)
(* scheduler.                                                              *)
(*                                                                         *)
(* Two threads interleave.  The reader applies a control line with two     *)
(* calls that take the locks separately.  Main is a program counter: one   *)
(* step of it makes at most one call that changes the registry.  A test of *)
(* an abort latch and the scheduler call it guards are one step: a latch   *)
(* set in between leaves the state it would leave right after.             *)
(*                                                                         *)
(* DaemonInbox serves its backlog before the reader's channel, and what is *)
(* pushed to the front is what was just taken from it, so both are one     *)
(* queue.  Tokens, prompts, GPU state and the text of messages are left    *)
(* out; the outcome of rendering, validation and GPU calls is a choice.    *)
(***************************************************************************)
EXTENDS BatchScheduler, FiniteSets

CONSTANTS
    Eligible,    \* requests whose wire shape the batch route accepts
    ThinkOpen,   \* requests whose rendered prompt ends inside a think block
    GpuFaults,   \* {} or a set of outcomes of fail_all: "attested", "poisoned"
    Resets,      \* number of reset commands the client sends
    MaxTokens    \* max_tokens of every request

ASSUME ServeAssumption ==
    /\ Eligible \subseteq Keys
    /\ ThinkOpen \subseteq Keys
    /\ GpuFaults \subseteq {"attested", "poisoned"}
    /\ Resets \in Nat
    /\ MaxTokens \in Nat \ {0}
    /\ IsFiniteSet(Lanes)

VARIABLES
    lines,       \* [Keys -> the lines of the request the reader has taken, in order]
    resets,      \* reset commands the reader has taken
    reader,      \* control whose second call is due, or None
    queue,       \* DaemonInbox: messages for the main loop
    main,        \* main thread: where it is, the message it handles, its
                 \* ACTIVE_BATCH_GENERATION, and the list item in progress
    work,        \* the driver's to_abort, to_commit and to_await lists
    streamed,    \* [Lanes -> tokens the lane has streamed]
    batch_poisoned,
    wire         \* [Keys -> the events written for the request, in order]

threadVars == <<lines, resets, reader, queue, main, work, streamed, batch_poisoned, wire>>
serveVars == <<batchVars, threadVars>>

\* DaemonMsg::RegularWithAdmission (no transfer) and SingletonWithAdmission
Generate(k, g, t) == [type |-> "generate", key |-> k, admission |-> g, transfer |-> t]

\* The one Regular message modelled
Reset == [type |-> "reset"]

Generates ==
    [type : {"generate"}, key : Keys, admission : Generations, transfer : Transfers \cup {None}]

\* An element of the driver's lists, what is left to do with one that was
\* taken up, and a transfer made and not yet adopted
ListItems ==
    [act : {"cancel", "commit", "await", "fail"}, lane : Lanes \cup {None}, key : Keys,
     admission : Generations]
OpenItems ==
    [act : {"retire", "done", "clear", "announce", "handoff", "enqueue"},
     lane : Lanes \cup {None}, key : Keys, admission : Generations]
Adoptions == [act : {"adopt"}, key : Keys, transfer : Transfers]

ReaderCalls == [kind : Controls, key : Keys]

ASSUME NoItemAssumption ==
    None \notin Transfers /\ None \notin OpenItems /\ None \notin Adoptions /\ None \notin ReaderCalls

ServeInit ==
    /\ BatchInit
    /\ lines = [k \in Keys |-> <<>>]
    /\ resets = 0
    /\ reader = None
    /\ queue = <<>>
    /\ main = [pc |-> "recv", msg |-> None, scope |-> None, item |-> None]
    /\ work = <<>>
    /\ streamed = [l \in Lanes |-> 0]
    /\ batch_poisoned = FALSE
    /\ wire = [k \in Keys |-> <<>>]

----------------------------------------------------------------------------
(* Events on the wire *)

Terminals == {"done", "aborted", "error"}

Events(k) == {wire[k][i] : i \in DOMAIN wire[k]}
Lines(k) == {lines[k][i] : i \in DOMAIN lines[k]}

\* gen_start and commit_ready need no claim.
Write(k, event) == wire' = [wire EXCEPT ![k] = Append(@, event)]

\* A terminal writer claims first and writes nothing when refused.
WriteTerminal(k, scope, event) ==
    IF ClaimGranted(k, scope)
      THEN claim_wire_terminal(k, scope) /\ Write(k, event)
      ELSE UNCHANGED <<terminalVars, wire>>

\* A request aborted before it has a lane: gen_start, then the terminal.
WriteCancelled(k, scope) ==
    IF ClaimGranted(k, scope)
      THEN claim_wire_terminal(k, scope) /\ wire' = [wire EXCEPT ![k] = @ \o <<"start", "aborted">>]
      ELSE Write(k, "start") /\ UNCHANGED terminalVars

\* Variant: the writer's scope is never entered.
enter_no_scope(k, g) == None

\* BatchAttemptScope::enter_for_generation
EnterScope(k, g) == IF batch_is_current(k, g) THEN g ELSE None

\* batch_clear_terminal_at_generation as its callers use it, result ignored
ClearAdmission(k, g) ==
    IF batch_is_current(k, g)
      THEN batch_clear_terminal_at_generation(k, g)
      ELSE UNCHANGED terminalVars

----------------------------------------------------------------------------
(* The stdin reader thread *)

Took(k, line) == lines' = [lines EXCEPT ![k] = Append(@, line)]

\* announce_generate_terminal, then the message goes to main.
ReadGenerate(k) ==
    /\ reader = None
    /\ "generate" \notin Lines(k)
    /\ Took(k, "generate")
    /\ batch_announce_terminal(k)
    /\ queue' = Append(queue, Generate(k, batch_next + 1, None))
    /\ UNCHANGED <<schedulerVars, resets, reader, main, work, streamed, batch_poisoned, wire>>

\* First call for a control line.  The client sends each control once, at
\* any time, early and stale ones included.
ReadControl(kind, k) ==
    /\ reader = None
    /\ kind \notin Lines(k)
    /\ Took(k, kind)
    /\ apply_terminal_control(kind, k)
    /\ reader' = [kind |-> kind, key |-> k]
    /\ UNCHANGED <<schedulerVars, resets, queue, main, work, streamed, batch_poisoned, wire>>

\* Second call for the same line.
ReadControlBatch ==
    /\ reader # None
    /\ batch_apply_terminal_control(reader.kind, reader.key)
    /\ reader' = None
    /\ UNCHANGED <<schedulerVars, lines, resets, queue, main, work, streamed, batch_poisoned, wire>>

ReadReset ==
    /\ reader = None
    /\ resets < Resets
    /\ resets' = resets + 1
    /\ queue' = Append(queue, Reset)
    /\ UNCHANGED <<batchVars, lines, reader, main, work, streamed, batch_poisoned, wire>>

readerVars == <<lines, resets, reader>>
driverVars == <<work, streamed, batch_poisoned>>

----------------------------------------------------------------------------
(* The main loop up to the route of a generate *)

At(pc) == main.pc = pc
Goto(pc) == main' = [main EXCEPT !.pc = pc]

Key == main.msg.key
Admission == main.msg.admission

Recv ==
    /\ At("recv")
    /\ queue # <<>>
    /\ queue' = Tail(queue)
    /\ main' = [pc |-> IF Head(queue).type = "reset" THEN "reset" ELSE "dispatch",
                msg |-> Head(queue), scope |-> None, item |-> None]
    /\ UNCHANGED <<batchVars, driverVars, wire>>

\* The reset arm.  Lanes are never active here.  If the rollback is attested,
\* fail_all_active and batch_clear_all_terminals.
HandleReset ==
    /\ At("reset")
    /\ Goto("recv")
    /\ \E rolled_back \in BOOLEAN :
          IF rolled_back /\ Occupied = {}
            THEN EmptyScheduler /\ batch_clear_all_terminals
            ELSE UNCHANGED batchVars
    /\ UNCHANGED <<driverVars, queue, wire>>

\* emit_batch_admission_error: a keyed error, then (at "refused") the
\* admission is retired.
RefusePoisoned ==
    /\ At("dispatch")
    /\ batch_poisoned
    /\ WriteTerminal(Key, EnterScope(Key, Admission), "error")
    /\ Goto("refused")
    /\ UNCHANGED <<schedulerVars, driverVars, queue>>

\* Variant: a refused admission is not retired.
refused_stays ==
    /\ At("refused")
    /\ Goto("recv")
    /\ UNCHANGED <<batchVars, driverVars, queue, wire>>

RetireRefused ==
    /\ At("refused")
    /\ ClearAdmission(Key, Admission)
    /\ Goto("recv")
    /\ UNCHANGED <<schedulerVars, driverVars, queue, wire>>

\* An ordinary request gets a fresh singleton and the scope of its admission.
Activate ==
    /\ At("dispatch")
    /\ ~batch_poisoned
    /\ main.msg.transfer = None
    /\ IF handoffs[Key] = None
         THEN activate_terminal_control(Key)
         ELSE UNCHANGED terminalVars
    /\ main' = [main EXCEPT !.pc = "route", !.scope = EnterScope(Key, Admission)]
    /\ UNCHANGED <<schedulerVars, driverVars, queue, wire>>

\* A handed-off request adopts its transfer, outside every batch scope.
AdoptHandoff ==
    /\ At("dispatch")
    /\ ~batch_poisoned
    /\ main.msg.transfer # None
    /\ IF Adoptable(main.msg.transfer)
         THEN adopt_singleton_transfer(main.msg.transfer) /\ Goto("route")
         ELSE UNCHANGED terminalVars /\ Goto("recv")
    /\ UNCHANGED <<schedulerVars, driverVars, queue, wire>>

\* Validation, rendering, capacity and seed refusals: an error, and out.
RefuseInvalid ==
    /\ main.pc \in {"route", "admit", "generate"}
    /\ WriteTerminal(Key, IF At("admit") THEN EnterScope(Key, Admission) ELSE main.scope, "error")
    /\ Goto("leave")
    /\ UNCHANGED <<schedulerVars, driverVars, queue>>

RouteBatch ==
    /\ At("route")
    /\ main.msg.transfer = None
    /\ Key \in Eligible
    /\ IF Queueable(Key, Admission)
         THEN batch_transition_to_queued(Key, Admission)
         ELSE UNCHANGED terminalVars
    /\ Goto("admit")
    /\ UNCHANGED <<schedulerVars, driverVars, queue, wire>>

\* batch_transfer_abort_to_singleton_and_clear, first half: hand off.  A
\* retired admission has nothing to transfer.
HandOff(adopting, otherwise) ==
    /\ IF batch_is_current(Key, Admission) /\ handoffs[Key] = None
         THEN /\ batch_handoff_to_singleton_and_clear(Key, Admission)
              /\ main' = [main EXCEPT !.pc = adopting, !.item =
                            [act |-> "adopt", key |-> Key, transfer |-> TransferOf(Key)]]
         ELSE UNCHANGED terminalVars /\ main' = otherwise
    /\ UNCHANGED <<schedulerVars, driverVars, queue, wire>>

\* BatchAttemptScope::rebind_for: the sequential producer takes the
\* singleton claim.
Rebound == [main EXCEPT !.pc = "generate", !.scope = None, !.item = None]

RouteSequential ==
    /\ At("route")
    /\ main.msg.transfer = None
    /\ Key \notin Eligible
    /\ HandOff("adopt", Rebound)

AdoptOwn ==
    /\ At("adopt")
    /\ adopt_singleton_transfer(main.item.transfer)
    /\ main' = Rebound
    /\ UNCHANGED <<schedulerVars, driverVars, queue, wire>>

RouteHandoff ==
    /\ At("route")
    /\ main.msg.transfer # None
    /\ main' = Rebound
    /\ UNCHANGED <<batchVars, driverVars, queue, wire>>

----------------------------------------------------------------------------
(* Batch admission of the request main dispatched *)

Aborted == batch_check_abort(Key, Admission)

AdmitAborted ==
    /\ At("admit")
    /\ Aborted
    /\ WriteCancelled(Key, EnterScope(Key, Admission))
    /\ Goto("leave")
    /\ UNCHANGED <<schedulerVars, driverVars, queue>>

\* A think-open prompt on the fixed-lane route: the transfer is made, and the
\* scope is rebound only for vmm_singleton_now, which is false here.
AdmitThink ==
    /\ At("admit")
    /\ ~Aborted
    /\ Key \in ThinkOpen
    /\ HandOff("adopt_think", [main EXCEPT !.pc = "generate"])

AdoptThink ==
    /\ At("adopt_think")
    /\ adopt_singleton_transfer(main.item.transfer)
    /\ main' = [main EXCEPT !.pc = "generate", !.item = None]
    /\ UNCHANGED <<schedulerVars, driverVars, queue, wire>>

\* A request the scheduler refuses leaves without a word.
AdmitEnqueue ==
    /\ At("admit")
    /\ ~Aborted
    /\ Key \notin ThinkOpen
    /\ IF batch_is_current(Key, Admission) /\ pending[Key] = None
         THEN /\ \E sampling \in Samplings : enqueue(Key, Admission, sampling)
              /\ Write(Key, "start")
              /\ Goto("poll")
         ELSE UNCHANGED <<batchVars, wire>> /\ Goto("leave")
    /\ UNCHANGED <<driverVars, queue>>

----------------------------------------------------------------------------
(* Sequential generation and the commit handshake *)

GenerateStart ==
    /\ At("generate")
    /\ Write(Key, "start")
    /\ Goto("sequential")
    /\ UNCHANGED <<batchVars, driverVars, queue>>

\* The decode loop sees the abort.
SequentialCancel ==
    /\ At("sequential")
    /\ check_abort(Key.id)
    /\ Goto("cancel")
    /\ UNCHANGED <<batchVars, driverVars, queue, wire>>

SequentialError ==
    /\ At("sequential")
    /\ GpuFaults # {}
    /\ WriteTerminal(Key, main.scope, "error")
    /\ Goto("leave")
    /\ UNCHANGED <<schedulerVars, driverVars, queue>>

\* Variant: commit_ready is not published.
finish_unpublished ==
    /\ At("sequential")
    /\ IF Owns(Key)
         THEN mark_terminal_control_ready(Key) /\ Goto("await")
         ELSE UNCHANGED terminalVars /\ Goto("cancel")
    /\ UNCHANGED <<schedulerVars, driverVars, queue, wire>>

\* await_client_terminal_commit: ready first, then commit_ready.
SequentialFinish ==
    /\ At("sequential")
    /\ IF Owns(Key)
         THEN mark_terminal_control_ready(Key) /\ Goto("publish_ready")
         ELSE UNCHANGED terminalVars /\ Goto("cancel")
    /\ UNCHANGED <<schedulerVars, driverVars, queue, wire>>

PublishReady ==
    /\ At("publish_ready")
    /\ Write(Key, "commit_ready")
    /\ Goto("await")
    /\ UNCHANGED <<batchVars, driverVars, queue>>

\* wait_terminal_control_decision returns a decision ...
AwaitDecision ==
    /\ At("await")
    /\ Owns(Key) => active.decision # None
    /\ Goto(IF Owns(Key) /\ active.decision = "Commit" THEN "done" ELSE "cancel")
    /\ UNCHANGED <<batchVars, driverVars, queue, wire>>

\* ... or runs into CLIENT_TERMINAL_COMMIT_TIMEOUT.
AwaitTimeout ==
    /\ At("await")
    /\ TerminalWaitTimesOut(Key)
    /\ Goto("cancel")
    /\ UNCHANGED <<schedulerVars, driverVars, queue, wire>>

SequentialTerminal ==
    /\ At("done") \/ At("cancel")
    /\ WriteTerminal(Key, main.scope, IF At("done") THEN "done" ELSE "aborted")
    /\ Goto("leave")
    /\ UNCHANGED <<schedulerVars, driverVars, queue>>

\* The drop guards of the generate arm: BatchTerminalCleanup, unless the
\* request came as a handoff, then TerminalControlGuard.
Leave ==
    /\ At("leave")
    /\ IF main.msg.transfer = None
         THEN ClearAdmission(Key, Admission)
         ELSE UNCHANGED terminalVars
    /\ Goto("left")
    /\ UNCHANGED <<schedulerVars, driverVars, queue, wire>>

Left ==
    /\ At("left")
    /\ IF active # None THEN clear_terminal_control ELSE UNCHANGED terminalVars
    /\ Goto("recv")
    /\ UNCHANGED <<schedulerVars, driverVars, queue, wire>>

----------------------------------------------------------------------------
(* drive_qwen_continuous_batch: settle the awaiting lanes, sweep aborted    *)
(* requests, drain the queue, assign lanes, decode a token, publish what    *)
(* finished, and again.  Lists are built in one phase and worked off lane   *)
(* by lane; the reader may change the registry in between.                  *)

\* The lanes or inbox positions in S, least first.
InOrder(S) ==
    CHOOSE q \in [1 .. Cardinality(S) -> S] :
        /\ \A n \in S : \E i \in DOMAIN q : q[i] = n
        /\ \A i, j \in DOMAIN q : i < j => q[i] < q[j]

LaneItem(act, l) ==
    [act |-> act, lane |-> l, key |-> lanes[l].key, admission |-> lanes[l].ticket.admission]

LaneItems(act, S) == [i \in DOMAIN InOrder(S) |-> LaneItem(act, InOrder(S)[i])]

QueuedItem(act, n) ==
    [act |-> act, lane |-> None, key |-> inbox[n], admission |-> pending[inbox[n]].admission]

QueuedItems(act, S) == [i \in DOMAIN InOrder(S) |-> QueuedItem(act, InOrder(S)[i])]

QueuedAborted(n) == batch_check_abort(inbox[n], pending[inbox[n]].admission)
LaneAborted(l) == batch_check_abort(lanes[l].key, lanes[l].ticket.admission)
LaneDecision(l) == batch_poll_decision(lanes[l].key, lanes[l].ticket.admission)

\* Variant: an expired lane is not aborted.
poll_ignores_deadline ==
    /\ At("poll")
    /\ LET to_abort == {l \in Awaiting : LaneAborted(l)}
           to_commit == {l \in Awaiting \ to_abort : LaneDecision(l) = "Commit"}
       IN  work' = LaneItems("cancel", to_abort) \o LaneItems("commit", to_commit)
    /\ Goto("settle")
    /\ UNCHANGED <<batchVars, streamed, batch_poisoned, queue, wire>>

Poll ==
    /\ At("poll")
    /\ LET to_abort == {l \in Awaiting : LaneAborted(l) \/ lanes[l].deadline = "passed"}
           to_commit == {l \in Awaiting \ to_abort : LaneDecision(l) = "Commit"}
       IN  work' = LaneItems("cancel", to_abort) \o LaneItems("commit", to_commit)
    /\ Goto("settle")
    /\ UNCHANGED <<batchVars, streamed, batch_poisoned, queue, wire>>

\* The aborted requests of the inbox, then of the running lanes.
Sweep ==
    /\ At("settle")
    /\ work = <<>>
    /\ main.item = None
    /\ work' = QueuedItems("cancel", {n \in DOMAIN inbox : QueuedAborted(n)})
                 \o LaneItems("cancel", {l \in Running : LaneAborted(l)})
    /\ Goto("sweep")
    /\ UNCHANGED <<batchVars, streamed, batch_poisoned, queue, wire>>

\* The head of the list is taken up; act is what remains to do with it.
Take(act) ==
    /\ main' = [main EXCEPT !.item = [Head(work) EXCEPT !.act = act]]
    /\ work' = Tail(work)

Head_is(act) == main.item = None /\ work # <<>> /\ Head(work).act = act
Item_is(act) == main.item # None /\ main.item.act = act

ItemScope(item) == EnterScope(item.key, item.admission)

\* emit_generation_cancel, then abort_lane or abort_queued.
CancelItem ==
    /\ Head_is("cancel")
    /\ WriteTerminal(Head(work).key, ItemScope(Head(work)), "aborted")
    /\ Take("retire")
    /\ UNCHANGED <<schedulerVars, streamed, batch_poisoned, queue>>

RetireItem ==
    /\ Item_is("retire")
    /\ LET i == main.item
       IN  IF i.lane = None
             THEN abort_queued(i.key, i.admission)
             ELSE abort_lane(i.lane, i.key, i.admission)
    /\ main' = [main EXCEPT !.item = None]
    /\ UNCHANGED <<driverVars, queue, wire>>

\* The lane was reset.  commit_lane decides again: the lane is freed and the
\* staged done follows, or an error and abort_lane.
CommitItem ==
    /\ Head_is("commit")
    /\ LET i == Head(work)
       IN  IF Committable(i.lane, i.key, i.admission)
             THEN /\ commit_lane_retain_terminal(i.lane, i.key, i.admission)
                  /\ Take("done")
                  /\ UNCHANGED wire
             ELSE /\ WriteTerminal(i.key, ItemScope(i), "error")
                  /\ Take("retire")
                  /\ UNCHANGED schedulerVars
    /\ UNCHANGED <<streamed, batch_poisoned, queue>>

DoneItem ==
    /\ Item_is("done")
    /\ WriteTerminal(main.item.key, ItemScope(main.item), "done")
    /\ main' = [main EXCEPT !.item.act = "clear"]
    /\ UNCHANGED <<schedulerVars, driverVars, queue>>

\* BatchTerminalCleanup
ClearItem ==
    /\ Item_is("clear")
    /\ ClearAdmission(main.item.key, main.item.admission)
    /\ main' = [main EXCEPT !.item = None]
    /\ UNCHANGED <<schedulerVars, driverVars, queue, wire>>

SweepDone ==
    /\ At("sweep")
    /\ work = <<>>
    /\ main.item = None
    /\ Goto("drain")
    /\ UNCHANGED <<batchVars, driverVars, queue, wire>>

----------------------------------------------------------------------------
(* drain_qwen_batch_inbox, one message of the queue at a time *)

Draining == At("drain") /\ main.item = None /\ queue # <<>>

Msg == Head(queue)
FreshGenerate == Msg.type = "generate" /\ Msg.transfer = None
MsgAborted == batch_check_abort(Msg.key, Msg.admission)

\* After a barrier the message is at the front of the queue again, and an
\* idle driver returns.
AfterBarrier == IF Occupied = {} /\ inbox = <<>> THEN "leave" ELSE "assign"

DrainBarrier ==
    /\ Draining
    /\ FreshGenerate => ~MsgAborted /\ Msg.key \notin Eligible
    /\ Goto(AfterBarrier)
    /\ UNCHANGED <<batchVars, driverVars, queue, wire>>

\* The requests fail_all answers: of the lanes, then of the inbox.
FailItems == LaneItems("fail", Occupied) \o QueuedItems("fail", DOMAIN inbox)

DrainItem == [act |-> "clear", lane |-> None, key |-> Msg.key, admission |-> Msg.admission]

DrainAborted ==
    /\ Draining
    /\ FreshGenerate
    /\ MsgAborted
    /\ WriteCancelled(Msg.key, EnterScope(Msg.key, Msg.admission))
    /\ main' = [main EXCEPT !.item = DrainItem]
    /\ queue' = Tail(queue)
    /\ UNCHANGED <<schedulerVars, driverVars>>

\* emit_batch_admission_error
DrainRefused ==
    /\ Draining
    /\ FreshGenerate
    /\ ~MsgAborted
    /\ Msg.key \in Eligible
    /\ WriteTerminal(Msg.key, EnterScope(Msg.key, Msg.admission), "error")
    /\ main' = [main EXCEPT !.item = DrainItem]
    /\ queue' = Tail(queue)
    /\ UNCHANGED <<schedulerVars, driverVars>>

\* take_singleton_handoff: a request that never passed the outer activation
\* gets its singleton here, in place of the one of the driving request ...
DrainThink ==
    /\ Draining
    /\ FreshGenerate
    /\ ~MsgAborted
    /\ Msg.key \in Eligible \cap ThinkOpen
    /\ IF ~Owns(Msg.key) /\ handoffs[Msg.key] = None
         THEN activate_terminal_control(Msg.key)
         ELSE UNCHANGED terminalVars
    /\ main' = [main EXCEPT !.item = [DrainItem EXCEPT !.act = "handoff"]]
    /\ UNCHANGED <<schedulerVars, driverVars, queue, wire>>

\* ... and is handed off: the message goes back with its transfer.  Without
\* an admission to hand off the drive fails.
DrainHandoff ==
    /\ Item_is("handoff")
    /\ IF batch_is_current(Msg.key, Msg.admission) /\ handoffs[Msg.key] = None
         THEN /\ batch_handoff_to_singleton_and_clear(Msg.key, Msg.admission)
              /\ queue' = <<Generate(Msg.key, Msg.admission, TransferOf(Msg.key))>> \o Tail(queue)
              /\ main' = [main EXCEPT !.pc = AfterBarrier, !.item = None]
              /\ UNCHANGED work
         ELSE /\ queue' = Tail(queue)
              /\ main' = [main EXCEPT !.pc = "fail", !.item = None]
              /\ work' = FailItems
              /\ UNCHANGED terminalVars
    /\ UNCHANGED <<schedulerVars, streamed, batch_poisoned, wire>>

\* batch_transition_to_queued, its result ignored, then enqueue.
DrainQueue ==
    /\ Draining
    /\ FreshGenerate
    /\ ~MsgAborted
    /\ Msg.key \in Eligible \ ThinkOpen
    /\ IF Queueable(Msg.key, Msg.admission)
         THEN batch_transition_to_queued(Msg.key, Msg.admission)
         ELSE UNCHANGED terminalVars
    /\ main' = [main EXCEPT !.item = [DrainItem EXCEPT !.act = "enqueue"]]
    /\ UNCHANGED <<schedulerVars, driverVars, queue, wire>>

\* A request the scheduler refuses leaves without a word.
DrainEnqueue ==
    /\ Item_is("enqueue")
    /\ IF batch_is_current(Msg.key, Msg.admission) /\ pending[Msg.key] = None
         THEN /\ \E sampling \in Samplings : enqueue(Msg.key, Msg.admission, sampling)
              /\ Write(Msg.key, "start")
         ELSE UNCHANGED <<batchVars, wire>>
    /\ queue' = Tail(queue)
    /\ main' = [main EXCEPT !.item = None]
    /\ UNCHANGED driverVars

DrainEmpty ==
    /\ At("drain")
    /\ main.item = None
    /\ queue = <<>>
    /\ Goto("assign")
    /\ UNCHANGED <<batchVars, driverVars, queue, wire>>

----------------------------------------------------------------------------
(* Lanes: assignment, decoding, and the commit handshake *)

\* try_assign_one, then the prefill of the lane
Assign ==
    /\ At("assign")
    /\ try_assign_one
    /\ streamed' = [streamed EXCEPT ![FirstEmpty] = 0]
    /\ UNCHANGED <<main, work, batch_poisoned, queue, wire>>

\* No lane runs: return when there is nothing left, else sleep and go round.
\* That inbox.backlog must be empty too adds nothing: the drain before took all
\* of it, or put a message back because a lane or the inbox held something
\* (AfterBarrier), and assignment only moves requests from there to the lanes.
AssignDone ==
    /\ At("assign")
    /\ ~Assignable
    /\ Goto(CASE Running # {} -> "decode"
              [] Occupied = {} /\ inbox = <<>> -> "leave"
              [] OTHER -> "poll")
    /\ UNCHANGED <<batchVars, driverVars, queue, wire>>

\* Variant: max_tokens is tested one token late.
decode_one_more ==
    /\ At("decode")
    /\ LET to_abort == {l \in Running : LaneAborted(l)}
           live == Running \ to_abort
           capped == {l \in live : streamed[l] >= MaxTokens}
       IN  /\ streamed' = [l \in Lanes |-> IF l \in live THEN streamed[l] + 1 ELSE streamed[l]]
           /\ \E stopped \in SUBSET (live \ capped) :
                 work' = LaneItems("cancel", to_abort) \o LaneItems("await", capped \cup stopped)
    /\ Goto("publish")
    /\ UNCHANGED <<batchVars, batch_poisoned, queue, wire>>

\* forward_decode_batch: every running lane that was not aborted streams one
\* token; it finishes at max_tokens, or at EOS, a stop or a loop hit.
Decode ==
    /\ At("decode")
    /\ LET to_abort == {l \in Running : LaneAborted(l)}
           live == Running \ to_abort
           capped == {l \in live : streamed[l] + 1 >= MaxTokens}
       IN  /\ streamed' = [l \in Lanes |-> IF l \in live THEN streamed[l] + 1 ELSE streamed[l]]
           /\ \E stopped \in SUBSET (live \ capped) :
                 work' = LaneItems("cancel", to_abort) \o LaneItems("await", capped \cup stopped)
    /\ Goto("publish")
    /\ UNCHANGED <<batchVars, batch_poisoned, queue, wire>>

\* Variant: commit_ready is published before the entry is Ready.
publish_before_ready ==
    /\ Head_is("await")
    /\ IF "commit_ready" \notin Events(Head(work).key)
         THEN Write(Head(work).key, "commit_ready") /\ UNCHANGED <<batchVars, work>>
         ELSE mark_awaiting_commit(Head(work).lane) /\ work' = Tail(work) /\ UNCHANGED wire
    /\ UNCHANGED <<main, streamed, batch_poisoned, queue>>

\* AwaitingClient and Ready are installed before commit_ready is published.
MarkAwaiting ==
    /\ Head_is("await")
    /\ mark_awaiting_commit(Head(work).lane)
    /\ Take("announce")
    /\ UNCHANGED <<streamed, batch_poisoned, queue, wire>>

AnnounceReady ==
    /\ Item_is("announce")
    /\ Write(main.item.key, "commit_ready")
    /\ main' = [main EXCEPT !.item = None]
    /\ UNCHANGED <<batchVars, driverVars, queue>>

PublishDone ==
    /\ At("publish")
    /\ work = <<>>
    /\ main.item = None
    /\ Goto("poll")
    /\ UNCHANGED <<batchVars, driverVars, queue, wire>>

----------------------------------------------------------------------------
(* fail_all: a GPU call of the driver failed *)

\* The places where the driver calls the GPU: resetting a lane it cancels or
\* commits, prefilling a lane it just assigned, the forward pass, sampling.
CallsGpu ==
    /\ main.item = None
    /\ \/ /\ main.pc \in {"settle", "sweep", "publish"}
          /\ work # <<>> /\ Head(work).lane # None /\ Head(work).act # "await"
       \/ At("assign") /\ \E l \in Running : streamed[l] = 0
       \/ At("decode")
       \/ At("publish") /\ work = <<>> /\ Running # {}

DriveFails ==
    /\ GpuFaults # {}
    /\ CallsGpu
    /\ work' = FailItems
    /\ Goto("fail")
    /\ UNCHANGED <<batchVars, streamed, batch_poisoned, queue, wire>>

FailItem ==
    /\ Head_is("fail")
    /\ WriteTerminal(Head(work).key, ItemScope(Head(work)), "error")
    /\ work' = Tail(work)
    /\ UNCHANGED <<schedulerVars, main, streamed, batch_poisoned, queue>>

FailAll ==
    /\ At("fail")
    /\ work = <<>>
    /\ fail_all_active
    /\ \E outcome \in GpuFaults : Goto(IF outcome = "poisoned" THEN "poison" ELSE "leave")
    /\ UNCHANGED <<driverVars, queue, wire>>

\* apply_batch_drive_result for a rollback nobody attested.
Poison ==
    /\ At("poison")
    /\ batch_clear_all_terminals
    /\ batch_poisoned' = TRUE
    /\ Goto("leave")
    /\ UNCHANGED <<schedulerVars, work, streamed, queue, wire>>

----------------------------------------------------------------------------
(* The system *)

ReaderNext ==
    \/ \E k \in Keys : ReadGenerate(k) \/ \E kind \in Controls : ReadControl(kind, k)
    \/ ReadControlBatch
    \/ ReadReset

MainNext ==
    /\ \/ Recv \/ HandleReset \/ RefusePoisoned \/ RetireRefused \/ Activate \/ AdoptHandoff
       \/ RefuseInvalid \/ RouteBatch \/ RouteSequential \/ AdoptOwn \/ RouteHandoff
       \/ AdmitAborted \/ AdmitThink \/ AdoptThink \/ AdmitEnqueue
       \/ GenerateStart \/ SequentialCancel \/ SequentialError \/ SequentialFinish
       \/ PublishReady \/ AwaitDecision \/ SequentialTerminal \/ Leave \/ Left
       \/ Poll \/ Sweep \/ CancelItem \/ RetireItem \/ CommitItem \/ DoneItem \/ ClearItem
       \/ SweepDone \/ DrainBarrier \/ DrainAborted \/ DrainRefused \/ DrainThink
       \/ DrainHandoff \/ DrainQueue \/ DrainEnqueue \/ DrainEmpty
       \/ Assign \/ AssignDone \/ Decode \/ MarkAwaiting \/ AnnounceReady \/ PublishDone
       \/ DriveFails \/ FailItem \/ FailAll \/ Poison
    /\ UNCHANGED readerVars

\* The commit timeouts, which no client is obliged to forestall.
Timeout ==
    \/ AwaitTimeout /\ UNCHANGED readerVars
    \/ \E k \in Keys : DeadlinePasses(k) /\ UNCHANGED <<schedulerVars, threadVars>>
    \/ \E l \in Lanes : LaneDeadlinePasses(l) /\ UNCHANGED threadVars

\* Every line was read and answered; main waits for more.
Rest ==
    /\ At("recv")
    /\ queue = <<>>
    /\ reader = None
    /\ \A k \in Keys : Lines(k) = Controls \cup {"generate"}
    /\ resets = Resets
    /\ UNCHANGED serveVars

ServeNext == ReaderNext \/ MainNext \/ Timeout \/ Rest

ServeSpec == ServeInit /\ [][ServeNext]_serveVars

\* Main and the reader's second call are never blocked for good (no lock is
\* held across a wait), and a deadline is a point in time.
ServeFairness ==
    /\ WF_serveVars(MainNext)
    /\ WF_serveVars(ReadControlBatch)
    /\ WF_serveVars(AwaitTimeout /\ UNCHANGED readerVars)
    /\ \A k \in Keys : WF_serveVars(DeadlinePasses(k) /\ UNCHANGED <<schedulerVars, threadVars>>)
    /\ \A l \in Lanes : WF_serveVars(LaneDeadlinePasses(l) /\ UNCHANGED threadVars)

FairServeSpec == ServeSpec /\ ServeFairness

----------------------------------------------------------------------------
(* Properties *)

\* Where main is: between messages, with a request not yet on the wire, in
\* sequential generation, in the batch driver, or on its way out
Idle == {"recv", "reset"}
Unstarted == {"dispatch", "route", "admit", "adopt", "adopt_think", "generate"}
Sequential == {"sequential", "publish_ready", "await", "done", "cancel"}
Driver == {"poll", "settle", "sweep", "drain", "assign", "decode", "publish", "fail"}
Leaving == {"refused", "leave", "left", "poison"}
Places == Idle \cup Unstarted \cup Sequential \cup Driver \cup Leaving

\* The threads' state is well formed.
ServeTypeOK ==
    /\ TerminalTypeOK
    /\ SchedulerTypeOK
    /\ lines \in [Keys -> Seq(Controls \cup {"generate"})]
    /\ resets \in 0 .. Resets
    /\ reader \in ReaderCalls \cup {None}
    /\ queue \in Seq(Generates \cup {Reset})
    /\ main \in [pc : Places, msg : Generates \cup {Reset, None},
                 scope : Generations \cup {None}, item : OpenItems \cup Adoptions \cup {None}]
    /\ main.pc \notin Idle => main.msg \in Generates
    /\ work \in Seq(ListItems)
    /\ streamed \in [Lanes -> 0 .. MaxTokens]
    /\ batch_poisoned \in BOOLEAN
    /\ wire \in [Keys -> Seq(Terminals \cup {"start", "commit_ready"})]

\* Main has this request in hand: it handles its message, or holds it in the
\* scheduler or as a list item.
InHand(k) ==
    \/ main.pc \notin {"recv", "reset"} /\ Key = k
    \/ main.item # None /\ main.item.key = k
    \/ pending[k] # None
    \/ \E i \in DOMAIN queue : queue[i].type = "generate" /\ queue[i].key = k

Answered(k) == Events(k) \cap Terminals # {}

\* A success done is written only for a client that committed, and never
\* when its abort was read before its commit: commit_lane and the singleton
\* handshake both honour the first decision.
DoneIsCommitted ==
    \A k \in Keys : "done" \in Events(k) =>
        \E i \in DOMAIN lines[k] :
            /\ lines[k][i] = "commit"
            /\ \A j \in 1 .. i - 1 : lines[k][j] = "abort" =>
                  \A n \in 1 .. j - 1 : lines[k][n] # "generate"

\* No request ends without a word: one that was announced and is no longer in
\* main's hands has its terminal on the wire (semantic.rs: "exactly one
\* terminal outcome per attempt").
NoSilentEnd ==
    \A k \in Keys : "generate" \in Lines(k) => InHand(k) \/ Answered(k)

\* The reader has finished the line of this kind, and took it after the
\* generate of its request.
Applied(kind, k) ==
    /\ \E i, j \in DOMAIN lines[k] : i < j /\ lines[k][i] = "generate" /\ lines[k][j] = kind
    /\ (reader = None \/ reader # [kind |-> kind, key |-> k])

\* An abort is never lost, however its two calls fall between the steps of a
\* handoff: until the request is answered, the abort is latched where its
\* owner will look, unless a commit was accepted before.  A reset and the
\* poisoning of the batch route clear the registry under the requests still
\* queued, which is the subject of NoSilentEnd.
AbortIsRecorded ==
    resets = 0 /\ ~batch_poisoned =>
    \A k \in Keys : Applied("abort", k) /\ InHand(k) /\ ~Answered(k) =>
        \/ entries[k] # None /\ entries[k].abort_latched
        \/ handoffs[k] # None /\ handoffs[k].abort_latched
        \/ Owns(k) /\ active.decision # None

\* When main waits for a message it owns nothing: no active singleton, no
\* lane, no queued request, and every entry or tombstone belongs to exactly
\* one message still in the queue, which carries its admission.  A leaked one
\* would drop every later generate of that key as a duplicate.
IdleOwnsNothing ==
    At("recv") =>
        /\ active = None
        /\ Occupied = {} /\ inbox = <<>> /\ pending = [k \in Keys |-> None]
        /\ \A k \in Keys :
              /\ entries[k] # None =>
                    \E i \in DOMAIN queue : queue[i] = Generate(k, entries[k].generation, None)
              /\ handoffs[k] # None =>
                    /\ ~handoffs[k].adopted
                    /\ \E i \in DOMAIN queue :
                          /\ queue[i].type = "generate" /\ queue[i].key = k
                          /\ queue[i].transfer # None
                          /\ queue[i].transfer.admission = handoffs[k].admission

\* A commit sent in answer to commit_ready is never lost: when the reader has
\* finished the line, the request's owner holds a decision, unless the
\* request is already answered.
CommitIsRecorded ==
    [][\A k \in Keys :
         reader # None /\ reader = [kind |-> "commit", key |-> k] /\ reader' = None
           /\ "commit_ready" \in Events(k) /\ ~Answered(k) =>
             \/ entries'[k] # None /\ (entries'[k].commit_latched \/ entries'[k].abort_latched)
             \/ active' # None /\ active'.key = k /\ active'.decision # None
      ]_serveVars

\* What the wire shows of a request.
PhaseOf(events, read) ==
    LET last == events[Len(events)]
    IN  CASE events = <<>> -> IF read THEN "open" ELSE "new"
          [] events # <<>> /\ last = "start" -> "started"
          [] events # <<>> /\ last = "commit_ready" -> "offered"
          [] OTHER -> last

Phase(k) == PhaseOf(wire[k], "generate" \in Lines(k))

Contract == INSTANCE AttemptContract WITH
    Attempts <- Keys,
    phase <- [k \in Keys |-> Phase(k)],
    committed <- {k \in Keys : "commit" \in Lines(k)}

\* The reader, the main loop, the batch driver and the sequential producer
\* together implement the contract: each event they write is a step of it, so
\* that over every route there is at most one start, at most one terminal and
\* nothing after it, commit_ready only after start, done only after both
\* commit_ready and a commit line.
KeepsContract == Contract!Safety

\* ... and every attempt is ended, whether or not the client ever sends a
\* control.
ImplementsContract == Contract!Spec

=============================================================================
