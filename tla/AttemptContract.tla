--------------------------- MODULE AttemptContract ---------------------------
(***************************************************************************)
(* What a client of the daemon may rely on, whichever route serves its     *)
(* request: an attempt is opened by its generate line, started at most     *)
(* once, offered for commit at most once, and ended exactly once.  It is   *)
(* done only if the client committed what was offered; any other end       *)
(* leaves nothing behind.                                                  *)
(***************************************************************************)
CONSTANT Attempts

VARIABLES
    phase,       \* [Attempts -> where the attempt stands]
    committed    \* attempts whose commit line was read

contract == <<phase, committed>>

Ends == {"done", "aborted", "error"}

Init == phase = [k \in Attempts |-> "new"] /\ committed = {}

Move(k, from, to) ==
    /\ phase[k] \in from
    /\ phase' = [phase EXCEPT ![k] = to]
    /\ UNCHANGED committed

Open(k) == Move(k, {"new"}, "open")
Start(k) == Move(k, {"open"}, "started")
Offer(k) == Move(k, {"started"}, "offered")
Done(k) == k \in committed /\ Move(k, {"offered"}, "done")
Abort(k) == Move(k, {"open", "started", "offered"}, "aborted")
Fail(k) == Move(k, {"open", "started", "offered"}, "error")

\* The client commits whenever it likes; only an offer makes it count.
Commit(k) == k \notin committed /\ committed' = committed \cup {k} /\ UNCHANGED phase

Next == \E k \in Attempts :
    Open(k) \/ Start(k) \/ Offer(k) \/ Done(k) \/ Abort(k) \/ Fail(k) \/ Commit(k)

\* No attempt is left open.
Ended == \A k \in Attempts : phase[k] # "new" ~> phase[k] \in Ends

Safety == Init /\ [][Next]_contract
Spec == Safety /\ Ended
=============================================================================
