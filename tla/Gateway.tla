------------------------------- MODULE Gateway --------------------------------
(***************************************************************************)
(* The connection pool, and the event loop that all ticket sockets and     *)
(* event streams share.  A session takes a connection from the pool at its *)
(* first statement and gives it back when its transaction ends.  What a    *)
(* coroutine does between two awaits is synchronous: if it has to wait for *)
(* a connection, the whole loop waits with it, and so does every send that *)
(* another coroutine has under way.                                        *)
(***************************************************************************)
EXTENDS Naturals, FiniteSets

CONSTANTS
    Workers,   \* REST requests at work at once, on threads of their own
    Sockets,   \* ticket sockets
    Streams,   \* event streams
    Pool       \* pool_size + max_overflow

VARIABLES
    at,       \* where each of them stands
    pinned,   \* who holds a connection
    loop      \* the coroutine that runs, if any

vars == <<at, pinned, loop>>

Coroutines == Sockets \cup Streams
Users == Workers \cup Coroutines

(* "closed": no request.  "opening": the handshake, up to its rollback.    *)
(* "idle": waiting for a frame, for the next poll.  "frame", "poll": its   *)
(* turn on the loop.  "sending": it awaits what it broadcasts, "refusing": *)
(* the close of a socket that was never accepted.  "work": a REST request. *)
Places == {"closed", "opening", "idle", "frame", "poll", "sending", "refusing", "work"}

Free == "free"

TypeOK ==
    /\ at \in [Users -> Places]
    /\ pinned \subseteq Users
    /\ loop \in Coroutines \cup {Free}

Init ==
    /\ at = [u \in Users |-> "closed"]
    /\ pinned = {}
    /\ loop = Free

(* QueuePool: a connection for the session of u, if there is one. *)
Acquire(u) ==
    /\ u \notin pinned /\ Cardinality(pinned) < Pool
    /\ pinned' = pinned \cup {u}
    /\ UNCHANGED <<at, loop>>

Move(u, place) == at' = [at EXCEPT ![u] = place]
Release(u) == pinned' = pinned \ {u}

--------------------------------------------------------------------------------
(* REST requests, on the threadpool *)

Request(w) == at[w] = "closed" /\ Move(w, "work") /\ UNCHANGED <<pinned, loop>>
WorkerAcquire(w) == at[w] = "work" /\ Acquire(w)

(* get_db closes the session, whatever the handler did. *)
Respond(w) ==
    /\ w \in pinned
    /\ Move(w, "closed") /\ Release(w)
    /\ UNCHANGED loop

(* pool_timeout: the request fails. *)
WorkerGiveUp(w) ==
    /\ at[w] = "work" /\ w \notin pinned
    /\ Move(w, "closed")
    /\ UNCHANGED <<pinned, loop>>

--------------------------------------------------------------------------------
(* Coroutines *)

(* ticket_socket up to accept, and stream up to its response: the token's  *)
(* user is loaded, and for a socket its ticket.                            *)
Open(c) ==
    /\ loop = Free /\ at[c] = "closed"
    /\ loop' = c /\ Move(c, "opening")
    /\ UNCHANGED pinned

(* receive_json has a frame; the stream's sleep is over. *)
Turn(c) ==
    /\ loop = Free /\ at[c] = "idle"
    /\ loop' = c /\ Move(c, IF c \in Streams THEN "poll" ELSE "frame")
    /\ UNCHANGED pinned

LoopAcquire(c) == loop = c /\ Acquire(c)

(* pool_timeout on the loop: the error ends the socket or the stream.      *)
GiveUp(c) ==
    /\ loop = c /\ c \notin pinned
    /\ loop' = Free /\ Move(c, "closed")
    /\ UNCHANGED pinned

(* Mutant: the handshake's transaction is left open. *)
AcceptHolding(c) ==
    /\ loop = c /\ c \in pinned /\ at[c] = "opening"
    /\ loop' = Free /\ Move(c, "idle")
    /\ UNCHANGED pinned

(* rollback, accept and join; the stream closes its session and responds.  *)
Accept(c) ==
    /\ loop = c /\ c \in pinned /\ at[c] = "opening"
    /\ loop' = Free /\ Move(c, "idle") /\ Release(c)

(* The peer is refused: no such user, or not their ticket.  A socket       *)
(* awaits its close before its session is closed, a stream only raises.    *)
Refuse(c) ==
    /\ loop = c /\ c \in pinned /\ at[c] = "opening"
    /\ loop' = Free
    /\ IF c \in Streams THEN Move(c, "closed") /\ Release(c)
       ELSE Move(c, "refusing") /\ UNCHANGED pinned

(* _handle, a frame that ends without another await: nothing was unread.   *)
(* A stream's poll rolls back and closes its session.                      *)
Handled(c) ==
    /\ loop = c /\ c \in pinned /\ at[c] \in {"frame", "poll"}
    /\ loop' = Free /\ Move(c, "idle") /\ Release(c)

(* ping and unknown events need no connection.                             *)
Pong(c) ==
    /\ loop = c /\ c \notin pinned /\ at[c] = "frame"
    /\ loop' = Free /\ Move(c, "idle")
    /\ UNCHANGED pinned

(* _handle, the other frames: a typing notice reads the expired user, a    *)
(* message is refreshed after its commit, a receipt reads the ids of the   *)
(* rows it stamped, a refusal has read the ticket.  Each then awaits its   *)
(* sends with that transaction open.                                       *)
Broadcast(c) ==
    /\ loop = c /\ c \in pinned /\ at[c] = "frame"
    /\ loop' = Free /\ Move(c, "sending")
    /\ UNCHANGED pinned

(* The sends are over, one way or another (Hub.broadcast drops the dead),  *)
(* the loop has resumed the handler, and its finally rolls back; a refused *)
(* peer's session is closed with its request.                              *)
Sent(c) ==
    /\ loop = Free /\ at[c] \in {"sending", "refusing"}
    /\ Move(c, IF at[c] = "sending" THEN "idle" ELSE "closed") /\ Release(c)
    /\ UNCHANGED loop

(* WebSocketDisconnect; the stream notices, or has polled enough.          *)
Disconnect(c) ==
    /\ loop = Free /\ at[c] = "idle"
    /\ Move(c, "closed")
    /\ UNCHANGED <<pinned, loop>>

Worker(w) == Request(w) \/ WorkerAcquire(w) \/ Respond(w) \/ WorkerGiveUp(w)
Coroutine(c) ==
    \/ Open(c) \/ Turn(c) \/ LoopAcquire(c) \/ GiveUp(c) \/ Accept(c) \/ Refuse(c)
    \/ Handled(c) \/ Sent(c) \/ Disconnect(c)
    \/ c \in Sockets /\ (Pong(c) \/ Broadcast(c))

Next == (\E w \in Workers : Worker(w)) \/ (\E c \in Coroutines : Coroutine(c))

(* Requests end, a wait for a connection ends by pool_timeout at the       *)
(* latest, the loop leaves a coroutine that need not wait, and it resumes  *)
(* in turn every coroutine whose sends are over.                           *)
Leaves(c) == Accept(c) \/ Refuse(c) \/ Handled(c) \/ (c \in Sockets /\ Broadcast(c))
Fairness ==
    /\ \A w \in Workers : WF_vars(Respond(w)) /\ WF_vars(WorkerGiveUp(w))
    /\ \A c \in Coroutines : WF_vars(GiveUp(c)) /\ WF_vars(Leaves(c)) /\ SF_vars(Sent(c))

Spec == Init /\ [][Next]_vars
FairSpec == Spec /\ Fairness

--------------------------------------------------------------------------------
(* Properties *)

(* Who holds a connection is a request at work, the coroutine whose turn   *)
(* it is on the loop, or a socket whose own sends or refusal are under     *)
(* way.  A socket that waits for a frame and a stream between two polls    *)
(* hold none ("Between polls this endpoint holds NO connection at all"),   *)
(* and no more are out than there are.  ticket_socket says more, that its  *)
(* transaction is ended wherever it "is about to wait on the network":     *)
(* Broadcast and Refuse wait for their peers with a connection.            *)
OnlyTheBusyHold ==
    /\ \A u \in pinned :
          \/ u \in Workers /\ at[u] = "work"
          \/ u = loop
          \/ u \in Sockets /\ at[u] \in {"sending", "refusing"}
    /\ Cardinality(pinned) <= Pool

(* Every connection comes back, even when coroutines that await their      *)
(* sends hold all of them and the loop that should resume them waits for   *)
(* one.                                                                    *)
ComesBack(u) == u \in pinned ~> u \notin pinned
ConnectionsComeBack == \A u \in Users : ComesBack(u)

=============================================================================
