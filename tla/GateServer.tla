------------------------------- MODULE GateServer -------------------------------
(***************************************************************************)
(* The event loop of the program: main, CServer and HttpConnection.  One   *)
(* io_context runs on one thread, so handlers never overlap; what          *)
(* interleaves is the completion of the asynchronous operations, the       *)
(* passing of time, the clients and the order in which completed           *)
(* operations are dispatched.                                              *)
(*                                                                         *)
(* An HttpConnection lives as long as one of its operations is outstanding *)
(* (each handler captures self), so the record of a connection is its four *)
(* operations, its socket, and how long ago it was constructed.  Requests  *)
(* are reduced to how HandleReq ends with them.                            *)
(***************************************************************************)
EXTENDS Naturals

CONSTANTS
    Conns,      \* the HttpConnection objects that may be alive at once
    Deadline    \* deadline_: 60 seconds, in ticks of the model's clock

ASSUME DeadlinePositive == Deadline \in Nat \ {0}

VARIABLES
    conn,       \* conn[c]: see Connection
    loop,       \* ioc.run(): "running" or "stopped"
    signal      \* SIGINT or SIGTERM: "none", "raised" or "handled"

vars == <<conn, loop, signal>>

\* An operation that is "none" is not outstanding.  "pending" and "armed"
\* wait for an event; the other values wait for their handler to be run, and
\* rd = "handling" is the handler that the loop is blocked in.
Connection ==
    [acc  : {"none", "pending", "ok", "err"},
     rd   : {"none", "pending", "got", "err", "handling"},
     wr   : {"none", "pending", "whole", "cut"},
     tm   : {"none", "armed", "fired", "cancelled"},
     sock : {"none", "open", "shut", "closed"},
     age  : 0..Deadline,        \* ticks since construction
     held : 0..Deadline]        \* ticks since the client connected

Gone == [acc |-> "none", rd |-> "none", wr |-> "none", tm |-> "none",
         sock |-> "none", age |-> 0, held |-> 0]

\* CServer::Start: construct an HttpConnection (whose deadline_ starts to run
\* here) and start accepting into its socket.
Listening == [Gone EXCEPT !.acc = "pending"]

Outstanding(r) == r.acc # "none" \/ r.rd # "none" \/ r.wr # "none" \/ r.tm # "none"

\* With its last handler the object goes, and its socket with it.
Settle(r) == IF Outstanding(r) THEN r ELSE Gone

Alive(c) == Outstanding(conn[c])
Free == {c \in Conns : ~Alive(c)}

\* Single-threaded: a handler can be dispatched when none is running.
Polling == loop = "running" /\ \A c \in Conns : conn[c].rd # "handling"

\* Connection c becomes r; nothing else changes.
Becomes(c, r) ==
    /\ conn' = [conn EXCEPT ![c] = Settle(r)]
    /\ UNCHANGED <<loop, signal>>

Init ==
    /\ \E c \in Conns : conn = [d \in Conns |-> IF d = c THEN Listening ELSE Gone]
    /\ loop = "running"
    /\ signal = "none"

-------------------------------------------------------------------------------
(* Events: the network, the clock and the operating system.                *)

\* A client connects, or accept fails.  The bound of the model: an event
\* comes only while an object is left for the next accept.
AcceptCompletes(c) ==
    /\ loop = "running" /\ Free # {}
    /\ conn[c].acc = "pending"
    /\ \/ Becomes(c, [conn[c] EXCEPT !.acc = "ok", !.sock = "open"])
       \/ Becomes(c, [conn[c] EXCEPT !.acc = "err"])

\* A whole request has been read, or reading failed.
ReadCompletes(c) ==
    /\ loop = "running"
    /\ conn[c].rd = "pending"
    /\ \E result \in {"got", "err"} : Becomes(c, [conn[c] EXCEPT !.rd = result])

\* The response was written, or the client went away.
WriteCompletes(c) ==
    /\ loop = "running"
    /\ conn[c].wr = "pending"
    /\ \E result \in {"whole", "cut"} : Becomes(c, [conn[c] EXCEPT !.wr = result])

TimerExpires(c) ==
    /\ loop = "running"
    /\ conn[c].tm = "armed" /\ conn[c].age = Deadline
    /\ Becomes(c, [conn[c] EXCEPT !.tm = "fired"])

\* The clock of one connection; ages stop counting at the deadline.
Grow(n) == IF n < Deadline THEN n + 1 ELSE n

Tick ==
    /\ loop = "running"
    /\ \E c \in Conns : Alive(c) /\ conn[c].age < Deadline
    /\ conn' = [c \in Conns |->
                  IF ~Alive(c) THEN conn[c]
                  ELSE [conn[c] EXCEPT
                          !.age  = Grow(@),
                          !.held = IF conn[c].acc = "pending" THEN @ ELSE Grow(@)]]
    /\ UNCHANGED <<loop, signal>>

RaiseSignal ==
    /\ loop = "running" /\ signal = "none"
    /\ signal' = "raised"
    /\ UNCHANGED <<conn, loop>>

-------------------------------------------------------------------------------
(* Handlers.                                                               *)

\* The accept handler: start reading, then listen with a new connection.
Accepted(c) ==
    /\ Polling
    /\ conn[c].acc = "ok"
    /\ \E d \in Free :
          conn' = [conn EXCEPT ![c] = [@ EXCEPT !.acc = "none", !.rd = "pending"],
                               ![d] = Listening]
    /\ UNCHANGED <<loop, signal>>

\* Mutated form of AcceptFailed: an accept error ends the listening.
AcceptFailedForGood(c) ==
    /\ Polling
    /\ conn[c].acc \in {"err", "ok"}
    /\ Free # {}
    /\ Becomes(c, Gone)

\* The accept handler on an error, and its catch block when starting the new
\* connection throws: give the connection up and listen again.
AcceptFailed(c) ==
    /\ Polling
    /\ conn[c].acc \in {"err", "ok"}
    /\ \E d \in Free : conn' = [conn EXCEPT ![c] = Gone, ![d] = Listening]
    /\ UNCHANGED <<loop, signal>>

ReadFailed(c) ==
    /\ Polling
    /\ conn[c].rd = "err"
    /\ Becomes(c, [conn[c] EXCEPT !.rd = "none"])

\* Mutated form of CheckDeadline: a deadline already past is not waited for.
ArmIfEarly(r) == IF r.age < Deadline THEN [r EXCEPT !.tm = "armed"] ELSE r

CheckDeadline(r) == [r EXCEPT !.tm = "armed"]

WriteResponse(r) == [r EXCEPT !.wr = "pending"]

\* The end of the read handler: HandleReq has written its response (a result
\* or "url not found"), then the deadline is armed.
Respond(c) == Becomes(c, CheckDeadline(WriteResponse([conn[c] EXCEPT !.rd = "none"])))

\* An exception leaves HandleReq: the catch block of the read handler skips
\* CheckDeadline and nothing is written.
Abandon(c) == Becomes(c, [conn[c] EXCEPT !.rd = "none"])

\* A request answered without leaving the process: any GET, a POST to an
\* unknown url, a body that is not JSON.
HandleReq(c) ==
    /\ Polling
    /\ conn[c].rd = "got"
    /\ Respond(c)

\* Neither GET nor POST: no response, only the deadline.
IgnoreReq(c) ==
    /\ Polling
    /\ conn[c].rd = "got"
    /\ Becomes(c, CheckDeadline([conn[c] EXCEPT !.rd = "none"]))

\* A JSON body whose members have unexpected types makes asString throw.
HandleReqThrows(c) ==
    /\ Polling
    /\ conn[c].rd = "got"
    /\ Abandon(c)

\* /get_verifycode and /user_register call a backend (gRPC, Redis)
\* synchronously: the only thread is in there until the call ends.
CallBackend(c) ==
    /\ Polling
    /\ conn[c].rd = "got"
    /\ Becomes(c, [conn[c] EXCEPT !.rd = "handling"])

BackendReturns(c) ==
    /\ loop = "running"
    /\ conn[c].rd = "handling"
    /\ Respond(c) \/ Abandon(c)

\* Mutated form of Written: the timer is not cancelled.
WrittenWithoutCancel(c) ==
    /\ Polling
    /\ conn[c].wr \in {"whole", "cut"}
    /\ Becomes(c, [conn[c] EXCEPT
                     !.wr   = "none",
                     !.sock = IF @ = "open" THEN "shut" ELSE @])

\* Mutated form of Written: the socket is closed instead of shut.
WrittenAndClosed(c) ==
    /\ Polling
    /\ conn[c].wr \in {"whole", "cut"}
    /\ Becomes(c, [conn[c] EXCEPT
                     !.wr   = "none",
                     !.sock = "closed",
                     !.tm   = IF @ = "armed" THEN "cancelled" ELSE @])

\* Mutated form of Written: the connection is kept to read again, as if the
\* response were keep-alive.
WrittenAndReadAgain(c) ==
    /\ Polling
    /\ conn[c].wr \in {"whole", "cut"}
    /\ Becomes(c, [conn[c] EXCEPT
                     !.wr = "none",
                     !.rd = "pending",
                     !.tm = IF @ = "armed" THEN "cancelled" ELSE @])

\* WriteResponse's handler: shut the sending side of a socket that is still
\* open and cancel the timer, unless its handler is already on its way.
Written(c) ==
    /\ Polling
    /\ conn[c].wr \in {"whole", "cut"}
    /\ Becomes(c, [conn[c] EXCEPT
                     !.wr   = "none",
                     !.sock = IF @ = "open" THEN "shut" ELSE @,
                     !.tm   = IF @ = "armed" THEN "cancelled" ELSE @])

\* Mutated form of DeadlinePassed: the handler is run and closes nothing.
DeadlineIgnored(c) ==
    /\ Polling
    /\ conn[c].tm = "fired"
    /\ Becomes(c, [conn[c] EXCEPT !.tm = "none"])

\* CheckDeadline's handler, the deadline has passed: close the socket, which
\* cancels a write in progress.
DeadlinePassed(c) ==
    /\ Polling
    /\ conn[c].tm = "fired"
    /\ Becomes(c, [conn[c] EXCEPT
                     !.tm   = "none",
                     !.sock = "closed",
                     !.wr   = IF @ = "pending" THEN "cut" ELSE @])

\* CheckDeadline's handler, the wait was cancelled.
DeadlineCancelled(c) ==
    /\ Polling
    /\ conn[c].tm = "cancelled"
    /\ Becomes(c, [conn[c] EXCEPT !.tm = "none"])

\* Mutated form of SignalHandler: signals are handled on a thread of their
\* own, also while a handler runs.
SignalAnyTime ==
    /\ loop = "running" /\ signal = "raised"
    /\ signal' = "handled"
    /\ loop' = "stopped"
    /\ conn' = [c \in Conns |-> Gone]

\* Mutated form of SignalHandler: the handler returns on every call.
SignalIgnored ==
    /\ Polling
    /\ signal = "raised"
    /\ signal' = "handled"
    /\ UNCHANGED <<conn, loop>>

\* The signal handler stops the io_context: run returns, and main destroys
\* the context with every handler it still holds.
SignalHandler ==
    /\ Polling
    /\ signal = "raised"
    /\ signal' = "handled"
    /\ loop' = "stopped"
    /\ conn' = [c \in Conns |-> Gone]

Exited == loop = "stopped" /\ UNCHANGED vars

-------------------------------------------------------------------------------
Event(c) ==
    AcceptCompletes(c) \/ ReadCompletes(c) \/ WriteCompletes(c) \/ TimerExpires(c)

AcceptHandler(c) == Accepted(c) \/ AcceptFailed(c)

ReadHandler(c) ==
    ReadFailed(c) \/ HandleReq(c) \/ IgnoreReq(c) \/ HandleReqThrows(c) \/ CallBackend(c)

TimerHandler(c) == DeadlinePassed(c) \/ DeadlineCancelled(c)

Handler(c) == AcceptHandler(c) \/ ReadHandler(c) \/ Written(c) \/ TimerHandler(c)

Next ==
    \/ \E c \in Conns : Event(c) \/ Handler(c) \/ BackendReturns(c)
    \/ Tick
    \/ RaiseSignal
    \/ SignalHandler
    \/ Exited

Spec == Init /\ [][Next]_vars

(***************************************************************************)
(* Fairness.  The io_context keeps completed operations in a FIFO queue,   *)
(* so a connection with an operation that is ready gets a handler run      *)
(* although others run in between: strong fairness.  Time passes and       *)
(* timers expire.  Clients need not do anything, and a call to a backend   *)
(* need not end: neither redisCommand nor the RPC has a time limit.        *)
(***************************************************************************)
FairSpec ==
    /\ Spec
    /\ WF_vars(Tick)
    /\ SF_vars(SignalHandler)
    /\ \A c \in Conns : WF_vars(TimerExpires(c)) /\ SF_vars(Handler(c))
-------------------------------------------------------------------------------
(* Properties                                                              *)

\* Every record is one an HttpConnection can have.
TypeOK ==
    /\ conn \in [Conns -> Connection]
    /\ loop \in {"running", "stopped"}
    /\ signal \in {"none", "raised", "handled"}

\* CServer always has exactly one async_accept outstanding or waiting for its
\* handler, however connections fail, throw or end: never none (the server
\* would be deaf) and never two on one acceptor.
OneAccept ==
    loop = "running" =>
        \E c \in Conns : \A d \in Conns : conn[d].acc # "none" <=> d = c

\* A response that a client does not take has a deadline on its way: the
\* write cannot outlive the wait on the timer that is there to cancel it.
StalledWriteIsGuarded ==
    \A c \in Conns : conn[c].wr = "pending" => conn[c].tm \in {"armed", "fired"}

\* A connection that is answered, or closed at its deadline, is not kept alive
\* by its timer: CheckDeadline arms the timer after the write has been started
\* and on every path, yet the handler of the write always finds it armed or
\* past, and cancels it.  Run the other way round, each short connection would
\* hold its object and half-closed socket until the deadline.
AnsweredIsReleased ==
    \A c \in Conns : conn[c].sock \in {"shut", "closed"} => conn[c].tm # "armed"

\* The server closes a socket only when its deadline has passed: a response
\* that is out leaves the receiving side of the socket to the client.
ClosedOnlyAtDeadline ==
    \A c \in Conns : conn[c].sock = "closed" => conn[c].age = Deadline

\* Callbacks, timers and sockets implement connections that are accepted one
\* after another, read one request and are answered at most once.
PhaseOf(r) ==
    CASE ~Outstanding(r)     -> "free"
      [] r.acc # "none"      -> "listening"
      [] r.rd # "none"       -> "reading"
      [] r.wr = "pending"    -> "answering"
      [] OTHER               -> "ending"

Short == INSTANCE ShortConnection WITH
            phase <- [c \in Conns |-> PhaseOf(conn[c])], up <- (loop = "running")

ImplementsShortConnection == Short!ShortSpec

\* The loop is blocked for good in a call to Redis or the verify server.
Hangs == [](\E c \in Conns : conn[c].rd = "handling")

\* A connection whose request has been read ends, whatever its client and
\* the other connections do: only a backend call that does not end can keep
\* it, and then its deadline as well, from their handlers.
RequestsEnd == \A c \in Conns : conn[c].rd = "got" ~> (~Alive(c) \/ Hangs)

\* SIGINT and SIGTERM stop the program although other handlers are ready,
\* unless the loop is blocked for good in a backend call.
SignalStops == signal = "raised" ~> (loop = "stopped" \/ Hangs)

\* What "a deadline on connection processing" (HttpConnection.h) says: the
\* deadline does not close a connection that has been processed for less.
DeadlineMeasuresProcessing ==
    \A c \in Conns : conn[c].sock = "closed" => conn[c].held = Deadline
===============================================================================
