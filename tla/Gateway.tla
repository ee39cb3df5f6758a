-------------------------------- MODULE Gateway --------------------------------
(***************************************************************************)
(* The server as one system: the event loop (GateServer) and the handlers  *)
(* it calls synchronously (LogicSystem): while the calls of a handler go   *)
(* on, clients, timers and Redis do too, and no callback runs.  The names  *)
(* of LogicSystem stand for the handlers, Gate!... for the event loop.     *)
(***************************************************************************)
EXTENDS LogicSystem

CONSTANTS Conns, Deadline       \* see GateServer

ASSUME DeadlinePositive == Deadline \in Nat \ {0}

VARIABLES conn, loop, signal    \* see GateServer

Gate == INSTANCE GateServer

gateVars    == <<conn, loop, signal>>
gatewayVars == <<gateVars, vars>>

GatewayInit == Gate!Init /\ Init

-------------------------------------------------------------------------------
\* Clients, the network, the clock, signals; Redis and its other users.
Outside ==
    \/ /\ (\E c \in Conns : Gate!Event(c)) \/ Gate!Tick \/ Gate!RaiseSignal
       /\ UNCHANGED vars
    \/ Environment /\ UNCHANGED gateVars

\* A callback that does not reach LogicSystem's POST handlers: a GET, an
\* unknown url and an unknown method included.
Callback(c) ==
    /\ \/ Gate!AcceptHandler(c) \/ Gate!ReadFailed(c) \/ Gate!HandleReq(c)
       \/ Gate!IgnoreReq(c) \/ Gate!Written(c) \/ Gate!TimerHandler(c)
    /\ UNCHANGED vars

\* A POST handler gives up on its body: an error response, or an exception
\* that the read handler catches.
RejectPost(c) ==
    /\ RejectBody
    /\ IF answer' = "abandoned" THEN Gate!HandleReqThrows(c) ELSE Gate!HandleReq(c)

\* A POST handler gets as far as its first call.
StartPost(c) == Gate!CallBackend(c) /\ Receive

\* Mutated form of Returns: an exception is not caught in the read handler and
\* leaves ioc.run.
ReturnsUncaught(c) ==
    IF answer' = "abandoned"
      THEN loop' = "stopped" /\ conn' = [d \in Conns |-> Gate!Gone] /\ UNCHANGED signal
      ELSE Gate!Respond(c)

\* The handler that returns to the loop has written a response, or has thrown.
Returns(c) == IF answer' = "abandoned" THEN Gate!Abandon(c) ELSE Gate!Respond(c)

\* Mutated form of InHandler: a handler may run while nobody waits for it, as
\* it would on a thread of its own.
InAnyHandler(c) == loop = "running"

\* The only thread is in the handler of connection c.
InHandler(c) == loop = "running" /\ conn[c].rd = "handling"

\* A call of the handler to a backend ends, and the code up to the next one.
HandlerStep(c) ==
    /\ InHandler(c)
    /\ Handle
    /\ IF Idle' THEN Returns(c) ELSE UNCHANGED gateVars

SignalHandler == Gate!SignalHandler /\ UNCHANGED vars

Exited == Gate!Exited /\ UNCHANGED vars

GatewayNext ==
    \/ Outside
    \/ \E c \in Conns : Callback(c) \/ RejectPost(c) \/ StartPost(c) \/ HandlerStep(c)
    \/ SignalHandler
    \/ Exited

GatewaySpec == GatewayInit /\ [][GatewayNext]_gatewayVars
-------------------------------------------------------------------------------
(* Properties                                                              *)

\* LogicSystem, a singleton without a lock, runs one request at a time: a
\* handler is between two calls exactly while one connection waits for it.
OneHandler ==
    /\ Idle <=> \A c \in Conns : conn[c].rd # "handling"
    /\ \A c, d \in Conns : conn[c].rd = "handling" /\ conn[d].rd = "handling" => c = d

\* The only thread never waits for a Redis connection that it would have to
\* return itself: it finds one idle whenever the pool was built with one.
NeverWaitsForItself ==
    (req.step \in {"get", "exists"} /\ built \in 1..PoolSize) => pool # <<>>

\* What the handlers really do, in each order of their calls, is one of the
\* outcomes the event loop allows for: no handler stops it or is cut short.
ImplementsGateServer == Gate!Spec
===============================================================================
