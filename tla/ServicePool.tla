------------------------------- MODULE ServicePool -------------------------------
(***************************************************************************)
(* AsioIOServicePool: one io_context per thread, kept running by a work    *)
(* guard, handed out in turn, until Stop.  GetIOService has no lock; as in *)
(* CServer::Start, where its call is commented out, one thread calls it.   *)
(***************************************************************************)
EXTENDS Naturals

CONSTANTS
    Size,       \* of _ioServices
    MaxOps      \* bound of the model: operations bound to one service

ASSUME SizePositive == Size \in Nat \ {0}
ASSUME MaxOpsNat == MaxOps \in Nat

VARIABLES
    threads,    \* threads[i]: "unborn", "in run" or "returned"
    works,      \* works[i]: the guard of service i exists
    stopped,    \* stopped[i]: service i has been stopped
    ops,        \* operations bound to service i, waiting for their event
    _nextIOService,
    stop,       \* how far Stop is: "not called", "stopping", "joining", "over"
    at          \* the iteration of the loop that the constructor or Stop is in

vars == <<threads, works, stopped, ops, _nextIOService, stop, at>>

Services == 0..Size - 1

\* Mutated form of GuardedWork: no guard is created.
NoWork == [i \in Services |-> FALSE]

\* The constructor creates every guard before the first thread.
GuardedWork == [i \in Services |-> TRUE]

Init ==
    /\ threads = [i \in Services |-> "unborn"]
    /\ works = GuardedWork
    /\ stopped = [i \in Services |-> FALSE]
    /\ ops = [i \in Services |-> 0]
    /\ _nextIOService = 0
    /\ stop = "not called" /\ at = 0

Constructing == stop = "not called" /\ at < Size

StartThread ==
    /\ Constructing
    /\ threads' = [threads EXCEPT ![at] = "in run"]
    /\ at' = at + 1
    /\ UNCHANGED <<works, stopped, ops, _nextIOService, stop>>

-------------------------------------------------------------------------------
\* Mutated form of Following: the index is compared before it is incremented.
FollowingLate(i) == IF i = Size THEN 0 ELSE i + 1

Following(i) == IF i + 1 = Size THEN 0 ELSE i + 1

\* The caller binds an operation, a read or an accept, to the service.
GetIOService ==
    /\ ~Constructing /\ stop # "over"
    /\ ops[_nextIOService] < MaxOps
    /\ ops' = [ops EXCEPT ![_nextIOService] = @ + 1]
    /\ _nextIOService' = Following(_nextIOService)
    /\ UNCHANGED <<threads, works, stopped, stop, at>>

\* The event of an operation comes, and its handler runs.
Complete(i) ==
    /\ threads[i] = "in run" /\ ~stopped[i] /\ ops[i] > 0
    /\ ops' = [ops EXCEPT ![i] = @ - 1]
    /\ UNCHANGED <<threads, works, stopped, _nextIOService, stop, at>>

\* run returns: the service was stopped, or has nothing left to do.
RunReturns(i) ==
    /\ threads[i] = "in run"
    /\ stopped[i] \/ (~works[i] /\ ops[i] = 0)
    /\ threads' = [threads EXCEPT ![i] = "returned"]
    /\ UNCHANGED <<works, stopped, ops, _nextIOService, stop, at>>

-------------------------------------------------------------------------------
(* Stop, which the destructor calls.                                       *)

BeginStop ==
    /\ ~Constructing /\ stop = "not called"
    /\ stop' = "stopping" /\ at' = 0
    /\ UNCHANGED <<threads, works, stopped, ops, _nextIOService>>

\* Mutated form of StopContext: work.reset alone, of which the comment in Stop
\* says that it is not enough.
OnlyReset(i) == UNCHANGED stopped

StopContext(i) == stopped' = [stopped EXCEPT ![i] = TRUE]

StopService ==
    /\ stop = "stopping" /\ at < Size
    /\ StopContext(at)
    /\ works' = [works EXCEPT ![at] = FALSE]
    /\ at' = at + 1
    /\ UNCHANGED <<threads, ops, _nextIOService, stop>>

BeginJoin ==
    /\ stop = "stopping" /\ at = Size
    /\ stop' = "joining" /\ at' = 0
    /\ UNCHANGED <<threads, works, stopped, ops, _nextIOService>>

\* Mutated form of Joinable: the threads are detached instead.
Detached(i) == TRUE

\* join returns.
Joinable(i) == threads[i] = "returned"

Join ==
    /\ stop = "joining" /\ at < Size
    /\ Joinable(at)
    /\ at' = at + 1
    /\ UNCHANGED <<threads, works, stopped, ops, _nextIOService, stop>>

EndStop ==
    /\ stop = "joining" /\ at = Size
    /\ stop' = "over"
    /\ UNCHANGED <<threads, works, stopped, ops, _nextIOService, at>>

Destroyed == stop = "over" /\ UNCHANGED vars

-------------------------------------------------------------------------------
Stop == StopService \/ BeginJoin \/ Join \/ EndStop

Next ==
    \/ StartThread \/ GetIOService \/ BeginStop \/ Stop \/ Destroyed
    \/ \E i \in Services : Complete(i) \/ RunReturns(i)

Spec == Init /\ [][Next]_vars

\* Fairness: threads run, and Stop goes on; events of operations are not owed.
FairSpec == Spec /\ WF_vars(Stop) /\ \A i \in Services : WF_vars(RunReturns(i))
-------------------------------------------------------------------------------
(* Properties                                                              *)

\* Every variable has a value of its type; in particular GetIOService never
\* indexes past the end.
TypeOK ==
    /\ threads \in [Services -> {"unborn", "in run", "returned"}]
    /\ works \in [Services -> BOOLEAN] /\ stopped \in [Services -> BOOLEAN]
    /\ ops \in [Services -> 0..MaxOps]
    /\ _nextIOService \in Services
    /\ stop \in {"not called", "stopping", "joining", "over"} /\ at \in 0..Size

\* A service without operations keeps its thread for those to come: no
\* thread leaves run before Stop, and none is still running, or was never
\* joined, when Stop is over and the destructor goes on to free the services.
RunsUntilStopped ==
    /\ \A i \in Services : threads[i] = "returned" => stopped[i]
    /\ stop = "over" => \A i \in Services : threads[i] = "returned"

\* Stop ends although reads or accepts that never complete are bound to the
\* services.
StopEnds == stop = "stopping" ~> stop = "over"
===============================================================================
