-------------------------------- MODULE StubPool --------------------------------
(***************************************************************************)
(* RPConPool, the pool of gRPC stubs in Sources/headers/VerifyGrpcClient.h.*)
(* It differs from the Redis pool where it matters: b_stop_ is atomic and  *)
(* Close sets it without the mutex, so the flag can change inside another  *)
(* thread's critical section, and each read of it is an action of its own. *)
(***************************************************************************)
EXTENDS Naturals, Sequences, FiniteSets

CONSTANTS
    Threads,    \* the threads that call the pool
    Stubs,      \* what the poolSize_ iterations of the constructor create
    NoStub      \* nullptr

ASSUME ThreadsFinite == IsFiniteSet(Threads)
ASSUME NoStubNotStub == NoStub \notin Stubs

VARIABLES
    created,        \* the stubs the constructor has pushed so far
    connections_,
    b_stop_,
    pc,             \* pc[t]: where thread t is
    context,        \* context[t]: the stub thread t has
    destroyed       \* the destructor has run

vars == <<created, connections_, b_stop_, pc, context, destroyed>>

\* In getConnection: the predicate was false and the mutex is not released
\* yet; the predicate was true; the stub is about to be taken.  In
\* returnConnection: the stub is about to be pushed.
Critical == {"blocking", "checking", "taking", "pushing"}

MutexFree == \A t \in Threads : pc[t] \notin Critical

\* The pool can be called: constructed and not destroyed.
Ready == created = Stubs /\ ~destroyed

Goto(t, place) == pc' = [pc EXCEPT ![t] = place]

Init ==
    /\ created = {}
    /\ connections_ = <<>>
    /\ b_stop_ = FALSE
    /\ pc = [t \in Threads |-> "idle"]
    /\ context = [t \in Threads |-> NoStub]
    /\ destroyed = FALSE

\* An iteration of the constructor: creating a channel does not connect, so
\* it does not fail.
NewStub ==
    /\ \E s \in Stubs \ created :
          created' = created \cup {s} /\ connections_' = Append(connections_, s)
    /\ UNCHANGED <<b_stop_, pc, context, destroyed>>

-------------------------------------------------------------------------------
(* getConnection                                                           *)

\* The call begins, or a woken thread has the mutex again: the predicate.
Evaluate(t) ==
    /\ Ready /\ MutexFree
    /\ pc[t] \in {"idle", "woken"}
    /\ Goto(t, IF b_stop_ \/ connections_ # <<>> THEN "checking" ELSE "blocking")
    /\ UNCHANGED <<created, connections_, b_stop_, context, destroyed>>

\* cond_.wait releases the mutex and blocks, in one step.
Block(t) ==
    /\ pc[t] = "blocking"
    /\ Goto(t, "blocked")
    /\ UNCHANGED <<created, connections_, b_stop_, context, destroyed>>

SpuriousWakeup(t) ==
    /\ pc[t] = "blocked"
    /\ Goto(t, "woken")
    /\ UNCHANGED <<created, connections_, b_stop_, context, destroyed>>

\* b_stop_ is read once more: nullptr, also when there are stubs.
CheckStop(t) ==
    /\ pc[t] = "checking"
    /\ Goto(t, IF b_stop_ THEN "idle" ELSE "taking")
    /\ UNCHANGED <<created, connections_, b_stop_, context, destroyed>>

\* Mutated form of PopFront: the stub that was moved out stays queued.
FrontWithoutPop == UNCHANGED connections_

PopFront == connections_' = Tail(connections_)

Take(t) ==
    /\ pc[t] = "taking"
    /\ context' = [context EXCEPT ![t] = Head(connections_)]
    /\ PopFront
    /\ Goto(t, "using")
    /\ UNCHANGED <<created, b_stop_, destroyed>>

-------------------------------------------------------------------------------
(* returnConnection                                                        *)

\* Mutated form of Returns: the nullptr of a stopped pool is returned too.
ReturnsNullptr(t) == pc[t] \in {"using", "idle"}

\* The parameter is a unique_ptr, moved in by the thread that got the stub.
Returns(t) == pc[t] = "using"

\* The stub of a stopped pool is destroyed with the parameter that holds it.
BeginReturn(t) ==
    /\ Ready /\ MutexFree /\ Returns(t)
    /\ Goto(t, IF b_stop_ THEN "idle" ELSE "pushing")
    /\ context' = IF b_stop_ THEN [context EXCEPT ![t] = NoStub] ELSE context
    /\ UNCHANGED <<created, connections_, b_stop_, destroyed>>

\* Mutated form of NotifyOne: only a push onto an empty queue notifies.
NotifyIfWasEmpty(t) ==
    \/ connections_ # <<>> /\ Goto(t, "idle")
    \/ \E w \in Threads : pc[w] = "blocked" /\ pc' = [pc EXCEPT ![t] = "idle", ![w] = "woken"]
    \/ (\A w \in Threads : pc[w] # "blocked") /\ Goto(t, "idle")

NotifyOne(t) ==
    \/ \E w \in Threads : pc[w] = "blocked" /\ pc' = [pc EXCEPT ![t] = "idle", ![w] = "woken"]
    \/ (\A w \in Threads : pc[w] # "blocked") /\ Goto(t, "idle")

Push(t) ==
    /\ pc[t] = "pushing"
    /\ connections_' = Append(connections_, context[t])
    /\ context' = [context EXCEPT ![t] = NoStub]
    /\ NotifyOne(t)
    /\ UNCHANGED <<created, b_stop_, destroyed>>

-------------------------------------------------------------------------------
(* Close                                                                   *)

\* b_stop_ is set, whoever has the mutex.
BeginClose(t) ==
    /\ Ready /\ pc[t] = "idle"
    /\ b_stop_' = TRUE
    /\ Goto(t, "closing")
    /\ UNCHANGED <<created, connections_, context, destroyed>>

\* Mutated form of NotifyAll: nobody is notified.
NotifyNobody(t) == Goto(t, "idle")

NotifyAll(t) ==
    pc' = [u \in Threads |-> CASE u = t           -> "idle"
                               [] pc[u] = "blocked" -> "woken"
                               [] OTHER             -> pc[u]]

EndClose(t) ==
    /\ pc[t] = "closing"
    /\ NotifyAll(t)
    /\ UNCHANGED <<created, connections_, b_stop_, context, destroyed>>

\* The destructor calls Close and pops what is left; no call is in progress,
\* but a stub may still be used: VerifyGrpcClient destroys stub_ after pool_.
Destroy ==
    /\ Ready
    /\ \A t \in Threads : pc[t] \in {"idle", "using"}
    /\ b_stop_' = TRUE /\ connections_' = <<>> /\ destroyed' = TRUE
    /\ UNCHANGED <<created, pc, context>>

Gone == destroyed /\ UNCHANGED vars

-------------------------------------------------------------------------------
InCall(t) == Block(t) \/ CheckStop(t) \/ Take(t) \/ Push(t) \/ EndClose(t)

Step(t) == Evaluate(t) \/ InCall(t) \/ SpuriousWakeup(t) \/ BeginReturn(t) \/ BeginClose(t)

Next == NewStub \/ Destroy \/ Gone \/ \E t \in Threads : Step(t)

Spec == Init /\ [][Next]_vars

(***************************************************************************)
(* Fairness: a thread that has or waits for the mutex goes on.  No stub    *)
(* need be returned: GetVerifyCode keeps the one it took for good.         *)
(***************************************************************************)
FairSpec ==
    /\ Spec
    /\ \A t \in Threads : WF_vars(InCall(t)) /\ WF_vars(pc[t] = "woken" /\ Evaluate(t))
-------------------------------------------------------------------------------
(* Properties                                                              *)

\* Every variable has a value of its C++ type; no nullptr is ever queued.
TypeOK ==
    /\ created \in SUBSET Stubs
    /\ connections_ \in Seq(Stubs)
    /\ b_stop_ \in BOOLEAN /\ destroyed \in BOOLEAN
    /\ pc \in [Threads -> Critical \cup {"idle", "blocked", "woken", "using", "closing"}]
    /\ context \in [Threads -> Stubs \cup {NoStub}]

\* What the pool has lent: a call has its effect when it reads b_stop_, so a
\* Close that comes between that and the queue does not change its result.
Lent(t) ==
    CASE pc[t] = "taking"  -> Head(connections_)
      [] pc[t] = "pushing" -> NoStub
      [] OTHER             -> context[t]

Idle ==
    {s \in Stubs :
        \/ /\ \E i \in 1..Len(connections_) : connections_[i] = s
           /\ \A t \in Threads : pc[t] = "taking" => s # Head(connections_)
        \/ \E t \in Threads : pc[t] = "pushing" /\ context[t] = s}

Unlent == {s \in created : \A t \in Threads : Lent(t) # s}

\* The pool implements the lease of connections as the Redis pool does,
\* although Close does not take the mutex: no stub has two users, none is
\* lost while the pool is open, and Close withdraws the idle ones.
Lease == INSTANCE ConnectionLease WITH
            Contexts <- Stubs, NoCtx <- NoStub,
            idle <- IF b_stop_ THEN {} ELSE Idle,
            lease <- [t \in Threads |-> Lent(t)],
            released <- IF b_stop_ THEN Unlent ELSE {},
            open <- ~b_stop_

ImplementsLease == Lease!LeaseSpec

\* Close may miss the thread that is between a false predicate and blocking,
\* because it does not take the mutex; it cannot miss a second one.
AtMostOneLeftBehind ==
    (b_stop_ /\ \A t \in Threads : pc[t] # "closing") =>
        \A t, u \in Threads :
            pc[t] \in {"blocking", "blocked"} /\ pc[u] \in {"blocking", "blocked"} => t = u

\* No thread stays blocked beside an idle stub while the pool is open.
NoWaitBesideIdle ==
    \A t \in Threads :
        (pc[t] = "blocked" /\ connections_ # <<>>)
            ~> (pc[t] # "blocked" \/ connections_ = <<>> \/ b_stop_)
===============================================================================
