------------------------------ MODULE RedisConPool ------------------------------
(***************************************************************************)
(* Sources/headers/RedisConPool.h: the pool of authenticated Redis         *)
(* connections that every RedisMgr command borrows from.  Each method body *)
(* is one critical section of mutex_, so each is one action, except that   *)
(* getConnection gives the mutex up in cond_.wait and that Close notifies  *)
(* after its critical section.  A thread blocked in cond_.wait goes on     *)
(* when it is notified or, as the C++ standard allows, for no reason, and  *)
(* evaluates the predicate again once it has the mutex.                    *)
(***************************************************************************)
EXTENDS Naturals, Sequences, FiniteSets

CONSTANTS
    Threads,    \* the threads that call the pool
    Contexts,   \* the redisContext objects redisConnect may return
    NoCtx,      \* nullptr
    PoolSize    \* poolSize_

ASSUME ThreadsFinite == IsFiniteSet(Threads)
ASSUME NoCtxNotContext == NoCtx \notin Contexts
ASSUME PoolSizeNat == PoolSize \in Nat

VARIABLES
    tried,          \* iterations of the constructor's loop that have run
    heap,           \* the contexts redisConnect has returned so far
    frees,          \* frees[c]: how often redisFree was called on c
    connections_,   \* the queue of idle contexts
    b_stop_,
    pc,             \* pc[t]: where thread t is
    context         \* context[t]: the context thread t got from getConnection

vars == <<tried, heap, frees, connections_, b_stop_, pc, context>>

Pooled == {connections_[i] : i \in 1..Len(connections_)}

Blocked == {t \in Threads : pc[t] = "blocked"}     \* inside cond_.wait
Woken   == {t \in Threads : pc[t] = "woken"}       \* notified, without the mutex

Init ==
    /\ tried = 0
    /\ heap = {}
    /\ frees = [c \in Contexts |-> 0]
    /\ connections_ = <<>>
    /\ b_stop_ = FALSE
    /\ pc = [t \in Threads |-> "idle"]
    /\ context = [t \in Threads |-> NoCtx]

-------------------------------------------------------------------------------
(* The constructor.  No thread can call the pool before it has returned.  *)

Constructing == tried < PoolSize

\* redisConnect returned nullptr: nothing to free, next iteration.
ConnectFails ==
    /\ Constructing
    /\ tried' = tried + 1
    /\ UNCHANGED <<heap, frees, connections_, b_stop_, pc, context>>

\* The context has err set, or AUTH got no reply or an error: free it.
ConnectRejected ==
    /\ Constructing
    /\ \E c \in Contexts \ heap :
          /\ heap' = heap \cup {c}
          /\ frees' = [frees EXCEPT ![c] = @ + 1]
    /\ tried' = tried + 1
    /\ UNCHANGED <<connections_, b_stop_, pc, context>>

ConnectSucceeds ==
    /\ Constructing
    /\ \E c \in Contexts \ heap :
          /\ heap' = heap \cup {c}
          /\ connections_' = Append(connections_, c)
    /\ tried' = tried + 1
    /\ UNCHANGED <<frees, b_stop_, pc, context>>

-------------------------------------------------------------------------------
(* getConnection: the critical section runs when the call starts and again *)
(* each time the thread has been woken.                                    *)

InGetConnection(t) == ~Constructing /\ pc[t] \in {"idle", "woken"}

\* The predicate of cond_.wait is false: give up the mutex and block.
Wait(t) ==
    /\ InGetConnection(t)
    /\ ~b_stop_ /\ connections_ = <<>>
    /\ pc' = [pc EXCEPT ![t] = "blocked"]
    /\ UNCHANGED <<tried, heap, frees, connections_, b_stop_, context>>

\* Stopped and empty: return nullptr, and the caller gives up its command.
GetNothing(t) ==
    /\ InGetConnection(t)
    /\ b_stop_ /\ connections_ = <<>>
    /\ pc' = [pc EXCEPT ![t] = "idle"]
    /\ UNCHANGED <<tried, heap, frees, connections_, b_stop_, context>>

\* Mutated form of PopFront: the pop is forgotten.
FrontWithoutPop == UNCHANGED connections_

\* connections_.front() and connections_.pop().
PopFront == connections_' = Tail(connections_)

GetConnection(t) ==
    /\ InGetConnection(t)
    /\ connections_ # <<>>
    /\ context' = [context EXCEPT ![t] = Head(connections_)]
    /\ PopFront
    /\ pc' = [pc EXCEPT ![t] = "using"]
    /\ UNCHANGED <<tried, heap, frees, b_stop_>>

SpuriousWakeup(t) ==
    /\ pc[t] = "blocked"
    /\ pc' = [pc EXCEPT ![t] = "woken"]
    /\ UNCHANGED <<tried, heap, frees, connections_, b_stop_, context>>

-------------------------------------------------------------------------------
(* returnConnection                                                        *)

\* Mutated form of NotifyOne: only a push onto an empty queue notifies.
NotifyIfWasEmpty(t) ==
    \/ /\ Blocked = {} \/ connections_ # <<>>
       /\ pc' = [pc EXCEPT ![t] = "idle"]
    \/ /\ connections_ = <<>>
       /\ \E w \in Blocked : pc' = [pc EXCEPT ![t] = "idle", ![w] = "woken"]

\* cond_.notify_one() by thread t, which then leaves the pool.
NotifyOne(t) ==
    \/ /\ Blocked = {}
       /\ pc' = [pc EXCEPT ![t] = "idle"]
    \/ \E w \in Blocked : pc' = [pc EXCEPT ![t] = "idle", ![w] = "woken"]

\* Mutated form of ReturnWhenStopped: the earlier version of the code that
\* the comment above returnConnection keeps, which did not free.
ReturnWithoutFree(t) ==
    /\ b_stop_
    /\ pc' = [pc EXCEPT ![t] = "idle"]
    /\ UNCHANGED <<connections_, frees>>

ReturnWhenStopped(t) ==
    /\ b_stop_
    /\ frees' = [frees EXCEPT ![context[t]] = @ + 1]
    /\ pc' = [pc EXCEPT ![t] = "idle"]
    /\ UNCHANGED connections_

\* Mutated form of ReturnWhenOpen: the context may be dropped, as if the
\* path of a failed command forgot it.
ReturnMayDrop(t) ==
    /\ ~b_stop_
    /\ connections_' \in {connections_, Append(connections_, context[t])}
    /\ NotifyOne(t)
    /\ UNCHANGED frees

ReturnWhenOpen(t) ==
    /\ ~b_stop_
    /\ connections_' = Append(connections_, context[t])
    /\ NotifyOne(t)
    /\ UNCHANGED frees

\* Mutated form of ReturnConnection: nullptr is returned as well and the
\* guard against it is gone.
ReturnNullptrToo(t) ==
    /\ ~Constructing
    /\ pc[t] \in {"using", "idle"}
    /\ ReturnWhenStopped(t) \/ ReturnWhenOpen(t)
    /\ context' = [context EXCEPT ![t] = NoCtx]
    /\ UNCHANGED <<tried, heap, b_stop_>>

\* A thread returns what getConnection gave it, once; the nullptr of
\* GetNothing is never returned (and returnConnection would ignore it).
ReturnConnection(t) ==
    /\ pc[t] = "using"
    /\ ReturnWhenStopped(t) \/ ReturnWhenOpen(t)
    /\ context' = [context EXCEPT ![t] = NoCtx]
    /\ UNCHANGED <<tried, heap, b_stop_>>

-------------------------------------------------------------------------------
(* Close, called by the destructor and free to be called by anyone.        *)

\* Mutated form of Drained: the loop frees what it does not pop.
NotDrained == connections_

\* What the loop over connections_ leaves behind.
Drained == <<>>

CloseDrain(t) ==
    /\ ~Constructing
    /\ pc[t] = "idle"
    /\ b_stop_' = TRUE
    /\ connections_' = Drained
    /\ frees' = [c \in Contexts |-> IF c \in Pooled THEN frees[c] + 1 ELSE frees[c]]
    /\ pc' = [pc EXCEPT ![t] = "closing"]
    /\ UNCHANGED <<tried, heap, context>>

\* Mutated form of NotifyAll: Close wakes nobody.
NotifyNobody(t) == pc' = [pc EXCEPT ![t] = "idle"]

\* cond_.notify_all(), outside the critical section.
NotifyAll(t) ==
    pc' = [u \in Threads |-> CASE u = t            -> "idle"
                               [] pc[u] = "blocked" -> "woken"
                               [] OTHER             -> pc[u]]

CloseNotify(t) ==
    /\ pc[t] = "closing"
    /\ NotifyAll(t)
    /\ UNCHANGED <<tried, heap, frees, connections_, b_stop_, context>>

-------------------------------------------------------------------------------
Construct == ConnectFails \/ ConnectRejected \/ ConnectSucceeds

Step(t) ==
    \/ Wait(t)
    \/ GetNothing(t)
    \/ GetConnection(t)
    \/ SpuriousWakeup(t)
    \/ ReturnConnection(t)
    \/ CloseDrain(t)
    \/ CloseNotify(t)

Next == Construct \/ \E t \in Threads : Step(t)

Spec == Init /\ [][Next]_vars

(***************************************************************************)
(* Fairness: a woken thread gets the mutex, a Redis command ends (its      *)
(* reply, or the error hiredis reports, arrives) and Close runs to its     *)
(* end.  Nothing makes a thread call the pool, and no wakeup is promised.  *)
(***************************************************************************)
FairSpec ==
    /\ Spec
    /\ \A t \in Threads :
          /\ WF_vars(pc[t] = "woken" /\ (Wait(t) \/ GetNothing(t) \/ GetConnection(t)))
          /\ WF_vars(ReturnConnection(t))
          /\ WF_vars(CloseNotify(t))
-------------------------------------------------------------------------------
(* Properties                                                              *)

\* Every variable has a value of its C++ type; in particular a queue entry
\* is a context, never nullptr.
TypeOK ==
    /\ tried \in 0..PoolSize
    /\ heap \in SUBSET Contexts
    /\ frees \in [Contexts -> Nat]
    /\ connections_ \in Seq(Contexts)
    /\ b_stop_ \in BOOLEAN
    /\ pc \in [Threads -> {"idle", "blocked", "woken", "using", "closing"}]
    /\ context \in [Threads -> Contexts \cup {NoCtx}]

Held  == {context[t] : t \in Threads} \ {NoCtx}
Freed == {c \in Contexts : frees[c] > 0}

\* A context is nowhere twice: no duplicate in the queue, no two holders.
NoSharing ==
    /\ \A i, j \in 1..Len(connections_) :
          connections_[i] = connections_[j] => i = j
    /\ \A t, u \in Threads :
          (context[t] = context[u] /\ context[t] # NoCtx) => t = u
    /\ Pooled \cap Held = {}

\* No context is freed twice, and none is freed while it can still be used.
NoUseAfterFree ==
    /\ \A c \in Contexts : frees[c] <= 1
    /\ Freed \cap (Pooled \cup Held) = {}

\* No context is lost: each one redisConnect returned is queued, in use or
\* freed.
NoLeak == heap = Pooled \cup Held \cup Freed

\* Every redisContext is owned by exactly one of the queue, a borrowing
\* thread and the free list, whatever the interleaving of getConnection,
\* returnConnection and Close.
Ownership == NoSharing /\ NoUseAfterFree /\ NoLeak

\* No wakeup is lost (cond_.notify_one in returnConnection, notify_all after
\* Close's critical section): while a thread is blocked, each queued context
\* has a woken thread on its way to it, and once the pool is stopped either
\* nobody is blocked or a Close has its notify_all still to do.
WakeupsSuffice ==
    Blocked # {} =>
        /\ Len(connections_) <= Cardinality(Woken)
        /\ b_stop_ => \E t \in Threads : pc[t] = "closing"

\* Everyone waiting on everyone is possible only when the constructor got no
\* usable connection at all.
NoStall ==
    (Threads # {} /\ Blocked = Threads) => heap = Freed

\* The pool implements the abstract lease of connections.
Lease == INSTANCE ConnectionLease WITH
            idle <- Pooled, lease <- context, released <- Freed, open <- ~b_stop_

ImplementsLease == Lease!LeaseSpec

\* Close lets every thread blocked in getConnection go: it returns, with
\* nullptr, and is not blocked again.
CloseReleasesWaiters ==
    \A t \in Threads : (b_stop_ /\ pc[t] = "blocked") ~> [](pc[t] # "blocked")

\* After Close every context ends up freed, those in use when it ran
\* included (the two corrections the comments of the header describe).
ClosedPoolIsFreed == b_stop_ ~> heap = Freed

\* No thread stays blocked beside an idle connection: it is served or the
\* queue has run empty again.
NoWaitBesideIdle ==
    \A t \in Threads :
        (pc[t] = "blocked" /\ connections_ # <<>>)
            ~> (pc[t] # "blocked" \/ connections_ = <<>>)
===============================================================================
