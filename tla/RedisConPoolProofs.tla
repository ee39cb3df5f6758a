--------------------------- MODULE RedisConPoolProofs ---------------------------
(***************************************************************************)
(* Proofs about RedisConPool, for any finite set of threads, any set of    *)
(* contexts and any pool size: type correctness, ownership of contexts,    *)
(* absence of lost wakeups, and the refinement of ConnectionLease.         *)
(***************************************************************************)
EXTENDS RedisConPool, FiniteSetTheorems, TLAPS

-------------------------------------------------------------------------------
(* The queue of the pool is a sequence without repetitions: what a push    *)
(* and a pop do to the set of its elements.                                *)

Elements(s) == {s[i] : i \in 1..Len(s)}
NoRepeats(s) == \A i, j \in 1..Len(s) : s[i] = s[j] => i = j

\* Pushing a new element adds exactly that element to the queue.
LEMMA PushElement ==
    ASSUME NEW S, NEW s \in Seq(S), NEW c \in S, NoRepeats(s), c \notin Elements(s)
    PROVE  /\ Append(s, c) \in Seq(S)
           /\ Elements(Append(s, c)) = Elements(s) \cup {c}
           /\ NoRepeats(Append(s, c))
           /\ Len(Append(s, c)) = Len(s) + 1
<1>1. PICK a : a = Append(s, c)
  OBVIOUS
<1>2. /\ a \in Seq(S) /\ Len(a) = Len(s) + 1 /\ Len(s) \in Nat
      /\ a[Len(s) + 1] = c /\ \A i \in 1..Len(s) : a[i] = s[i]
  BY <1>1
<1>3. Elements(a) = Elements(s) \cup {c} /\ NoRepeats(a)
  BY <1>2 DEF Elements, NoRepeats
<1> QED BY <1>1, <1>2, <1>3

\* Popping removes exactly the head from a queue without repetitions.
LEMMA PopElement ==
    ASSUME NEW S, NEW s \in Seq(S), NoRepeats(s), s # <<>>
    PROVE  /\ Tail(s) \in Seq(S)
           /\ Head(s) \in Elements(s)
           /\ Head(s) \in S
           /\ Elements(Tail(s)) = Elements(s) \ {Head(s)}
           /\ NoRepeats(Tail(s))
           /\ Len(s) \in Nat \ {0}
           /\ Len(Tail(s)) = Len(s) - 1
<1>1. PICK t : t = Tail(s)
  OBVIOUS
<1>2. /\ t \in Seq(S) /\ Len(s) \in Nat \ {0} /\ Len(t) = Len(s) - 1
      /\ Head(s) = s[1] /\ \A i \in 1..Len(t) : t[i] = s[i + 1]
  BY <1>1
<1>3. \A i \in 1..Len(s) : i # 1 => i - 1 \in 1..Len(t) /\ t[i - 1] = s[i]
  BY <1>2
<1>4. Head(s) \in S /\ Head(s) \in Elements(s)
  BY <1>2 DEF Elements
<1>5. Elements(t) = Elements(s) \ {Head(s)}
  BY <1>2, <1>3 DEF Elements, NoRepeats
<1>6. NoRepeats(t)
  BY <1>2 DEF NoRepeats
<1> QED BY <1>1, <1>2, <1>4, <1>5, <1>6
-------------------------------------------------------------------------------
(* The inductive invariant.  TypeOK and Ownership are not inductive alone: *)
(* one must know that only a thread that is using the pool holds a context *)
(* and that the constructor runs before every call.  Ownership is what     *)
(* keeps the queue free of repetitions when a context comes back.          *)

HoldsIffUsing == \A t \in Threads : pc[t] = "using" <=> context[t] # NoCtx

ConstructorFirst == Constructing => ~b_stop_ /\ \A t \in Threads : pc[t] = "idle"

StoppedIsEmpty == b_stop_ => connections_ = <<>>

IInv == TypeOK /\ HoldsIffUsing /\ ConstructorFirst /\ StoppedIsEmpty /\ Ownership

\* The parts of Ownership over the queue, in the vocabulary of the lemmas.
LEMMA QueueVocabulary ==
    ASSUME TypeOK
    PROVE  /\ Pooled = Elements(connections_)
           /\ NoSharing <=> /\ NoRepeats(connections_)
                            /\ \A t, u \in Threads :
                                  (context[t] = context[u] /\ context[t] # NoCtx) => t = u
                            /\ Pooled \cap Held = {}
  BY DEF Pooled, Elements, NoRepeats, NoSharing

LEMMA InitInvariant == Init => IInv
<1> SUFFICES ASSUME Init PROVE IInv
  OBVIOUS
<1> USE DEF Init
<1>1. TypeOK
  <2>1. b_stop_ \in BOOLEAN
    OBVIOUS
  <2>2. tried \in 0..PoolSize /\ heap \in SUBSET Contexts
    BY PoolSizeNat
  <2>3. frees \in [Contexts -> Nat] /\ connections_ \in Seq(Contexts)
    OBVIOUS
  <2>4. /\ pc \in [Threads -> {"idle", "blocked", "woken", "using", "closing"}]
        /\ context \in [Threads -> Contexts \cup {NoCtx}]
    OBVIOUS
  <2> QED BY <2>1, <2>2, <2>3, <2>4 DEF TypeOK
<1>2. HoldsIffUsing /\ ConstructorFirst /\ StoppedIsEmpty
  BY DEF HoldsIffUsing, ConstructorFirst, StoppedIsEmpty
<1>3. Pooled = {} /\ Held = {} /\ Freed = {}
  BY DEF Pooled, Held, Freed
<1>4. Ownership
  BY <1>3 DEF Ownership, NoSharing, NoUseAfterFree, NoLeak
<1> QED BY <1>1, <1>2, <1>4 DEF IInv
-------------------------------------------------------------------------------
(* Preservation, one lemma per group of actions.                           *)

LEMMA ConstructInvariant == IInv /\ Construct => IInv'
<1> SUFFICES ASSUME IInv, Construct PROVE IInv'
  OBVIOUS
<1> USE DEF IInv
<1>1. tried' \in 0..PoolSize /\ (Constructing' => Constructing) /\ Constructing
  BY PoolSizeNat DEF Construct, ConnectFails, ConnectRejected, ConnectSucceeds,
                     Constructing, TypeOK
<1>2. UNCHANGED <<b_stop_, pc, context>> /\ ~b_stop_
  BY <1>1 DEF Construct, ConnectFails, ConnectRejected, ConnectSucceeds, ConstructorFirst
<1>3. HoldsIffUsing' /\ ConstructorFirst' /\ StoppedIsEmpty' /\ Held' = Held
  BY <1>1, <1>2 DEF HoldsIffUsing, ConstructorFirst, StoppedIsEmpty, Held, Constructing
<1>4. CASE ConnectFails
  <2>1. UNCHANGED <<heap, frees, connections_>>
    BY <1>4 DEF ConnectFails
  <2>2. TypeOK'
    BY <1>1, <1>2, <2>1 DEF TypeOK
  <2>3. Ownership'
    BY <1>2, <2>1 DEF Ownership, NoSharing, NoUseAfterFree, NoLeak, Pooled, Held, Freed
  <2> QED BY <1>3, <2>2, <2>3
<1>5. CASE ConnectRejected
  <2>1. PICK c \in Contexts \ heap : /\ heap' = heap \cup {c}
                                     /\ frees' = [frees EXCEPT ![c] = @ + 1]
    BY <1>5 DEF ConnectRejected
  <2>2. UNCHANGED connections_ /\ Pooled' = Pooled
    BY <1>5 DEF ConnectRejected, Pooled
  <2>3. TypeOK'
    BY <1>1, <1>2, <2>1, <2>2 DEF TypeOK
  <2>4. c \notin Pooled \cup Held \cup Freed /\ frees[c] = 0
    BY <2>1 DEF Ownership, NoLeak, TypeOK, Freed
  <2>5. Freed' = Freed \cup {c} /\ \A d \in Contexts : frees'[d] <= 1
    BY <2>1, <2>4 DEF Freed, TypeOK, Ownership, NoUseAfterFree
  <2>6. NoSharing'
    BY <1>2, <1>3, <2>2 DEF Ownership, NoSharing
  <2>7. NoUseAfterFree'
    BY <1>3, <2>2, <2>4, <2>5 DEF Ownership, NoUseAfterFree
  <2>8. NoLeak'
    BY <1>3, <2>1, <2>2, <2>5 DEF Ownership, NoLeak
  <2> QED BY <1>3, <2>3, <2>6, <2>7, <2>8 DEF Ownership
<1>6. CASE ConnectSucceeds
  <2>1. PICK c \in Contexts \ heap : /\ heap' = heap \cup {c}
                                     /\ connections_' = Append(connections_, c)
    BY <1>6 DEF ConnectSucceeds
  <2>2. UNCHANGED frees /\ Freed' = Freed
    BY <1>6 DEF ConnectSucceeds, Freed
  <2>3. c \notin Pooled \cup Held \cup Freed
    BY <2>1 DEF Ownership, NoLeak
  <2>4. /\ connections_' \in Seq(Contexts)
        /\ Elements(connections_') = Elements(connections_) \cup {c}
        /\ NoRepeats(connections_')
    BY <2>1, <2>3, PushElement, QueueVocabulary DEF Ownership, TypeOK
  <2>5. TypeOK'
    BY <1>1, <1>2, <2>1, <2>2, <2>4 DEF TypeOK
  <2>6. Pooled' = Pooled \cup {c}
    BY <2>4, QueueVocabulary DEF Pooled, Elements
  <2>7. NoSharing'
    BY <1>2, <1>3, <2>3, <2>4, <2>6 DEF Ownership, NoSharing, NoRepeats
  <2>8. NoUseAfterFree'
    BY <1>3, <2>2, <2>3, <2>6 DEF Ownership, NoUseAfterFree
  <2>9. NoLeak'
    BY <1>3, <2>1, <2>2, <2>6 DEF Ownership, NoLeak
  <2> QED BY <1>3, <2>5, <2>7, <2>8, <2>9 DEF Ownership
<1> QED BY <1>4, <1>5, <1>6 DEF Construct

\* Steps that only move threads between the states in which they hold nothing.
LEMMA ThreadMovesInvariant ==
    ASSUME IInv, UNCHANGED <<tried, heap, frees, connections_, b_stop_, context>>,
           pc' \in [Threads -> {"idle", "blocked", "woken", "using", "closing"}],
           \A t \in Threads : pc'[t] = "using" <=> pc[t] = "using",
           ~Constructing
    PROVE  IInv'
<1> USE DEF IInv
<1>1. TypeOK'
  BY DEF TypeOK
<1>2. HoldsIffUsing' /\ ConstructorFirst' /\ StoppedIsEmpty'
  BY DEF HoldsIffUsing, ConstructorFirst, StoppedIsEmpty, Constructing
<1>3. Ownership'
  BY DEF Ownership, NoSharing, NoUseAfterFree, NoLeak, Pooled, Held, Freed
<1> QED BY <1>1, <1>2, <1>3

LEMMA GetInvariant ==
    ASSUME IInv, NEW t \in Threads, GetConnection(t)
    PROVE  IInv'
<1> USE DEF IInv
<1> DEFINE c == Head(connections_)
<1>1. /\ UNCHANGED <<tried, heap, frees, b_stop_>>
      /\ ~Constructing /\ connections_ # <<>> /\ ~b_stop_
      /\ context' = [context EXCEPT ![t] = c]
      /\ pc' = [pc EXCEPT ![t] = "using"]
      /\ connections_' = Tail(connections_)
      /\ pc[t] \in {"idle", "woken"}
  BY DEF GetConnection, InGetConnection, PopFront, StoppedIsEmpty
<1>2. /\ c \in Contexts /\ c # NoCtx
      /\ connections_' \in Seq(Contexts)
      /\ c \in Elements(connections_)
      /\ Elements(connections_') = Elements(connections_) \ {c}
      /\ NoRepeats(connections_')
  BY <1>1, PopElement, QueueVocabulary, NoCtxNotContext DEF Ownership, TypeOK
<1>3. context[t] = NoCtx
  BY <1>1 DEF HoldsIffUsing
<1> HIDE DEF c
<1>4. TypeOK'
  BY <1>1, <1>2 DEF TypeOK
<1>5. HoldsIffUsing' /\ ConstructorFirst' /\ StoppedIsEmpty'
  BY <1>1, <1>2 DEF HoldsIffUsing, ConstructorFirst, StoppedIsEmpty, Constructing, TypeOK
<1>6. /\ c \in Pooled /\ Pooled' = Pooled \ {c}
      /\ Freed' = Freed
  BY <1>1, <1>2 DEF Pooled, Elements, Freed
<1>7. c \notin Held /\ Held' = Held \cup {c}
  <2>1. c \notin Held
    BY <1>6 DEF Ownership, NoSharing
  <2>2. context'[t] = c /\ \A u \in Threads \ {t} : context'[u] = context[u]
    BY <1>1 DEF TypeOK
  <2> QED BY <1>2, <1>3, <2>1, <2>2 DEF Held
<1>8. NoSharing'
  <2>1. \A u, v \in Threads :
           (context'[u] = context'[v] /\ context'[u] # NoCtx) => u = v
    BY <1>1, <1>2, <1>7 DEF TypeOK, Ownership, NoSharing, Held
  <2>2. (Pooled \cap Held)' = {}
    BY <1>6, <1>7 DEF Ownership, NoSharing
  <2> QED BY <1>2, <2>1, <2>2 DEF NoSharing, NoRepeats
<1>9. NoUseAfterFree' /\ NoLeak'
  BY <1>1, <1>6, <1>7 DEF Ownership, NoUseAfterFree, NoLeak
<1> QED BY <1>4, <1>5, <1>8, <1>9 DEF Ownership

LEMMA ReturnInvariant ==
    ASSUME IInv, NEW t \in Threads, ReturnConnection(t)
    PROVE  IInv'
<1> USE DEF IInv
<1> DEFINE c == context[t]
<1>1. /\ UNCHANGED <<tried, heap, b_stop_>>
      /\ pc[t] = "using"
      /\ context' = [context EXCEPT ![t] = NoCtx]
      /\ ~Constructing
  BY DEF ReturnConnection, ConstructorFirst
<1>2. c \in Contexts /\ c # NoCtx
  BY <1>1 DEF HoldsIffUsing, TypeOK
<1>3. c \in Held /\ c \notin Pooled /\ c \notin Freed /\ frees[c] = 0
  BY <1>2 DEF Held, Ownership, NoSharing, NoUseAfterFree, Freed, TypeOK
<1>4. context'[t] = NoCtx /\ \A u \in Threads \ {t} : context'[u] = context[u]
  BY <1>1 DEF TypeOK
<1>5. Held' = Held \ {c}
  BY <1>2, <1>4 DEF Held, Ownership, NoSharing
<1>6. \A u, v \in Threads :
         (context'[u] = context'[v] /\ context'[u] # NoCtx) => u = v
  BY <1>4 DEF Ownership, NoSharing
<1>7. context' \in [Threads -> Contexts \cup {NoCtx}]
  BY <1>1 DEF TypeOK
<1>8. CASE ReturnWhenStopped(t)
  <2>1. /\ b_stop_ /\ UNCHANGED connections_
        /\ frees' = [frees EXCEPT ![c] = @ + 1]
        /\ pc' = [pc EXCEPT ![t] = "idle"]
    BY <1>8 DEF ReturnWhenStopped
  <2>2. TypeOK'
    BY <1>1, <1>2, <1>7, <2>1 DEF TypeOK
  <2>3. HoldsIffUsing' /\ ConstructorFirst' /\ StoppedIsEmpty'
    BY <1>1, <1>4, <2>1 DEF HoldsIffUsing, ConstructorFirst, StoppedIsEmpty,
                            Constructing, TypeOK
  <2>4. Pooled' = Pooled /\ Freed' = Freed \cup {c} /\ \A d \in Contexts : frees'[d] <= 1
    BY <1>2, <1>3, <2>1 DEF Pooled, Freed, TypeOK, Ownership, NoUseAfterFree
  <2>5. NoSharing'
    BY <1>5, <1>6, <2>1, <2>4 DEF Ownership, NoSharing
  <2>6. NoUseAfterFree' /\ NoLeak'
    BY <1>1, <1>3, <1>5, <2>4 DEF Ownership, NoUseAfterFree, NoLeak
  <2> QED BY <2>2, <2>3, <2>5, <2>6 DEF Ownership
<1>9. CASE ReturnWhenOpen(t)
  <2>1. /\ ~b_stop_ /\ UNCHANGED frees
        /\ connections_' = Append(connections_, c)
    BY <1>9 DEF ReturnWhenOpen
  <2>2. /\ pc' \in [Threads -> {"idle", "blocked", "woken", "using", "closing"}]
        /\ pc'[t] = "idle"
        /\ \A u \in Threads \ {t} : pc'[u] = "using" <=> pc[u] = "using"
    BY <1>1, <1>9 DEF ReturnWhenOpen, NotifyOne, Blocked, TypeOK
  <2>3. /\ connections_' \in Seq(Contexts)
        /\ Elements(connections_') = Elements(connections_) \cup {c}
        /\ NoRepeats(connections_')
    BY <1>2, <1>3, <2>1, PushElement, QueueVocabulary DEF Ownership, TypeOK
  <2>4. TypeOK'
    BY <1>1, <1>7, <2>1, <2>2, <2>3 DEF TypeOK
  <2>5. HoldsIffUsing' /\ ConstructorFirst' /\ StoppedIsEmpty'
    BY <1>1, <1>4, <2>1, <2>2 DEF HoldsIffUsing, ConstructorFirst, StoppedIsEmpty, Constructing
  <2>6. Pooled' = Pooled \cup {c} /\ Freed' = Freed
    BY <2>1, <2>3 DEF Pooled, Elements, Freed
  <2>7. NoSharing'
    BY <1>3, <1>5, <1>6, <2>3, <2>6 DEF Ownership, NoSharing, NoRepeats
  <2>8. NoUseAfterFree' /\ NoLeak'
    BY <1>1, <1>3, <1>5, <2>1, <2>6 DEF Ownership, NoUseAfterFree, NoLeak
  <2> QED BY <2>4, <2>5, <2>7, <2>8 DEF Ownership
<1> QED BY <1>8, <1>9 DEF ReturnConnection

LEMMA CloseDrainInvariant ==
    ASSUME IInv, NEW t \in Threads, CloseDrain(t)
    PROVE  IInv'
<1> USE DEF IInv
<1>1. /\ UNCHANGED <<tried, heap, context>>
      /\ ~Constructing /\ pc[t] = "idle" /\ b_stop_' = TRUE /\ connections_' = <<>>
      /\ frees' = [c \in Contexts |-> IF c \in Pooled THEN frees[c] + 1 ELSE frees[c]]
      /\ pc' = [pc EXCEPT ![t] = "closing"]
  BY DEF CloseDrain, Drained
<1>2. TypeOK'
  <2>1. frees' \in [Contexts -> Nat]
    BY <1>1 DEF TypeOK
  <2>2. b_stop_' \in BOOLEAN
    BY <1>1
  <2>3. pc' \in [Threads -> {"idle", "blocked", "woken", "using", "closing"}]
    BY <1>1 DEF TypeOK
  <2>4. connections_' \in Seq(Contexts)
    BY <1>1
  <2> QED BY <1>1, <2>1, <2>2, <2>3, <2>4 DEF TypeOK
<1>3. HoldsIffUsing' /\ ConstructorFirst' /\ StoppedIsEmpty'
  BY <1>1 DEF HoldsIffUsing, ConstructorFirst, StoppedIsEmpty, Constructing, TypeOK
<1>4. Pooled' = {} /\ Held' = Held
  BY <1>1 DEF Pooled, Held
<1>5. Pooled \subseteq Contexts /\ \A c \in Pooled : frees[c] = 0
  <2>1. Pooled \subseteq Contexts
    BY DEF Pooled, TypeOK
  <2> QED BY <2>1 DEF Ownership, NoUseAfterFree, Freed, TypeOK
<1>6. Freed' = Freed \cup Pooled /\ \A c \in Contexts : frees'[c] <= 1
  BY <1>1, <1>5 DEF Freed, TypeOK, Ownership, NoUseAfterFree
<1>7. NoSharing'
  BY <1>1, <1>4 DEF Ownership, NoSharing
<1>8. NoUseAfterFree' /\ NoLeak'
  BY <1>1, <1>4, <1>6 DEF Ownership, NoSharing, NoUseAfterFree, NoLeak
<1> QED BY <1>2, <1>3, <1>7, <1>8 DEF Ownership

\* Calls run only after the constructor.
LEMMA CallsAfterConstruction ==
    ASSUME IInv, NEW t \in Threads, Step(t)
    PROVE  ~Constructing
  BY DEF IInv, ConstructorFirst, Step, Wait, GetNothing, GetConnection, InGetConnection,
         SpuriousWakeup, ReturnConnection, CloseDrain, CloseNotify

LEMMA NextInvariant == IInv /\ [Next]_vars => IInv'
<1> SUFFICES ASSUME IInv, [Next]_vars PROVE IInv'
  OBVIOUS
<1>1. CASE Construct
  BY <1>1, ConstructInvariant
<1>2. ASSUME NEW t \in Threads, Step(t) PROVE IInv'
  <2> USE <1>2
  <2>0. ~Constructing
    BY CallsAfterConstruction
  <2>1. CASE Wait(t)
    <3>1. pc' \in [Threads -> {"idle", "blocked", "woken", "using", "closing"}]
      BY <2>1 DEF Wait, IInv, TypeOK
    <3>2. \A u \in Threads : pc'[u] = "using" <=> pc[u] = "using"
      BY <2>1 DEF Wait, InGetConnection, IInv, TypeOK
    <3> QED BY <2>0, <2>1, <3>1, <3>2, ThreadMovesInvariant DEF Wait
  <2>2. CASE GetNothing(t)
    <3>1. pc' \in [Threads -> {"idle", "blocked", "woken", "using", "closing"}]
      BY <2>2 DEF GetNothing, IInv, TypeOK
    <3>2. \A u \in Threads : pc'[u] = "using" <=> pc[u] = "using"
      BY <2>2 DEF GetNothing, InGetConnection, IInv, TypeOK
    <3> QED BY <2>0, <2>2, <3>1, <3>2, ThreadMovesInvariant DEF GetNothing
  <2>3. CASE GetConnection(t)
    BY <2>3, GetInvariant
  <2>4. CASE SpuriousWakeup(t)
    <3>1. pc' \in [Threads -> {"idle", "blocked", "woken", "using", "closing"}]
      BY <2>4 DEF SpuriousWakeup, IInv, TypeOK
    <3>2. \A u \in Threads : pc'[u] = "using" <=> pc[u] = "using"
      BY <2>4 DEF SpuriousWakeup, IInv, TypeOK
    <3> QED BY <2>0, <2>4, <3>1, <3>2, ThreadMovesInvariant DEF SpuriousWakeup
  <2>5. CASE ReturnConnection(t)
    BY <2>5, ReturnInvariant
  <2>6. CASE CloseDrain(t)
    BY <2>6, CloseDrainInvariant
  <2>7. CASE CloseNotify(t)
    <3>1. pc' \in [Threads -> {"idle", "blocked", "woken", "using", "closing"}]
      BY <2>7 DEF CloseNotify, NotifyAll, IInv, TypeOK
    <3>2. \A u \in Threads : pc'[u] = "using" <=> pc[u] = "using"
      BY <2>7 DEF CloseNotify, NotifyAll, IInv, TypeOK
    <3> QED BY <2>0, <2>7, <3>1, <3>2, ThreadMovesInvariant DEF CloseNotify
  <2> QED BY <2>1, <2>2, <2>3, <2>4, <2>5, <2>6, <2>7 DEF Step
<1>3. CASE UNCHANGED vars
  <2>1. TypeOK'
    BY <1>3 DEF vars, IInv, TypeOK
  <2>2. HoldsIffUsing' /\ ConstructorFirst' /\ StoppedIsEmpty'
    BY <1>3 DEF vars, IInv, HoldsIffUsing, ConstructorFirst, StoppedIsEmpty, Constructing
  <2>3. Ownership'
    BY <1>3 DEF vars, IInv, Ownership, NoSharing, NoUseAfterFree, NoLeak,
                Pooled, Held, Freed
  <2> QED BY <2>1, <2>2, <2>3 DEF IInv
<1> QED BY <1>1, <1>2, <1>3 DEF Next

\* The inductive invariant holds in every reachable state.
THEOREM Invariance == Spec => []IInv
  BY InitInvariant, NextInvariant, PTL DEF Spec

\* Type correctness of the pool.
THEOREM TypeCorrect == Spec => []TypeOK
<1>1. IInv => TypeOK
  BY DEF IInv
<1> QED BY <1>1, Invariance, PTL

\* Every context has exactly one owner: the queue, one borrower or the free
\* list, for any number of threads, contexts and connection attempts.
THEOREM OwnershipHolds == Spec => []Ownership
<1>1. IInv => Ownership
  BY DEF IInv
<1> QED BY <1>1, Invariance, PTL
-------------------------------------------------------------------------------
(* No wakeup is lost.  WakeupsSuffice is inductive relative to IInv: a     *)
(* thread blocks only when the queue is empty, a push wakes one thread per *)
(* context, and only Close stops the pool.                                 *)

LEMMA WokenFinite == IsFiniteSet(Woken) /\ Cardinality(Woken) \in Nat
<1>1. Woken \in SUBSET Threads
  BY DEF Woken
<1> QED BY <1>1, ThreadsFinite, FS_Subset, FS_CardinalityType

LEMMA WokenFiniteNext == IsFiniteSet(Woken') /\ Cardinality(Woken') \in Nat
<1>1. Woken' \in SUBSET Threads
  BY DEF Woken
<1> QED BY <1>1, ThreadsFinite, FS_Subset, FS_CardinalityType

\* Whatever empties the queue of an open pool, or of a pool whose closing
\* threads stay, keeps WakeupsSuffice.
LEMMA EmptyQueueSuffices ==
    ASSUME connections_' = <<>>,
           Blocked' # {} => (b_stop_' => \E t \in Threads : pc'[t] = "closing")
    PROVE  WakeupsSuffice'
<1>1. Len(connections_') = 0
  OBVIOUS
<1> QED BY <1>1, WokenFiniteNext DEF WakeupsSuffice

LEMMA WakeupsStep ==
    ASSUME IInv, WakeupsSuffice, NEW t \in Threads, Step(t)
    PROVE  WakeupsSuffice'
<1> USE DEF IInv
<1>0. ~Constructing /\ Len(connections_) \in Nat /\ DOMAIN pc = Threads
  BY CallsAfterConstruction DEF TypeOK
<1>1. CASE Wait(t)
  <2>1. connections_' = <<>> /\ ~b_stop_'
    BY <1>1 DEF Wait
  <2> QED BY <2>1, EmptyQueueSuffices
<1>2. CASE GetNothing(t)
  <2>1. /\ connections_' = <<>> /\ b_stop_' = b_stop_
        /\ pc' = [pc EXCEPT ![t] = "idle"] /\ pc[t] \in {"idle", "woken"}
    BY <1>2 DEF GetNothing, InGetConnection
  <2>2. Blocked' = Blocked /\ \A u \in Threads : pc[u] = "closing" => pc'[u] = "closing"
    BY <1>0, <2>1 DEF Blocked
  <2> QED BY <2>1, <2>2, EmptyQueueSuffices DEF WakeupsSuffice
<1>3. CASE GetConnection(t)
  <2>1. /\ ~b_stop_ /\ ~b_stop_' /\ connections_ # <<>>
        /\ connections_' = Tail(connections_)
        /\ pc' = [pc EXCEPT ![t] = "using"] /\ pc[t] \in {"idle", "woken"}
    BY <1>3 DEF GetConnection, InGetConnection, PopFront, StoppedIsEmpty
  <2>2. Blocked' = Blocked /\ Woken' = Woken \ {t}
    BY <1>0, <2>1 DEF Blocked, Woken
  <2>3. Len(connections_') = Len(connections_) - 1
    BY <2>1 DEF TypeOK
  <2>4. Cardinality(Woken') >= Cardinality(Woken) - 1
    BY <2>2, WokenFinite, FS_RemoveElement
  <2> QED BY <1>0, <2>1, <2>2, <2>3, <2>4, WokenFinite, WokenFiniteNext DEF WakeupsSuffice
<1>4. CASE SpuriousWakeup(t)
  <2>1. /\ UNCHANGED <<connections_, b_stop_>>
        /\ pc' = [pc EXCEPT ![t] = "woken"] /\ pc[t] = "blocked"
    BY <1>4 DEF SpuriousWakeup
  <2>2. /\ Blocked' = Blocked \ {t} /\ Woken' = Woken \cup {t}
        /\ \A u \in Threads : pc[u] = "closing" => pc'[u] = "closing"
    BY <1>0, <2>1 DEF Blocked, Woken
  <2>3. Cardinality(Woken') >= Cardinality(Woken)
    BY <2>2, WokenFinite, FS_AddElement
  <2> QED BY <1>0, <2>1, <2>2, <2>3, WokenFinite, WokenFiniteNext DEF WakeupsSuffice
<1>5. CASE ReturnConnection(t) /\ ReturnWhenStopped(t)
  <2>1. /\ b_stop_ /\ b_stop_' = b_stop_ /\ connections_' = <<>>
        /\ pc' = [pc EXCEPT ![t] = "idle"] /\ pc[t] = "using"
    BY <1>5 DEF ReturnConnection, ReturnWhenStopped, StoppedIsEmpty
  <2>2. Blocked' = Blocked /\ \A u \in Threads : pc[u] = "closing" => pc'[u] = "closing"
    BY <1>0, <2>1 DEF Blocked
  <2> QED BY <2>1, <2>2, EmptyQueueSuffices DEF WakeupsSuffice
<1>6. CASE ReturnConnection(t) /\ ReturnWhenOpen(t)
  <2>1. /\ ~b_stop_' /\ pc[t] = "using" /\ NotifyOne(t)
        /\ connections_' = Append(connections_, context[t])
    BY <1>6 DEF ReturnConnection, ReturnWhenOpen
  <2>2. Len(connections_') = Len(connections_) + 1
    <3>1. context[t] \in Contexts
      BY <2>1 DEF HoldsIffUsing, TypeOK
    <3> QED BY <2>1, <3>1 DEF TypeOK
  <2>3. CASE Blocked = {} /\ pc' = [pc EXCEPT ![t] = "idle"]
    <3>1. Blocked' = {}
      BY <1>0, <2>3 DEF Blocked
    <3> QED BY <3>1 DEF WakeupsSuffice
  <2>4. ASSUME NEW w \in Blocked, pc' = [pc EXCEPT ![t] = "idle", ![w] = "woken"]
        PROVE  WakeupsSuffice'
    <3>1. w \notin Woken /\ t \notin Woken /\ Woken' = Woken \cup {w} /\ Blocked # {}
      BY <1>0, <2>1, <2>4 DEF Blocked, Woken
    <3>2. Cardinality(Woken') = Cardinality(Woken) + 1
      BY <3>1, WokenFinite, FS_AddElement
    <3>3. Len(connections_) <= Cardinality(Woken)
      BY <3>1 DEF WakeupsSuffice
    <3> QED BY <1>0, <2>1, <2>2, <3>2, <3>3, WokenFinite DEF WakeupsSuffice
  <2> QED BY <2>1, <2>3, <2>4 DEF NotifyOne
<1>7. CASE CloseDrain(t)
  <2>1. connections_' = <<>> /\ pc' = [pc EXCEPT ![t] = "closing"]
    BY <1>7 DEF CloseDrain, Drained
  <2>2. pc'[t] = "closing"
    BY <1>0, <2>1
  <2> QED BY <2>1, <2>2, EmptyQueueSuffices
<1>8. CASE CloseNotify(t)
  <2>1. \A u \in Threads : pc'[u] # "blocked"
    BY <1>8 DEF CloseNotify, NotifyAll
  <2>2. Blocked' = {}
    BY <2>1 DEF Blocked
  <2> QED BY <2>2 DEF WakeupsSuffice
<1> QED BY <1>1, <1>2, <1>3, <1>4, <1>5, <1>6, <1>7, <1>8 DEF Step, ReturnConnection

\* No wakeup is ever lost, for any finite set of threads.
THEOREM WakeupsHold == Spec => []WakeupsSuffice
<1>1. Init => WakeupsSuffice
  BY DEF Init, WakeupsSuffice, Blocked
<1>2. IInv /\ WakeupsSuffice /\ [Next]_vars => WakeupsSuffice'
  <2> SUFFICES ASSUME IInv, WakeupsSuffice, [Next]_vars PROVE WakeupsSuffice'
    OBVIOUS
  <2>1. CASE Construct
    <3>1. \A t \in Threads : pc'[t] = "idle"
      BY <2>1 DEF Construct, ConnectFails, ConnectRejected, ConnectSucceeds,
                  IInv, ConstructorFirst
    <3> QED BY <3>1 DEF WakeupsSuffice, Blocked
  <2>2. ASSUME NEW t \in Threads, Step(t) PROVE WakeupsSuffice'
    BY <2>2, WakeupsStep
  <2>3. CASE UNCHANGED vars
    BY <2>3 DEF vars, WakeupsSuffice, Blocked, Woken
  <2> QED BY <2>1, <2>2, <2>3 DEF Next
<1> QED BY <1>1, <1>2, Invariance, PTL DEF Spec

\* The pool can stall, with every thread blocked, only when the constructor
\* left no usable connection.
THEOREM StallsOnlyWhenNothingOpened == Spec => []NoStall
<1>1. IInv /\ WakeupsSuffice => NoStall
  <2> SUFFICES ASSUME IInv, WakeupsSuffice, Threads # {}, Blocked = Threads
               PROVE  heap = Freed
    BY DEF NoStall
  <2>1. Woken = {} /\ Held = {}
    BY DEF Blocked, Woken, Held, IInv, HoldsIffUsing
  <2>2. Len(connections_) = 0
    <3>1. Len(connections_) <= Cardinality(Woken) /\ Len(connections_) \in Nat
      BY DEF WakeupsSuffice, IInv, TypeOK
    <3> QED BY <2>1, <3>1, FS_EmptySet
  <2>3. Pooled = {}
    BY <2>2 DEF Pooled
  <2> QED BY <2>1, <2>3 DEF IInv, Ownership, NoLeak
<1> QED BY <1>1, Invariance, WakeupsHold, PTL
-------------------------------------------------------------------------------
(* The pool implements the abstract lease: every step of the pool is, under *)
(* the mapping of INSTANCE Lease, one step of ConnectionLease or none.      *)

LEMMA LeaseInitImplemented == Init => Lease!LeaseInit
<1> SUFFICES ASSUME Init PROVE Lease!LeaseInit
  OBVIOUS
<1>1. Pooled = {} /\ Freed = {} /\ b_stop_ = FALSE
  BY DEF Init, Pooled, Freed
<1> QED BY <1>1 DEF Init, Lease!LeaseInit

LEMMA LeaseStep ==
    ASSUME IInv, [Next]_vars
    PROVE  [Lease!LeaseNext]_(Lease!leaseVars)
<1> USE DEF IInv
<1>0. /\ Lease!Leased = Held
      /\ Lease!Unopened = Contexts \ heap
      /\ DOMAIN context = Threads
  BY DEF Lease!Leased, Lease!Unopened, Held, Ownership, NoLeak, TypeOK
<1>1. ASSUME UNCHANGED <<frees, connections_, b_stop_, context>>
      PROVE  UNCHANGED Lease!leaseVars
  BY <1>1 DEF Lease!leaseVars, Pooled, Freed
<1>2. CASE ConnectFails
  BY <1>1, <1>2 DEF ConnectFails
<1>3. CASE ConnectRejected
  <2>1. PICK c \in Contexts \ heap : frees' = [frees EXCEPT ![c] = @ + 1]
    BY <1>3 DEF ConnectRejected
  <2>2. UNCHANGED <<connections_, b_stop_, context>>
    BY <1>3 DEF ConnectRejected
  <2>3. Freed' = Freed \cup {c} /\ Pooled' = Pooled
    BY <2>1, <2>2 DEF Freed, Pooled, TypeOK
  <2>4. Lease!Discard(c)
    BY <1>0, <2>1, <2>2, <2>3 DEF Lease!Discard
  <2> QED BY <2>1, <2>4 DEF Lease!LeaseNext
<1>4. CASE ConnectSucceeds
  <2>1. PICK c \in Contexts \ heap : connections_' = Append(connections_, c)
    BY <1>4 DEF ConnectSucceeds
  <2>2. UNCHANGED <<frees, b_stop_, context>> /\ ~b_stop_
    BY <1>4 DEF ConnectSucceeds, ConstructorFirst
  <2>3. c \notin Pooled
    BY <2>1 DEF Ownership, NoLeak
  <2>4. Pooled' = Pooled \cup {c} /\ Freed' = Freed
    BY <2>1, <2>2, <2>3, PushElement, QueueVocabulary
       DEF Ownership, TypeOK, Pooled, Elements, Freed
  <2>5. Lease!Open(c)
    BY <1>0, <2>1, <2>2, <2>4 DEF Lease!Open
  <2> QED BY <2>1, <2>5 DEF Lease!LeaseNext
<1>5. ASSUME NEW t \in Threads, GetConnection(t) PROVE Lease!LeaseNext
  <2> DEFINE c == Head(connections_)
  <2>1. /\ UNCHANGED <<frees, b_stop_>> /\ ~b_stop_ /\ connections_ # <<>>
        /\ context' = [context EXCEPT ![t] = c] /\ connections_' = Tail(connections_)
        /\ context[t] = NoCtx
    BY <1>5 DEF GetConnection, InGetConnection, PopFront, StoppedIsEmpty, HoldsIffUsing
  <2>2. /\ c \in Contexts /\ c \in Elements(connections_)
        /\ Elements(connections_') = Elements(connections_) \ {c}
    BY <2>1, PopElement, QueueVocabulary DEF Ownership, TypeOK
  <2> HIDE DEF c
  <2>3. c \in Pooled /\ Pooled' = Pooled \ {c} /\ Freed' = Freed
    BY <2>1, <2>2 DEF Pooled, Elements, Freed
  <2>4. Lease!Borrow(t, c)
    BY <2>1, <2>3 DEF Lease!Borrow
  <2> QED BY <2>2, <2>4 DEF Lease!LeaseNext
<1>6. ASSUME NEW t \in Threads, ReturnConnection(t) PROVE Lease!LeaseNext
  <2> DEFINE c == context[t]
  <2>1. /\ c \in Contexts /\ c # NoCtx /\ UNCHANGED b_stop_
        /\ context' = [context EXCEPT ![t] = NoCtx]
    BY <1>6 DEF ReturnConnection, HoldsIffUsing, TypeOK
  <2>2. c \notin Pooled \cup Freed
    BY <2>1 DEF Held, Ownership, NoSharing, NoUseAfterFree
  <2>3. CASE ReturnWhenStopped(t)
    <3>1. b_stop_ /\ UNCHANGED connections_ /\ frees' = [frees EXCEPT ![c] = @ + 1]
      BY <2>3 DEF ReturnWhenStopped
    <3>2. Pooled' = Pooled /\ Freed' = Freed \cup {c}
      BY <2>1, <3>1 DEF Pooled, Freed, TypeOK
    <3>3. Lease!GiveBack(t)
      BY <2>1, <2>2, <3>1, <3>2 DEF Lease!GiveBack
    <3> QED BY <3>3 DEF Lease!LeaseNext
  <2>4. CASE ReturnWhenOpen(t)
    <3>1. ~b_stop_ /\ UNCHANGED frees /\ connections_' = Append(connections_, c)
      BY <2>4 DEF ReturnWhenOpen
    <3>2. Pooled' = Pooled \cup {c} /\ Freed' = Freed
      BY <2>1, <2>2, <3>1, PushElement, QueueVocabulary
         DEF Ownership, TypeOK, Pooled, Elements, Freed
    <3>3. Lease!GiveBack(t)
      BY <2>1, <2>2, <3>1, <3>2 DEF Lease!GiveBack
    <3> QED BY <3>3 DEF Lease!LeaseNext
  <2> QED BY <1>6, <2>3, <2>4 DEF ReturnConnection
<1>7. ASSUME NEW t \in Threads, CloseDrain(t) PROVE Lease!LeaseNext
  <2>1. /\ UNCHANGED context /\ b_stop_' = TRUE /\ connections_' = <<>>
        /\ frees' = [c \in Contexts |-> IF c \in Pooled THEN frees[c] + 1 ELSE frees[c]]
    BY <1>7 DEF CloseDrain, Drained
  <2>2. Pooled' = {} /\ Pooled \subseteq Contexts /\ Pooled \cap Freed = {}
    BY <2>1 DEF Pooled, TypeOK, Ownership, NoUseAfterFree
  <2>3. Freed' = Freed \cup Pooled
    BY <2>1, <2>2 DEF Freed, TypeOK
  <2>4. Lease!Shut
    BY <2>1, <2>2, <2>3 DEF Lease!Shut
  <2> QED BY <2>4 DEF Lease!LeaseNext
<1>8. ASSUME NEW t \in Threads,
             Wait(t) \/ GetNothing(t) \/ SpuriousWakeup(t) \/ CloseNotify(t)
      PROVE  UNCHANGED Lease!leaseVars
  BY <1>1, <1>8 DEF Wait, GetNothing, SpuriousWakeup, CloseNotify
<1>9. CASE UNCHANGED vars
  BY <1>1, <1>9 DEF vars
<1> QED BY <1>2, <1>3, <1>4, <1>5, <1>6, <1>7, <1>8, <1>9 DEF Next, Construct, Step

\* RedisConPool implements ConnectionLease, for any finite set of threads,
\* any set of contexts and any pool size.
THEOREM PoolImplementsLease == Spec => ImplementsLease
<1>1. Spec => Lease!LeaseInit /\ [][Lease!LeaseNext]_(Lease!leaseVars)
  BY LeaseInitImplemented, LeaseStep, Invariance, PTL DEF Spec
<1> QED BY <1>1 DEF ImplementsLease, Lease!LeaseSpec
===============================================================================
