----------------------------- MODULE StubPoolProofs -----------------------------
(***************************************************************************)
(* Proofs about StubPool, for any threads and stubs: type correctness, the *)
(* bound on the threads Close misses, that an open pool loses no wakeup,   *)
(* and the refinement of ConnectionLease although Close does not take the  *)
(* mutex.                                                                  *)
(***************************************************************************)
EXTENDS StubPool, FiniteSetTheorems, TLAPS

-------------------------------------------------------------------------------
(* The queue of the pool is a sequence without repetitions: what a push    *)
(* and a pop do to the set of its elements.                                *)

Elements(s) == {s[i] : i \in 1..Len(s)}
NoRepeats(s) == \A i, j \in 1..Len(s) : s[i] = s[j] => i = j

\* Pushing a new element adds exactly that element to the queue.
LEMMA PushElement ==
    ASSUME NEW S, NEW s \in Seq(S), NEW c \in S, NoRepeats(s), c \notin Elements(s)
    PROVE  /\ Append(s, c) \in Seq(S)
           /\ Elements(Append(s, c)) = Elements(s) \cup {c}
           /\ NoRepeats(Append(s, c))
           /\ Len(Append(s, c)) = Len(s) + 1
<1>1. PICK a : a = Append(s, c)
  OBVIOUS
<1>2. /\ a \in Seq(S) /\ Len(a) = Len(s) + 1 /\ Len(s) \in Nat
      /\ a[Len(s) + 1] = c /\ \A i \in 1..Len(s) : a[i] = s[i]
  BY <1>1
<1>3. Elements(a) = Elements(s) \cup {c} /\ NoRepeats(a)
  BY <1>2 DEF Elements, NoRepeats
<1> QED BY <1>1, <1>2, <1>3

\* Popping removes exactly the head from a queue without repetitions.
LEMMA PopElement ==
    ASSUME NEW S, NEW s \in Seq(S), NoRepeats(s), s # <<>>
    PROVE  /\ Tail(s) \in Seq(S)
           /\ Head(s) \in Elements(s)
           /\ Head(s) \in S
           /\ Elements(Tail(s)) = Elements(s) \ {Head(s)}
           /\ NoRepeats(Tail(s))
           /\ Len(s) \in Nat \ {0}
           /\ Len(Tail(s)) = Len(s) - 1
<1>1. PICK t : t = Tail(s)
  OBVIOUS
<1>2. /\ t \in Seq(S) /\ Len(s) \in Nat \ {0} /\ Len(t) = Len(s) - 1
      /\ Head(s) = s[1] /\ \A i \in 1..Len(t) : t[i] = s[i + 1]
  BY <1>1
<1>3. \A i \in 1..Len(s) : i # 1 => i - 1 \in 1..Len(t) /\ t[i - 1] = s[i]
  BY <1>2
<1>4. Head(s) \in S /\ Head(s) \in Elements(s)
  BY <1>2 DEF Elements
<1>5. Elements(t) = Elements(s) \ {Head(s)}
  BY <1>2, <1>3 DEF Elements, NoRepeats
<1>6. NoRepeats(t)
  BY <1>2 DEF NoRepeats
<1> QED BY <1>1, <1>2, <1>4, <1>5, <1>6
-------------------------------------------------------------------------------
\* One thread is in a critical section at a time.
MutexOne ==
    \A t, u \in Threads : pc[t] \in Critical /\ pc[u] \in Critical => t = u

\* The calls begin after the constructor.
ConstructorFirst == created # Stubs => ~b_stop_ /\ \A t \in Threads : pc[t] = "idle"

\* A thread that goes on to the queue finds it nonempty: nobody else takes.
QueueServes ==
    \A t \in Threads :
        (pc[t] = "taking" \/ (pc[t] = "checking" /\ ~b_stop_)) => connections_ # <<>>

HoldsStub == \A t \in Threads : pc[t] \in {"using", "pushing"} <=> context[t] # NoStub

\* Every stub is in one place.
OnePlace ==
    /\ NoRepeats(connections_)
    /\ \A t \in Threads : context[t] \notin Elements(connections_)
    /\ \A t, u \in Threads : context[t] = context[u] /\ context[t] # NoStub => t = u

\* Only created stubs go round.
Known ==
    /\ Elements(connections_) \subseteq created
    /\ \A t \in Threads : context[t] \in created \cup {NoStub}

\* No stub is lost while the pool is open.
Kept ==
    ~b_stop_ =>
        \A s \in created : s \in Elements(connections_) \/ \E t \in Threads : context[t] = s

(***************************************************************************)
(* The inductive invariant.  TypeOK is not inductive alone: that the queue *)
(* is nonempty when a thread takes its head depends on the mutex, and that *)
(* a push adds a new element on the places of all stubs.                   *)
(***************************************************************************)
IInv ==
    /\ TypeOK /\ MutexOne /\ ConstructorFirst /\ QueueServes
    /\ HoldsStub /\ OnePlace /\ Known /\ Kept
-------------------------------------------------------------------------------
LEMMA InitInvariant == Init => IInv
<1> SUFFICES ASSUME Init PROVE IInv
  OBVIOUS
<1> USE DEF Init
<1>1. TypeOK
  <2>1. created \in SUBSET Stubs /\ b_stop_ \in BOOLEAN /\ destroyed \in BOOLEAN
    OBVIOUS
  <2>2. connections_ \in Seq(Stubs)
    OBVIOUS
  <2>3. /\ pc \in [Threads -> Critical \cup {"idle", "blocked", "woken", "using", "closing"}]
        /\ context \in [Threads -> Stubs \cup {NoStub}]
    OBVIOUS
  <2> QED BY <2>1, <2>2, <2>3 DEF TypeOK
<1>4. MutexOne /\ ConstructorFirst /\ QueueServes /\ HoldsStub
  BY DEF MutexOne, ConstructorFirst, QueueServes, HoldsStub, Critical
<1>2. Elements(connections_) = {} /\ NoRepeats(connections_)
  BY DEF Elements, NoRepeats
<1>3. OnePlace /\ Known /\ Kept
  BY <1>2 DEF OnePlace, Known, Kept
<1> QED BY <1>1, <1>3, <1>4 DEF IInv

LEMMA NewStubInvariant == IInv /\ NewStub => IInv'
<1> SUFFICES ASSUME IInv, NewStub PROVE IInv'
  OBVIOUS
<1> USE DEF IInv
<1>1. PICK s \in Stubs \ created :
         created' = created \cup {s} /\ connections_' = Append(connections_, s)
  BY DEF NewStub
<1>2. UNCHANGED <<b_stop_, pc, context, destroyed>>
  BY DEF NewStub
<1>3. /\ connections_ \in Seq(Stubs) /\ NoRepeats(connections_)
      /\ s \notin Elements(connections_)
  BY <1>1 DEF TypeOK, OnePlace, Known
<1>4. /\ connections_' \in Seq(Stubs) /\ NoRepeats(connections_')
      /\ Elements(connections_') = Elements(connections_) \cup {s}
  BY <1>1, <1>3, PushElement
<1>5. ~b_stop_ /\ \A t \in Threads : pc[t] = "idle"
  BY <1>1 DEF ConstructorFirst
<1>6. TypeOK' /\ MutexOne' /\ ConstructorFirst' /\ QueueServes'
  BY <1>1, <1>2, <1>4, <1>5
     DEF TypeOK, MutexOne, ConstructorFirst, QueueServes, Critical
<1>7. HoldsStub' /\ OnePlace' /\ Known' /\ Kept'
  BY <1>1, <1>2, <1>4, <1>5, NoStubNotStub DEF HoldsStub, OnePlace, Known, Kept
<1> QED BY <1>6, <1>7

\* Steps that move threads and move no stub.
LEMMA ThreadMovesInvariant ==
    ASSUME IInv, UNCHANGED <<created, connections_, context, destroyed>>,
           created = Stubs, b_stop_' \in BOOLEAN, b_stop_ => b_stop_',
           pc' \in [Threads -> Critical \cup {"idle", "blocked", "woken", "using", "closing"}],
           \A t \in Threads : pc'[t] \in {"using", "pushing"} <=> pc[t] \in {"using", "pushing"},
           MutexOne', QueueServes'
    PROVE  IInv'
BY DEF IInv, TypeOK, ConstructorFirst, HoldsStub, OnePlace, Known, Kept

LEMMA EvaluateInvariant ==
    ASSUME IInv, NEW t \in Threads, Evaluate(t)
    PROVE  IInv'
<1> USE DEF IInv
<1>1. /\ UNCHANGED <<created, connections_, b_stop_, context, destroyed>>
      /\ created = Stubs /\ pc[t] \in {"idle", "woken"}
      /\ pc' = [pc EXCEPT ![t] = IF b_stop_ \/ connections_ # <<>> THEN "checking"
                                                                    ELSE "blocking"]
      /\ \A u \in Threads : pc[u] \notin Critical
  BY DEF Evaluate, Ready, MutexFree, Goto
<1>2. /\ pc' \in [Threads -> Critical \cup {"idle", "blocked", "woken", "using", "closing"}]
      /\ \A u \in Threads \ {t} : pc'[u] = pc[u]
      /\ pc'[t] = IF b_stop_ \/ connections_ # <<>> THEN "checking" ELSE "blocking"
  BY <1>1 DEF TypeOK, Critical
<1>3. MutexOne' /\ QueueServes'
  BY <1>1, <1>2 DEF MutexOne, QueueServes, Critical
<1>4. /\ b_stop_' \in BOOLEAN
      /\ \A u \in Threads : pc'[u] \in {"using", "pushing"} <=> pc[u] \in {"using", "pushing"}
  BY <1>1, <1>2 DEF TypeOK
<1> QED BY <1>1, <1>2, <1>3, <1>4, ThreadMovesInvariant

\* Block, SpuriousWakeup and CheckStop: one thread moves.
LEMMA MoveInvariant ==
    ASSUME IInv, NEW t \in Threads, Block(t) \/ SpuriousWakeup(t) \/ CheckStop(t)
    PROVE  IInv'
<1> USE DEF IInv
<1>1. /\ UNCHANGED <<created, connections_, b_stop_, context, destroyed>>
      /\ \/ pc[t] = "blocking" /\ pc' = [pc EXCEPT ![t] = "blocked"]
         \/ pc[t] = "blocked" /\ pc' = [pc EXCEPT ![t] = "woken"]
         \/ pc[t] = "checking" /\ b_stop_ /\ pc' = [pc EXCEPT ![t] = "idle"]
         \/ pc[t] = "checking" /\ ~b_stop_ /\ pc' = [pc EXCEPT ![t] = "taking"]
  BY DEF Block, SpuriousWakeup, CheckStop, Goto
<1>2. created = Stubs
  BY <1>1 DEF ConstructorFirst
<1>3. /\ pc' \in [Threads -> Critical \cup {"idle", "blocked", "woken", "using", "closing"}]
      /\ \A u \in Threads \ {t} : pc'[u] = pc[u]
      /\ pc'[t] \in {"blocked", "woken", "idle", "taking"}
      /\ pc'[t] = "taking" => pc[t] = "checking" /\ ~b_stop_
  BY <1>1 DEF TypeOK, Critical
<1>4. MutexOne' /\ QueueServes'
  BY <1>1, <1>3 DEF MutexOne, QueueServes, Critical
<1>5. /\ b_stop_' \in BOOLEAN
      /\ \A u \in Threads : pc'[u] \in {"using", "pushing"} <=> pc[u] \in {"using", "pushing"}
  BY <1>1, <1>3 DEF TypeOK
<1> QED BY <1>1, <1>2, <1>3, <1>4, <1>5, ThreadMovesInvariant

LEMMA TakeInvariant ==
    ASSUME IInv, NEW t \in Threads, Take(t)
    PROVE  IInv'
<1> USE DEF IInv
<1> DEFINE c == Head(connections_)
<1>1. /\ UNCHANGED <<created, b_stop_, destroyed>>
      /\ pc[t] = "taking" /\ pc' = [pc EXCEPT ![t] = "using"]
      /\ context' = [context EXCEPT ![t] = c]
      /\ connections_' = Tail(connections_)
  BY DEF Take, PopFront, Goto
<1>2. connections_ # <<>> /\ context[t] = NoStub /\ created = Stubs
  BY <1>1 DEF QueueServes, HoldsStub, ConstructorFirst
<1>3. /\ c \in Stubs /\ c # NoStub
      /\ c \in Elements(connections_)
      /\ connections_' \in Seq(Stubs) /\ NoRepeats(connections_')
      /\ Elements(connections_') = Elements(connections_) \ {c}
  BY <1>1, <1>2, PopElement, NoStubNotStub DEF TypeOK, OnePlace
<1> HIDE DEF c
<1>4. /\ context'[t] = c /\ \A u \in Threads \ {t} : context'[u] = context[u]
      /\ pc'[t] = "using" /\ \A u \in Threads \ {t} : pc'[u] = pc[u]
  BY <1>1 DEF TypeOK
<1>5. TypeOK'
  BY <1>1, <1>3 DEF TypeOK
<1>6. MutexOne' /\ ConstructorFirst' /\ QueueServes'
  BY <1>1, <1>2, <1>4 DEF MutexOne, ConstructorFirst, QueueServes, Critical
<1>7. HoldsStub' /\ OnePlace' /\ Known'
  BY <1>1, <1>3, <1>4 DEF HoldsStub, OnePlace, Known
<1>8. Kept'
  BY <1>1, <1>2, <1>3, <1>4, NoStubNotStub DEF Kept, TypeOK
<1> QED BY <1>5, <1>6, <1>7, <1>8

LEMMA BeginReturnInvariant ==
    ASSUME IInv, NEW t \in Threads, BeginReturn(t)
    PROVE  IInv'
<1> USE DEF IInv
<1>1. /\ UNCHANGED <<created, connections_, b_stop_, destroyed>>
      /\ created = Stubs /\ pc[t] = "using"
      /\ \A u \in Threads : pc[u] \notin Critical
      /\ pc' = [pc EXCEPT ![t] = IF b_stop_ THEN "idle" ELSE "pushing"]
      /\ context' = IF b_stop_ THEN [context EXCEPT ![t] = NoStub] ELSE context
  BY DEF BeginReturn, Ready, MutexFree, Returns, Goto
<1>2. /\ pc'[t] = (IF b_stop_ THEN "idle" ELSE "pushing")
      /\ \A u \in Threads \ {t} : pc'[u] = pc[u] /\ context'[u] = context[u]
      /\ context'[t] = IF b_stop_ THEN NoStub ELSE context[t]
  BY <1>1 DEF TypeOK
<1>3. TypeOK'
  <2>1. pc' \in [Threads -> Critical \cup {"idle", "blocked", "woken", "using", "closing"}]
    BY <1>1 DEF TypeOK, Critical
  <2>2. context' \in [Threads -> Stubs \cup {NoStub}]
    BY <1>1 DEF TypeOK
  <2> QED BY <1>1, <2>1, <2>2 DEF TypeOK
<1>4. MutexOne' /\ ConstructorFirst' /\ QueueServes'
  BY <1>1, <1>2 DEF MutexOne, ConstructorFirst, QueueServes, Critical
<1>5. NoStub \notin Elements(connections_)
  BY NoStubNotStub DEF Known, TypeOK
<1>6. HoldsStub' /\ OnePlace' /\ Known' /\ Kept'
  BY <1>1, <1>2, <1>5 DEF HoldsStub, OnePlace, Known, Kept
<1> QED BY <1>3, <1>4, <1>6

LEMMA PushInvariant ==
    ASSUME IInv, NEW t \in Threads, Push(t)
    PROVE  IInv'
<1> USE DEF IInv
<1> DEFINE c == context[t]
<1>1. /\ UNCHANGED <<created, b_stop_, destroyed>> /\ pc[t] = "pushing"
      /\ connections_' = Append(connections_, c)
      /\ context' = [context EXCEPT ![t] = NoStub]
      /\ NotifyOne(t)
  BY DEF Push
<1>2. /\ c \in Stubs /\ c \notin Elements(connections_) /\ created = Stubs
      /\ connections_ \in Seq(Stubs) /\ NoRepeats(connections_)
  BY <1>1 DEF TypeOK, HoldsStub, OnePlace, ConstructorFirst
<1>3. /\ connections_' \in Seq(Stubs) /\ NoRepeats(connections_')
      /\ Elements(connections_') = Elements(connections_) \cup {c}
      /\ connections_' # <<>>
  <2>1. /\ connections_' \in Seq(Stubs) /\ NoRepeats(connections_')
        /\ Elements(connections_') = Elements(connections_) \cup {c}
    BY <1>1, <1>2, PushElement
  <2>2. Append(connections_, c) # <<>>
    BY <1>2
  <2> QED BY <1>1, <2>1, <2>2
<1>4. /\ pc' \in [Threads -> Critical \cup {"idle", "blocked", "woken", "using", "closing"}]
      /\ pc'[t] = "idle"
      /\ \A u \in Threads \ {t} : pc'[u] = pc[u] \/ (pc[u] = "blocked" /\ pc'[u] = "woken")
  BY <1>1 DEF NotifyOne, Goto, TypeOK
<1>5. context'[t] = NoStub /\ \A u \in Threads \ {t} : context'[u] = context[u]
  BY <1>1 DEF TypeOK
<1>6. TypeOK'
  BY <1>1, <1>3, <1>4 DEF TypeOK
<1>7. MutexOne' /\ ConstructorFirst' /\ QueueServes'
  BY <1>1, <1>2, <1>3, <1>4 DEF MutexOne, ConstructorFirst, QueueServes, Critical
<1>8. \A s \in Elements(connections_') : s # NoStub
  BY <1>2, <1>3, NoStubNotStub DEF Known, TypeOK
<1> HIDE DEF c
<1>9. c = context[t]
  BY DEF c
<1>10. HoldsStub' /\ OnePlace' /\ Known'
  BY <1>1, <1>2, <1>3, <1>4, <1>5, <1>8, <1>9 DEF HoldsStub, OnePlace, Known
<1>11. Kept'
  BY <1>1, <1>3, <1>5, <1>9 DEF Kept
<1> QED BY <1>6, <1>7, <1>10, <1>11

LEMMA CloseInvariant ==
    ASSUME IInv, NEW t \in Threads, BeginClose(t) \/ EndClose(t)
    PROVE  IInv'
<1> USE DEF IInv
<1>1. /\ UNCHANGED <<created, connections_, context, destroyed>>
      /\ b_stop_' \in BOOLEAN /\ (b_stop_ => b_stop_')
      /\ created = Stubs
      /\ pc[t] \in {"idle", "closing"}
  BY DEF BeginClose, EndClose, Ready, TypeOK, ConstructorFirst
<1>2. /\ pc' \in [Threads -> Critical \cup {"idle", "blocked", "woken", "using", "closing"}]
      /\ pc'[t] \in {"idle", "closing"}
      /\ \A u \in Threads \ {t} : pc'[u] = pc[u] \/ (pc[u] = "blocked" /\ pc'[u] = "woken")
  BY DEF BeginClose, EndClose, NotifyAll, Goto, TypeOK
<1>3. MutexOne' /\ QueueServes'
  BY <1>1, <1>2 DEF MutexOne, QueueServes, Critical
<1>4. \A u \in Threads : pc'[u] \in {"using", "pushing"} <=> pc[u] \in {"using", "pushing"}
  BY <1>1, <1>2
<1> QED BY <1>1, <1>2, <1>3, <1>4, ThreadMovesInvariant

LEMMA DestroyInvariant == IInv /\ Destroy => IInv'
<1> SUFFICES ASSUME IInv, Destroy PROVE IInv'
  OBVIOUS
<1> USE DEF IInv
<1>1. /\ created = Stubs /\ b_stop_' = TRUE /\ connections_' = <<>> /\ destroyed' = TRUE
      /\ UNCHANGED <<created, pc, context>>
      /\ \A t \in Threads : pc[t] \in {"idle", "using"}
  BY DEF Destroy, Ready
<1>2. connections_' \in Seq(Stubs) /\ NoRepeats(connections_') /\ Elements(connections_') = {}
  BY <1>1 DEF Elements, NoRepeats
<1>3. TypeOK'
  BY <1>1, <1>2 DEF TypeOK
<1>4. /\ MutexOne' /\ ConstructorFirst' /\ QueueServes'
      /\ HoldsStub' /\ OnePlace' /\ Known' /\ Kept'
  BY <1>1, <1>2 DEF MutexOne, ConstructorFirst, QueueServes, HoldsStub, OnePlace, Known, Kept
<1> QED BY <1>3, <1>4

LEMMA Invariance == Spec => []IInv
<1>1. IInv /\ [Next]_vars => IInv'
  <2> SUFFICES ASSUME IInv, [Next]_vars PROVE IInv'
    OBVIOUS
  <2>1. CASE UNCHANGED vars
    BY <2>1 DEF vars, IInv, TypeOK, MutexOne, ConstructorFirst, QueueServes,
                HoldsStub, OnePlace, Known, Kept
  <2>2. ASSUME NEW t \in Threads, Step(t) PROVE IInv'
    BY <2>2, EvaluateInvariant, MoveInvariant, TakeInvariant, BeginReturnInvariant,
       PushInvariant, CloseInvariant DEF Step, InCall
  <2> QED BY <2>1, <2>2, NewStubInvariant, DestroyInvariant DEF Next, Gone
<1> QED BY <1>1, InitInvariant, PTL DEF Spec
-------------------------------------------------------------------------------
\* Every variable has its type, and no nullptr is ever queued, for any set
\* of threads and of stubs.
THEOREM TypeCorrect == Spec => []TypeOK
<1>1. IInv => TypeOK
  BY DEF IInv
<1> QED BY <1>1, Invariance, PTL

\* Close misses at most one waiting thread, however many there are.
THEOREM CloseMissesAtMostOne == Spec => []AtMostOneLeftBehind
<1>1. Init => AtMostOneLeftBehind
  BY DEF Init, AtMostOneLeftBehind
<1>2. IInv /\ AtMostOneLeftBehind /\ [Next]_vars => AtMostOneLeftBehind'
  <2> SUFFICES ASSUME IInv, AtMostOneLeftBehind, [Next]_vars PROVE AtMostOneLeftBehind'
    OBVIOUS
  <2>1. pc \in [Threads -> Critical \cup {"idle", "blocked", "woken", "using", "closing"}]
    BY DEF IInv, TypeOK
  <2>2. CASE NewStub \/ UNCHANGED vars
    BY <2>2 DEF NewStub, vars, AtMostOneLeftBehind
  <2>3. CASE Destroy
    BY <2>3 DEF Destroy, AtMostOneLeftBehind
  <2>4. ASSUME NEW t \in Threads, BeginClose(t) PROVE AtMostOneLeftBehind'
    <3>1. pc'[t] = "closing"
      BY <2>1, <2>4 DEF BeginClose, Goto
    <3> QED BY <3>1 DEF AtMostOneLeftBehind
  <2>5. ASSUME NEW t \in Threads, EndClose(t) PROVE AtMostOneLeftBehind'
    <3>1. \A u \in Threads : pc'[u] \in {"blocking", "blocked"} => pc[u] = "blocking"
      BY <2>1, <2>5 DEF EndClose, NotifyAll
    <3> QED BY <3>1 DEF AtMostOneLeftBehind, IInv, MutexOne, Critical
  <2>6. ASSUME NEW t \in Threads,
               Evaluate(t) \/ Block(t) \/ CheckStop(t) \/ Take(t) \/ SpuriousWakeup(t)
                  \/ BeginReturn(t) \/ Push(t)
        PROVE  AtMostOneLeftBehind'
    <3>1. /\ UNCHANGED b_stop_
          /\ \A u \in Threads : pc'[u] = "closing" <=> pc[u] = "closing"
          /\ b_stop_ => \A u \in Threads :
                pc'[u] \in {"blocking", "blocked"} => pc[u] \in {"blocking", "blocked"}
      BY <2>1, <2>6 DEF Evaluate, Block, CheckStop, Take, SpuriousWakeup, BeginReturn,
                        Returns, Push, NotifyOne, Goto
    <3> QED BY <3>1 DEF AtMostOneLeftBehind
  <2> QED BY <2>2, <2>3, <2>4, <2>5, <2>6 DEF Next, Gone, Step, InCall
<1> QED BY <1>1, <1>2, Invariance, PTL DEF Spec
-------------------------------------------------------------------------------
(* While the pool is open, no wakeup is lost: each queued stub has a       *)
(* thread on its way to it, unless nobody is blocked.  A stopped pool is   *)
(* the subject of CloseMissesAtMostOne.                                    *)

Blocked == {t \in Threads : pc[t] = "blocked"}
OnTheirWay == {t \in Threads : pc[t] \in {"woken", "checking", "taking"}}

\* A thread that found the queue empty still has the mutex, so nobody pushes
\* before it blocks.
BlocksOnEmpty ==
    \A t \in Threads : pc[t] = "blocking" /\ ~b_stop_ => connections_ = <<>>

WakeupsSuffice ==
    ~b_stop_ /\ Blocked # {} => Len(connections_) <= Cardinality(OnTheirWay)

WInv == BlocksOnEmpty /\ WakeupsSuffice

LEMMA OnTheirWayFinite == IsFiniteSet(OnTheirWay) /\ Cardinality(OnTheirWay) \in Nat
<1>1. OnTheirWay \in SUBSET Threads
  BY DEF OnTheirWay
<1> QED BY <1>1, ThreadsFinite, FS_Subset, FS_CardinalityType

\* A step that adds no stub and takes nobody off the way.
LEMMA WayKept ==
    ASSUME TypeOK, WakeupsSuffice, UNCHANGED connections_, b_stop_' = FALSE => b_stop_ = FALSE,
           OnTheirWay \subseteq OnTheirWay', Blocked' \subseteq Blocked
    PROVE  WakeupsSuffice'
<1>1. PICK n \in Nat : n = Len(connections_)
  BY DEF TypeOK
<1>2. IsFiniteSet(OnTheirWay')
  <2>1. OnTheirWay' \in SUBSET Threads
    BY DEF OnTheirWay
  <2> QED BY <2>1, ThreadsFinite, FS_Subset
<1>3. PICK a, b \in Nat : a = Cardinality(OnTheirWay) /\ b = Cardinality(OnTheirWay')
  BY <1>2, OnTheirWayFinite, FS_CardinalityType
<1>4. a <= b
  BY <1>2, <1>3, FS_Subset
<1>5. ASSUME ~b_stop_', Blocked' # {} PROVE n <= b
  <2>1. n <= a
    BY <1>1, <1>3, <1>5 DEF WakeupsSuffice, TypeOK
  <2> QED BY <1>1, <1>3, <1>4, <2>1
<1> QED BY <1>1, <1>3, <1>5 DEF WakeupsSuffice

LEMMA EvaluateWakeups == ASSUME IInv, WInv, NEW t \in Threads, Evaluate(t) PROVE WInv'
<1>1. /\ UNCHANGED <<connections_, b_stop_>> /\ pc[t] \in {"idle", "woken"}
      /\ \A u \in Threads : pc[u] \notin Critical
      /\ \A u \in Threads \ {t} : pc'[u] = pc[u]
      /\ pc'[t] = (IF b_stop_ \/ connections_ # <<>> THEN "checking" ELSE "blocking")
  BY DEF Evaluate, MutexFree, Goto, IInv, TypeOK
<1>2. BlocksOnEmpty'
  BY <1>1 DEF BlocksOnEmpty, Critical
<1>3. WakeupsSuffice'
  <2>1. CASE connections_ = <<>>
    <3>1. Len(connections_') = 0
      BY <1>1, <2>1
    <3>2. OnTheirWay' \in SUBSET Threads
      BY DEF OnTheirWay
    <3>3. Cardinality(OnTheirWay') \in Nat
      BY <3>2, ThreadsFinite, FS_Subset, FS_CardinalityType
    <3> QED BY <3>1, <3>3 DEF WakeupsSuffice
  <2>2. CASE connections_ # <<>>
    <3>1. OnTheirWay \subseteq OnTheirWay' /\ Blocked' \subseteq Blocked
      BY <1>1, <2>2 DEF OnTheirWay, Blocked
    <3> QED BY <1>1, <3>1, WayKept DEF IInv, WInv
  <2> QED BY <2>1, <2>2
<1> QED BY <1>2, <1>3 DEF WInv

\* A thread that blocks released the mutex after it found the queue empty.
LEMMA BlockWakeups == ASSUME IInv, WInv, NEW t \in Threads, Block(t) PROVE WInv'
<1>1. /\ UNCHANGED <<connections_, b_stop_>> /\ pc[t] = "blocking"
      /\ \A u \in Threads \ {t} : pc'[u] = pc[u]
      /\ pc'[t] = "blocked"
  BY DEF Block, Goto, IInv, TypeOK
<1>2. BlocksOnEmpty'
  BY <1>1 DEF BlocksOnEmpty, WInv
<1>3. ~b_stop_' => Len(connections_') = 0
  BY <1>1 DEF BlocksOnEmpty, WInv
<1>4. Cardinality(OnTheirWay') \in Nat
  <2>1. OnTheirWay' \in SUBSET Threads
    BY DEF OnTheirWay
  <2> QED BY <2>1, ThreadsFinite, FS_Subset, FS_CardinalityType
<1> QED BY <1>2, <1>3, <1>4 DEF WInv, WakeupsSuffice

\* A taken stub had its thread: the one that takes it.
LEMMA TakeWakeups == ASSUME IInv, WInv, NEW t \in Threads, Take(t) PROVE WInv'
<1>1. /\ connections_' = Tail(connections_) /\ connections_ # <<>> /\ UNCHANGED b_stop_
      /\ pc[t] = "taking" /\ pc'[t] = "using"
      /\ \A u \in Threads \ {t} : pc'[u] = pc[u]
      /\ \A u \in Threads : pc'[u] # "blocking"
  BY DEF Take, PopFront, Goto, IInv, TypeOK, QueueServes, MutexOne, Critical
<1>2. BlocksOnEmpty'
  BY <1>1 DEF BlocksOnEmpty
<1>3. OnTheirWay' = OnTheirWay \ {t} /\ t \in OnTheirWay /\ Blocked' = Blocked
  BY <1>1 DEF OnTheirWay, Blocked
<1>4. PICK n, m \in Nat : n = Len(connections_) /\ m = Len(connections_') /\ m = n - 1
  BY <1>1, PopElement DEF IInv, TypeOK, OnePlace
<1>5. PICK a, b \in Nat :
         a = Cardinality(OnTheirWay) /\ b = Cardinality(OnTheirWay') /\ b = a - 1
  BY <1>3, OnTheirWayFinite, FS_RemoveElement, FS_CardinalityType
<1>6. ASSUME ~b_stop_', Blocked' # {} PROVE m <= b
  <2>1. n <= a
    BY <1>1, <1>3, <1>4, <1>5, <1>6 DEF WInv, WakeupsSuffice
  <2> QED BY <1>4, <1>5, <2>1
<1>7. WakeupsSuffice'
  BY <1>4, <1>5, <1>6 DEF WakeupsSuffice
<1> QED BY <1>2, <1>7 DEF WInv

\* A pushed stub wakes a thread of its own, if one is blocked.
LEMMA PushWakeups == ASSUME IInv, WInv, NEW t \in Threads, Push(t) PROVE WInv'
<1>1. /\ connections_' = Append(connections_, context[t]) /\ context[t] \in Stubs
      /\ UNCHANGED b_stop_ /\ pc[t] = "pushing" /\ NotifyOne(t)
      /\ \A u \in Threads : pc[u] # "blocking"
  BY DEF Push, IInv, TypeOK, HoldsStub, MutexOne, Critical
<1>2. BlocksOnEmpty'
  BY <1>1 DEF BlocksOnEmpty, NotifyOne, Goto, IInv, TypeOK
<1>3. PICK n, m \in Nat : n = Len(connections_) /\ m = Len(connections_') /\ m = n + 1
  BY <1>1, PushElement DEF IInv, TypeOK, OnePlace
<1>4. CASE Blocked = {} /\ Goto(t, "idle")
  <2>1. Blocked' = {}
    BY <1>4 DEF Blocked, Goto, IInv, TypeOK
  <2> QED BY <1>2, <2>1 DEF WInv, WakeupsSuffice
<1>5. ASSUME NEW w \in Blocked, pc' = [pc EXCEPT ![t] = "idle", ![w] = "woken"]
      PROVE  WInv'
  <2>1. w \notin OnTheirWay /\ OnTheirWay' = OnTheirWay \cup {w} /\ Blocked # {}
    BY <1>1, <1>5 DEF OnTheirWay, Blocked, IInv, TypeOK
  <2>2. PICK a, b \in Nat :
           a = Cardinality(OnTheirWay) /\ b = Cardinality(OnTheirWay') /\ b = a + 1
    <3>1. PICK W : W = OnTheirWay /\ IsFiniteSet(W) /\ Cardinality(W) \in Nat
      BY OnTheirWayFinite
    <3>2. OnTheirWay' = W \cup {w} /\ w \notin W
      BY <2>1, <3>1
    <3>3. Cardinality(W \cup {w}) = Cardinality(W) + 1
      BY <3>1, <3>2, FS_AddElement
    <3> QED BY <3>1, <3>2, <3>3
  <2>3. ASSUME ~b_stop_' PROVE m <= b
    <3>1. n <= a
      BY <1>1, <1>3, <2>1, <2>2, <2>3 DEF WInv, WakeupsSuffice
    <3> QED BY <1>3, <2>2, <3>1
  <2>4. WakeupsSuffice'
    BY <1>3, <2>2, <2>3 DEF WakeupsSuffice
  <2> QED BY <1>2, <2>4 DEF WInv
<1> QED BY <1>1, <1>4, <1>5 DEF NotifyOne, Blocked

\* The other steps of a thread in an open pool keep the queue, and take
\* nobody off the way to it.
LEMMA OtherWakeups ==
    ASSUME IInv, WInv, NEW t \in Threads,
           (CheckStop(t) /\ ~b_stop_) \/ SpuriousWakeup(t) \/ BeginReturn(t) \/ EndClose(t)
    PROVE  WInv'
<1>1. /\ UNCHANGED <<connections_, b_stop_>>
      /\ \A u \in Threads : pc'[u] \in {"blocking", "blocked"} => pc'[u] = pc[u]
      /\ OnTheirWay \subseteq OnTheirWay'
  BY DEF CheckStop, SpuriousWakeup, BeginReturn, Returns, EndClose, NotifyAll, Goto,
         OnTheirWay, IInv, TypeOK
<1>2. Blocked' \subseteq Blocked
  BY <1>1 DEF Blocked
<1>3. BlocksOnEmpty'
  BY <1>1 DEF BlocksOnEmpty, WInv
<1> QED BY <1>1, <1>2, <1>3, WayKept DEF IInv, WInv

\* The pool that is open loses no wakeup, for any finite set of threads.
THEOREM WakeupsHold == Spec => []WakeupsSuffice
<1>1. Init => WInv
  BY DEF Init, WInv, BlocksOnEmpty, WakeupsSuffice, Blocked
<1>2. IInv /\ WInv /\ [Next]_vars => WInv'
  <2> SUFFICES ASSUME IInv, WInv, [Next]_vars PROVE WInv'
    OBVIOUS
  <2>1. CASE b_stop_'
    BY <2>1 DEF WInv, BlocksOnEmpty, WakeupsSuffice
  <2>2. CASE NewStub
    <3>1. \A t \in Threads : pc'[t] = "idle"
      BY <2>2 DEF NewStub, IInv, ConstructorFirst
    <3> QED BY <3>1 DEF WInv, BlocksOnEmpty, WakeupsSuffice, Blocked
  <2>3. CASE UNCHANGED vars
    BY <2>3 DEF vars, WInv, BlocksOnEmpty, WakeupsSuffice, Blocked, OnTheirWay
  <2>4. ASSUME NEW t \in Threads, BeginClose(t) \/ (CheckStop(t) /\ b_stop_)
        PROVE  b_stop_'
    BY <2>4 DEF BeginClose, CheckStop
  <2>5. Destroy => b_stop_'
    BY DEF Destroy
  <2> QED BY <2>1, <2>2, <2>3, <2>4, <2>5, EvaluateWakeups, BlockWakeups, TakeWakeups,
             PushWakeups, OtherWakeups DEF Next, Gone, Step, InCall
<1>3. WInv => WakeupsSuffice
  BY DEF WInv
<1> QED BY <1>1, <1>2, <1>3, Invariance, PTL DEF Spec

-------------------------------------------------------------------------------
(* The refinement.  A call has its effect on the lease when it reads       *)
(* b_stop_, not when it reaches the queue.                                 *)

IdleMap == IF b_stop_ THEN {} ELSE Idle
LeaseMap == [t \in Threads |-> Lent(t)]
ReleasedMap == IF b_stop_ THEN Unlent ELSE {}

\* The mapped variables in the vocabulary of the lemmas.
LEMMA Vocabulary ==
    ASSUME TypeOK
    PROVE  Idle = {s \in Stubs :
                     \/ /\ s \in Elements(connections_)
                        /\ \A t \in Threads : pc[t] = "taking" => s # Head(connections_)
                     \/ \E t \in Threads : pc[t] = "pushing" /\ context[t] = s}
BY DEF Idle, Elements

\* While no thread is between its decision and the queue, the lease is what
\* the threads hold and the idle stubs are the queue.
LEMMA Quiet ==
    ASSUME IInv, \A t \in Threads : pc[t] \notin {"taking", "pushing"}
    PROVE  /\ Idle = Elements(connections_)
           /\ \A t \in Threads : Lent(t) = context[t]
           /\ Unlent = {s \in created : \A t \in Threads : context[t] # s}
<1>1. Elements(connections_) \subseteq Stubs
  BY DEF IInv, Known, TypeOK
<1>2. Idle = Elements(connections_)
  BY <1>1, Vocabulary DEF IInv
<1> QED BY <1>2 DEF Lent, Unlent

\* While the pool is open, a stub is idle or lent, never both.
LEMMA OpenPoolKeeps ==
    ASSUME IInv, ~b_stop_
    PROVE  Unlent = Idle
<1> USE DEF IInv
<1>0. /\ Elements(connections_) \subseteq created /\ created \subseteq Stubs
      /\ \A t \in Threads : context[t] \in created \cup {NoStub}
  BY DEF Known, TypeOK
<1>1. CASE \A t \in Threads : pc[t] \notin {"taking", "pushing"}
  BY <1>0, <1>1, Quiet, NoStubNotStub DEF OnePlace, Kept
<1>2. ASSUME NEW t \in Threads, pc[t] = "taking" PROVE Unlent = Idle
  <2> DEFINE c == Head(connections_)
  <2>1. c \in Elements(connections_) /\ context[t] = NoStub
    BY <1>2, PopElement DEF QueueServes, HoldsStub, OnePlace, TypeOK
  <2>2. \A u \in Threads \ {t} : pc[u] \notin {"taking", "pushing"}
    BY <1>2 DEF MutexOne, Critical
  <2>3. Idle = Elements(connections_) \ {c}
    BY <1>0, <1>2, <2>2, Vocabulary
  <2>4. Lent(t) = c /\ \A u \in Threads \ {t} : Lent(u) = context[u]
    BY <1>2, <2>2 DEF Lent
  <2> HIDE DEF c
  <2> QED BY <1>0, <2>1, <2>3, <2>4, NoStubNotStub DEF Unlent, OnePlace, Kept
<1>3. ASSUME NEW t \in Threads, pc[t] = "pushing" PROVE Unlent = Idle
  <2>1. \A u \in Threads \ {t} : pc[u] \notin {"taking", "pushing"}
    BY <1>3 DEF MutexOne, Critical
  <2>2. context[t] \in created
    BY <1>0, <1>3 DEF HoldsStub
  <2>3. Idle = Elements(connections_) \cup {context[t]}
    BY <1>0, <1>3, <2>1, <2>2, Vocabulary
  <2>4. Lent(t) = NoStub /\ \A u \in Threads \ {t} : Lent(u) = context[u]
    BY <1>3, <2>1 DEF Lent
  <2> QED BY <1>0, <2>2, <2>3, <2>4, NoStubNotStub DEF Unlent, OnePlace, Kept
<1> QED BY <1>1, <1>2, <1>3

\* Steps that change neither what is queued or held nor who is in between.
LEMMA MovesStutter ==
    ASSUME UNCHANGED <<created, connections_, b_stop_, context>>,
           \A t \in Threads : \/ pc'[t] = pc[t]
                              \/ {pc[t], pc'[t]} \cap {"taking", "pushing"} = {}
    PROVE  UNCHANGED <<IdleMap, LeaseMap, ReleasedMap>>
<1>1. \A t \in Threads : /\ pc'[t] = "taking" <=> pc[t] = "taking"
                         /\ pc'[t] = "pushing" <=> pc[t] = "pushing"
  OBVIOUS
<1>2. \A t \in Threads : Lent(t)' = Lent(t)
  BY <1>1 DEF Lent
<1>3. LeaseMap' = LeaseMap
  BY <1>2 DEF LeaseMap
<1>4. Idle' = Idle
  BY <1>1 DEF Idle
<1>5. Unlent' = Unlent
  BY <1>2 DEF Unlent
<1> QED BY <1>3, <1>4, <1>5 DEF IdleMap, ReleasedMap

LEMMA LeaseInitImplemented == Init => Lease!LeaseInit
<1> SUFFICES ASSUME Init PROVE Lease!LeaseInit
  OBVIOUS
<1>1. Idle = {} /\ b_stop_ = FALSE /\ \A t \in Threads : Lent(t) = NoStub
  BY DEF Init, Idle, Lent
<1> QED BY <1>1 DEF Lease!LeaseInit

\* The abstract variables of the instance, named.
LEMMA Mapping ==
    /\ Lease!leaseVars = <<IdleMap, LeaseMap, ReleasedMap, ~b_stop_>>
    /\ Lease!Leased = {LeaseMap[t] : t \in Threads} \ {NoStub}
    /\ Lease!Unopened = Stubs \ (IdleMap \cup Lease!Leased \cup ReleasedMap)
BY DEF Lease!leaseVars, Lease!Leased, Lease!Unopened, IdleMap, LeaseMap, ReleasedMap

LEMMA OpenStep ==
    ASSUME IInv, NewStub
    PROVE  Lease!LeaseNext
<1> USE DEF IInv
<1>1. PICK s \in Stubs \ created :
         created' = created \cup {s} /\ connections_' = Append(connections_, s)
  BY DEF NewStub
<1>2. /\ UNCHANGED <<b_stop_, pc, context>> /\ ~b_stop_
      /\ \A t \in Threads : pc[t] = "idle" /\ context[t] = NoStub
  BY <1>1 DEF NewStub, ConstructorFirst, HoldsStub
<1>3. IInv'
  BY NewStubInvariant
<1>4. Elements(connections_') = Elements(connections_) \cup {s} /\ s \notin Elements(connections_)
  BY <1>1, PushElement DEF TypeOK, OnePlace, Known
<1>5. /\ Idle = Elements(connections_)
      /\ \A t \in Threads : Lent(t) = NoStub
  BY <1>2, Quiet
<1>6. /\ Idle' = Elements(connections_')
      /\ \A t \in Threads : Lent(t)' = NoStub
  <2>1. Elements(connections_') \subseteq Stubs
    BY <1>3 DEF Known, TypeOK
  <2>2. Idle' = {x \in Stubs : x \in Elements(connections_')}
    BY <1>2 DEF Idle, Elements
  <2>3. \A t \in Threads : Lent(t)' = NoStub
    BY <1>2 DEF Lent
  <2> QED BY <2>1, <2>2, <2>3
<1>7. /\ IdleMap = Idle /\ IdleMap' = Idle \cup {s} /\ UNCHANGED <<LeaseMap, ReleasedMap, b_stop_>>
      /\ ReleasedMap = {} /\ \A t \in Threads : LeaseMap[t] = NoStub
  BY <1>2, <1>4, <1>5, <1>6 DEF IdleMap, LeaseMap, ReleasedMap
<1>8. s \in Lease!Unopened
  BY <1>4, <1>5, <1>7, Mapping
<1>9. Lease!Open(s)
  BY <1>2, <1>7, <1>8 DEF Lease!Open, IdleMap, LeaseMap, ReleasedMap
<1> QED BY <1>1, <1>9 DEF Lease!LeaseNext

LEMMA BorrowStep ==
    ASSUME IInv, NEW t \in Threads, CheckStop(t), ~b_stop_
    PROVE  Lease!LeaseNext
<1> USE DEF IInv
<1> DEFINE c == Head(connections_)
<1>1. /\ UNCHANGED <<created, connections_, b_stop_, context>>
      /\ pc[t] = "checking" /\ pc' = [pc EXCEPT ![t] = "taking"]
  BY DEF CheckStop, Goto
<1>2. pc'[t] = "taking" /\ \A u \in Threads \ {t} : pc'[u] = pc[u]
  BY <1>1 DEF TypeOK
<1>3. \A u \in Threads : pc[u] \notin {"taking", "pushing"}
  BY <1>1 DEF MutexOne, Critical
<1>4. c \in Stubs /\ c \in Elements(connections_) /\ context[t] = NoStub
  BY <1>1, PopElement DEF QueueServes, HoldsStub, OnePlace, TypeOK
<1>5. Idle = Elements(connections_) /\ \A u \in Threads : Lent(u) = context[u]
  BY <1>3, Quiet
<1>6. Idle' = Idle \ {c}
  <2>1. Idle' = {s \in Stubs : s \in Elements(connections_) /\ s # c}
    BY <1>1, <1>2, <1>3 DEF Idle, Elements
  <2>2. Elements(connections_) \subseteq Stubs
    BY DEF Known, TypeOK
  <2> QED BY <1>5, <2>1, <2>2
<1>7. Lent(t)' = c /\ \A u \in Threads \ {t} : Lent(u)' = context[u]
  BY <1>1, <1>2, <1>3 DEF Lent
<1> HIDE DEF c
<1>8. /\ IdleMap = Idle /\ IdleMap' = Idle \ {c} /\ c \in Idle
      /\ LeaseMap[t] = NoStub /\ LeaseMap' = [LeaseMap EXCEPT ![t] = c]
      /\ UNCHANGED <<ReleasedMap, b_stop_>>
  BY <1>1, <1>4, <1>5, <1>6, <1>7 DEF IdleMap, LeaseMap, ReleasedMap
<1>9. Lease!Borrow(t, c)
  BY <1>8 DEF Lease!Borrow, IdleMap, LeaseMap, ReleasedMap
<1> QED BY <1>4, <1>9 DEF Lease!LeaseNext

LEMMA TakeStutters ==
    ASSUME IInv, NEW t \in Threads, Take(t)
    PROVE  UNCHANGED <<IdleMap, LeaseMap, ReleasedMap, b_stop_>>
<1> USE DEF IInv
<1> DEFINE c == Head(connections_)
<1>1. /\ UNCHANGED <<created, b_stop_>>
      /\ pc[t] = "taking" /\ pc' = [pc EXCEPT ![t] = "using"]
      /\ context' = [context EXCEPT ![t] = c]
      /\ connections_' = Tail(connections_)
  BY DEF Take, PopFront, Goto
<1>2. /\ pc'[t] = "using" /\ context'[t] = c
      /\ \A u \in Threads \ {t} : pc'[u] = pc[u] /\ context'[u] = context[u]
      /\ \A u \in Threads \ {t} : pc[u] \notin {"taking", "pushing"}
  BY <1>1 DEF TypeOK, MutexOne, Critical
<1>3. Elements(connections_') = Elements(connections_) \ {c}
  BY <1>1, PopElement DEF QueueServes, OnePlace, TypeOK
<1>4. \A u \in Threads : Lent(u)' = Lent(u)
  BY <1>1, <1>2 DEF Lent
<1>5. Idle = {s \in Stubs : s \in Elements(connections_) /\ s # c}
  BY <1>1, <1>2, Vocabulary
<1>6. Idle' = {s \in Stubs : s \in Elements(connections_')}
  BY <1>2 DEF Idle, Elements
<1>7. Idle' = Idle /\ Unlent' = Unlent /\ LeaseMap' = LeaseMap
  BY <1>1, <1>3, <1>4, <1>5, <1>6 DEF Unlent, LeaseMap
<1> QED BY <1>1, <1>7 DEF IdleMap, ReleasedMap

LEMMA GiveBackStep ==
    ASSUME IInv, NEW t \in Threads, BeginReturn(t)
    PROVE  Lease!LeaseNext
<1> USE DEF IInv
<1> DEFINE c == context[t]
<1>1. /\ UNCHANGED <<created, connections_, b_stop_>>
      /\ pc[t] = "using" /\ \A u \in Threads : pc[u] \notin Critical
      /\ pc' = [pc EXCEPT ![t] = IF b_stop_ THEN "idle" ELSE "pushing"]
      /\ context' = IF b_stop_ THEN [context EXCEPT ![t] = NoStub] ELSE context
  BY DEF BeginReturn, MutexFree, Returns, Goto
<1>2. /\ pc'[t] = (IF b_stop_ THEN "idle" ELSE "pushing")
      /\ context'[t] = (IF b_stop_ THEN NoStub ELSE c)
      /\ \A u \in Threads \ {t} : pc'[u] = pc[u] /\ context'[u] = context[u]
      /\ \A u \in Threads : pc[u] \notin {"taking", "pushing"}
  BY <1>1 DEF TypeOK, Critical
<1>3. /\ c \in created /\ c \in Stubs /\ c # NoStub
      /\ c \notin Elements(connections_)
      /\ \A u \in Threads \ {t} : context[u] # c
  BY <1>1 DEF HoldsStub, Known, OnePlace, TypeOK
<1>4. /\ Idle = Elements(connections_) /\ \A u \in Threads : Lent(u) = context[u]
      /\ Unlent = {s \in created : \A u \in Threads : context[u] # s}
  BY <1>2, Quiet
<1>5. Lent(t)' = NoStub /\ \A u \in Threads \ {t} : Lent(u)' = context[u]
  BY <1>1, <1>2 DEF Lent
<1>6. LeaseMap[t] = c /\ LeaseMap' = [LeaseMap EXCEPT ![t] = NoStub]
  BY <1>4, <1>5 DEF LeaseMap
<1>7. CASE b_stop_
  <2>1. Unlent' = Unlent \cup {c} /\ c \notin Unlent
    <3>1. Unlent' = {s \in created : \A u \in Threads \ {t} : context[u] # s}
      BY <1>1, <1>5, NoStubNotStub DEF Unlent, TypeOK
    <3> QED BY <1>3, <1>4, <3>1
  <2>2. /\ IdleMap = {} /\ IdleMap' = {}
        /\ ReleasedMap = Unlent /\ ReleasedMap' = Unlent \cup {c} /\ c \notin Unlent
    BY <1>1, <1>7, <2>1 DEF IdleMap, ReleasedMap
  <2>3. Lease!GiveBack(t)
    BY <1>1, <1>3, <1>6, <1>7, <2>2 DEF Lease!GiveBack, IdleMap, LeaseMap, ReleasedMap
  <2> QED BY <2>3 DEF Lease!LeaseNext
<1>8. CASE ~b_stop_
  <2>1. Idle' = Idle \cup {c}
    <3>1. Idle' = {s \in Stubs : s \in Elements(connections_) \/ s = c}
      BY <1>1, <1>2, <1>8 DEF Idle, Elements
    <3>2. Elements(connections_) \subseteq Stubs
      BY DEF Known, TypeOK
    <3> QED BY <1>3, <1>4, <3>1, <3>2
  <2>2. /\ IdleMap = Idle /\ IdleMap' = Idle \cup {c} /\ c \notin Idle
        /\ ReleasedMap = {} /\ ReleasedMap' = {}
    BY <1>1, <1>3, <1>4, <1>8, <2>1 DEF IdleMap, ReleasedMap
  <2>3. Lease!GiveBack(t)
    BY <1>1, <1>3, <1>6, <1>8, <2>2 DEF Lease!GiveBack, IdleMap, LeaseMap, ReleasedMap
  <2> QED BY <2>3 DEF Lease!LeaseNext
<1> QED BY <1>7, <1>8

LEMMA PushStutters ==
    ASSUME IInv, NEW t \in Threads, Push(t)
    PROVE  UNCHANGED <<IdleMap, LeaseMap, ReleasedMap, b_stop_>>
<1> USE DEF IInv
<1> DEFINE c == context[t]
<1>1. /\ UNCHANGED <<created, b_stop_>> /\ pc[t] = "pushing"
      /\ connections_' = Append(connections_, c)
      /\ context' = [context EXCEPT ![t] = NoStub]
      /\ NotifyOne(t)
  BY DEF Push
<1>2. /\ pc'[t] = "idle" /\ context'[t] = NoStub
      /\ \A u \in Threads \ {t} : /\ pc[u] \notin {"taking", "pushing"}
                                  /\ pc'[u] \notin {"taking", "pushing"}
                                  /\ context'[u] = context[u]
  BY <1>1 DEF NotifyOne, Goto, TypeOK, MutexOne, Critical
<1>3. c \in Stubs /\ Elements(connections_') = Elements(connections_) \cup {c}
  BY <1>1, PushElement DEF HoldsStub, OnePlace, TypeOK
<1>4. \A u \in Threads : Lent(u)' = Lent(u)
  BY <1>1, <1>2 DEF Lent
<1>5. Idle = {s \in Stubs : s \in Elements(connections_) \/ s = c}
  BY <1>1, <1>2, Vocabulary
<1>6. Idle' = {s \in Stubs : s \in Elements(connections_')}
  BY <1>2 DEF Idle, Elements
<1>7. Idle' = Idle /\ Unlent' = Unlent /\ LeaseMap' = LeaseMap
  BY <1>1, <1>3, <1>4, <1>5, <1>6 DEF Unlent, LeaseMap
<1> QED BY <1>1, <1>7 DEF IdleMap, ReleasedMap

LEMMA ShutStep ==
    ASSUME IInv, ~b_stop_, b_stop_' = TRUE, Unlent' = Unlent, LeaseMap' = LeaseMap
    PROVE  Lease!LeaseNext
<1>1. /\ IdleMap = Idle /\ IdleMap' = {}
      /\ ReleasedMap = {} /\ ReleasedMap' = Idle
  BY OpenPoolKeeps DEF IdleMap, ReleasedMap
<1>2. Lease!Shut
  BY <1>1 DEF Lease!Shut, IdleMap, LeaseMap, ReleasedMap
<1> QED BY <1>2 DEF Lease!LeaseNext

LEMMA LeaseStep ==
    ASSUME IInv, [Next]_vars
    PROVE  [Lease!LeaseNext]_(Lease!leaseVars)
<1> USE DEF IInv
<1>0. DOMAIN pc = Threads /\ DOMAIN context = Threads
  BY DEF TypeOK
<1>6. ASSUME UNCHANGED <<IdleMap, LeaseMap, ReleasedMap, b_stop_>>
      PROVE  UNCHANGED Lease!leaseVars
  BY <1>6 DEF Lease!leaseVars, IdleMap, LeaseMap, ReleasedMap
<1>1. CASE NewStub
  BY <1>1, OpenStep
<1>2. ASSUME NEW t \in Threads,
             Evaluate(t) \/ Block(t) \/ SpuriousWakeup(t) \/ (CheckStop(t) /\ b_stop_)
                \/ EndClose(t) \/ (BeginClose(t) /\ b_stop_)
      PROVE  UNCHANGED <<IdleMap, LeaseMap, ReleasedMap, b_stop_>>
  <2>1. /\ UNCHANGED <<created, connections_, b_stop_, context>>
        /\ \A u \in Threads : \/ pc'[u] = pc[u]
                              \/ {pc[u], pc'[u]} \cap {"taking", "pushing"} = {}
    BY <1>0, <1>2 DEF Evaluate, Block, SpuriousWakeup, CheckStop, EndClose, NotifyAll,
                      BeginClose, Goto, TypeOK
  <2> QED BY <2>1, MovesStutter
<1>3. ASSUME NEW t \in Threads, BeginClose(t), ~b_stop_ PROVE Lease!LeaseNext
  <2>1. /\ UNCHANGED <<created, connections_, context>> /\ b_stop_' = TRUE
        /\ pc[t] = "idle" /\ pc' = [pc EXCEPT ![t] = "closing"]
    BY <1>3 DEF BeginClose, Goto
  <2>2. \A u \in Threads : Lent(u)' = Lent(u)
    BY <1>0, <2>1 DEF Lent
  <2>3. Unlent' = Unlent /\ LeaseMap' = LeaseMap
    BY <2>1, <2>2 DEF Unlent, LeaseMap
  <2> QED BY <1>3, <2>1, <2>3, ShutStep
<1>4. CASE Destroy
  <2>1. /\ UNCHANGED <<created, pc, context>> /\ b_stop_' = TRUE
        /\ \A u \in Threads : pc[u] \notin {"taking", "pushing"}
    BY <1>4 DEF Destroy
  <2>2. \A u \in Threads : Lent(u)' = Lent(u)
    BY <2>1 DEF Lent
  <2>3. Unlent' = Unlent /\ LeaseMap' = LeaseMap
    BY <2>1, <2>2 DEF Unlent, LeaseMap
  <2>4. CASE b_stop_
    BY <1>6, <2>1, <2>3, <2>4 DEF IdleMap, ReleasedMap
  <2>5. CASE ~b_stop_
    BY <2>1, <2>3, <2>5, ShutStep
  <2> QED BY <2>4, <2>5
<1>5. CASE UNCHANGED vars
  BY <1>5, <1>6, MovesStutter DEF vars
<1> QED BY <1>1, <1>2, <1>3, <1>4, <1>5, <1>6, BorrowStep, TakeStutters, GiveBackStep,
           PushStutters DEF Next, Gone, Step, InCall

\* RPConPool implements ConnectionLease, for any set of threads and of stubs.
THEOREM StubPoolImplementsLease == Spec => ImplementsLease
<1>1. Spec => Lease!LeaseInit /\ [][Lease!LeaseNext]_(Lease!leaseVars)
  BY LeaseInitImplemented, LeaseStep, Invariance, PTL DEF Spec
<1> QED BY <1>1 DEF ImplementsLease, Lease!LeaseSpec
===============================================================================
