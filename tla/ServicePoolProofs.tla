---------------------------- MODULE ServicePoolProofs ----------------------------
(***************************************************************************)
(* Proofs about ServicePool, for any number of services and of operations: *)
(* type correctness, that threads stay in run until Stop and not beyond,   *)
(* and that Stop never waits for a thread that may run on.                 *)
(***************************************************************************)
EXTENDS ServicePool, TLAPS

-------------------------------------------------------------------------------
(* The inductive invariant.  That no thread returns early rests on the     *)
(* work guards, which Stop resets together with the flag; that none is     *)
(* left on the order of the three loops: threads are started, services     *)
(* stopped and threads joined, each from first to last.                    *)

\* A service that runs on without operations has its guard.
Guarded == \A i \in Services : works[i] \/ stopped[i]

\* The constructor's loop has started the threads before its iteration.
Started ==
    /\ \A i \in Services : threads[i] = "unborn" => Constructing /\ i >= at
    /\ Constructing => \A i \in Services : ~stopped[i]

\* The first loop of Stop has stopped the services before its iteration.
StoppedSoFar ==
    /\ stop = "stopping" => \A i \in Services : i < at => stopped[i]
    /\ stop \in {"joining", "over"} => \A i \in Services : stopped[i]

\* The second has joined the threads before its iteration.
JoinedSoFar ==
    stop = "joining" => \A i \in Services : i < at => threads[i] = "returned"

IInv ==
    TypeOK /\ Guarded /\ Started /\ StoppedSoFar /\ JoinedSoFar /\ RunsUntilStopped

\* The arithmetic of the loops and of the round robin.
LEMMA Indices ==
    /\ 0 \in Services /\ 0 \in 0..Size
    /\ \A n \in 0..Size : n < Size => n \in Services /\ n + 1 \in 0..Size
    /\ \A n \in 0..Size : n # Size => n < Size
    /\ \A i \in Services : i < Size /\ ~(i < 0) /\ i >= 0
    /\ \A i \in Services : Following(i) \in Services
    /\ \A i \in Services, n \in 0..Size : i < n + 1 <=> i < n \/ i = n
    /\ \A i \in Services, n \in 0..Size : i >= n /\ i # n => i >= n + 1 /\ n + 1 < Size
<1>1. Size \in Nat /\ Size > 0
  BY SizePositive
<1>2. 0 \in Services /\ 0 \in 0..Size
  BY <1>1 DEF Services
<1>3. \A n \in 0..Size : n < Size => n \in Services /\ n + 1 \in 0..Size
  BY <1>1 DEF Services
<1>4. \A i \in Services : i < Size /\ ~(i < 0) /\ i >= 0
  BY <1>1 DEF Services
<1>5. \A i \in Services : Following(i) \in Services
  BY <1>1 DEF Services, Following
<1>6. \A i \in Services, n \in 0..Size : i < n + 1 <=> i < n \/ i = n
  BY <1>1 DEF Services
<1>7. \A n \in 0..Size : n # Size => n < Size
  BY <1>1
<1>8. \A i \in Services, n \in 0..Size : i >= n /\ i # n => i >= n + 1 /\ n + 1 < Size
  BY <1>1 DEF Services
<1> QED BY <1>2, <1>3, <1>4, <1>5, <1>6, <1>7, <1>8

LEMMA InitInvariant == Init => IInv
<1> SUFFICES ASSUME Init PROVE IInv
  OBVIOUS
<1>1. TypeOK
  <2>1. 0 \in 0..MaxOps
    BY MaxOpsNat
  <2>2. threads \in [Services -> {"unborn", "in run", "returned"}]
    BY DEF Init
  <2>3. works \in [Services -> BOOLEAN] /\ stopped \in [Services -> BOOLEAN]
    BY DEF Init, GuardedWork
  <2>4. ops \in [Services -> 0..MaxOps]
    BY <2>1 DEF Init
  <2> QED BY <2>2, <2>3, <2>4, Indices DEF Init, TypeOK
<1>2. Guarded /\ StoppedSoFar /\ JoinedSoFar /\ RunsUntilStopped
  BY DEF Init, GuardedWork, Guarded, StoppedSoFar, JoinedSoFar, RunsUntilStopped
<1>3. Started
  BY Indices, SizePositive DEF Init, Started, Constructing
<1> QED BY <1>1, <1>2, <1>3 DEF IInv

LEMMA StartInvariant == ASSUME IInv, StartThread PROVE IInv'
<1> USE DEF IInv
<1>1. at \in Services /\ at' \in 0..Size /\ at' = at + 1 /\ stop' = "not called"
  BY Indices DEF StartThread, Constructing, TypeOK
<1>2. /\ threads' \in [Services -> {"unborn", "in run", "returned"}]
      /\ threads'[at] = "in run" /\ \A i \in Services \ {at} : threads'[i] = threads[i]
      /\ UNCHANGED <<works, stopped, ops, _nextIOService>>
  BY <1>1 DEF StartThread, TypeOK
<1>3. TypeOK'
  BY <1>1, <1>2 DEF TypeOK
<1>4. Started'
  <2>1. ASSUME NEW i \in Services, threads'[i] = "unborn"
        PROVE  i >= at + 1 /\ at + 1 < Size
    <3>1. i # at /\ i >= at
      BY <1>2, <2>1 DEF Started
    <3> QED BY <3>1, Indices DEF TypeOK
  <2> QED BY <1>1, <1>2, <2>1 DEF Started, StartThread, Constructing
<1>5. Guarded' /\ StoppedSoFar' /\ JoinedSoFar' /\ RunsUntilStopped'
  BY <1>1, <1>2 DEF Guarded, StoppedSoFar, JoinedSoFar, RunsUntilStopped
<1> QED BY <1>3, <1>4, <1>5

\* A step that leaves the threads, the guards and Stop alone.
LEMMA OperationsInvariant ==
    ASSUME IInv, UNCHANGED <<threads, works, stopped, stop, at>>, TypeOK'
    PROVE  IInv'
  BY DEF IInv, Guarded, Started, StoppedSoFar, JoinedSoFar, RunsUntilStopped, Constructing

LEMMA ServeInvariant ==
    ASSUME IInv, GetIOService \/ \E i \in Services : Complete(i)
    PROVE  IInv'
<1>1. CASE GetIOService
  <2>1. PICK n \in 0..MaxOps : n = ops[_nextIOService]
    BY DEF IInv, TypeOK
  <2>2. n + 1 \in 0..MaxOps
    BY <1>1, <2>1, MaxOpsNat DEF GetIOService
  <2>3. ops' \in [Services -> 0..MaxOps]
    BY <1>1, <2>1, <2>2 DEF GetIOService, IInv, TypeOK
  <2>4. _nextIOService' \in Services
    BY <1>1, Indices DEF GetIOService, IInv, TypeOK
  <2>5. TypeOK'
    BY <1>1, <2>3, <2>4 DEF GetIOService, IInv, TypeOK
  <2> QED BY <1>1, <2>5, OperationsInvariant DEF GetIOService
<1>2. ASSUME NEW i \in Services, Complete(i) PROVE IInv'
  <2>1. PICK n \in 0..MaxOps : n = ops[i]
    BY <1>2 DEF IInv, TypeOK
  <2>2. n - 1 \in 0..MaxOps
    <3>1. n > 0
      BY <1>2, <2>1 DEF Complete
    <3> QED BY <2>1, <3>1, MaxOpsNat
  <2>3. ops' \in [Services -> 0..MaxOps]
    BY <1>2, <2>1, <2>2 DEF Complete, IInv, TypeOK
  <2>4. TypeOK'
    BY <1>2, <2>3 DEF Complete, IInv, TypeOK
  <2> QED BY <1>2, <2>4, OperationsInvariant DEF Complete
<1> QED BY <1>1, <1>2

\* A thread that returns finds its service stopped: the guard is still there
\* otherwise.
LEMMA ReturnInvariant == ASSUME IInv, NEW i \in Services, RunReturns(i) PROVE IInv'
<1> USE DEF IInv
<1>1. /\ threads' \in [Services -> {"unborn", "in run", "returned"}]
      /\ threads'[i] = "returned" /\ \A j \in Services \ {i} : threads'[j] = threads[j]
      /\ UNCHANGED <<works, stopped, ops, _nextIOService, stop, at>>
  BY DEF RunReturns, TypeOK
<1>2. stopped[i]
  BY DEF RunReturns, Guarded
<1>3. TypeOK'
  BY <1>1 DEF TypeOK
<1>4. Guarded' /\ Started' /\ StoppedSoFar' /\ JoinedSoFar'
  BY <1>1 DEF Guarded, Started, StoppedSoFar, JoinedSoFar, Constructing
<1>5. RunsUntilStopped'
  BY <1>1, <1>2 DEF RunsUntilStopped
<1> QED BY <1>3, <1>4, <1>5

LEMMA BeginStopInvariant == ASSUME IInv, BeginStop PROVE IInv'
<1> USE DEF IInv
<1>1. /\ ~Constructing /\ stop' = "stopping" /\ at' = 0
      /\ UNCHANGED <<threads, works, stopped, ops, _nextIOService>>
  BY DEF BeginStop
<1>2. TypeOK'
  BY <1>1, Indices DEF TypeOK
<1>3. Started' /\ StoppedSoFar'
  BY <1>1, Indices DEF Started, StoppedSoFar, Constructing
<1>4. Guarded' /\ JoinedSoFar' /\ RunsUntilStopped'
  BY <1>1 DEF Guarded, JoinedSoFar, RunsUntilStopped
<1> QED BY <1>2, <1>3, <1>4

LEMMA StopServiceInvariant == ASSUME IInv, StopService PROVE IInv'
<1> USE DEF IInv
<1>1. /\ stop = "stopping" /\ stop' = "stopping"
      /\ at \in Services /\ at' = at + 1 /\ at' \in 0..Size
      /\ UNCHANGED <<threads, ops, _nextIOService>>
  BY Indices DEF StopService, TypeOK
<1>2. /\ stopped' \in [Services -> BOOLEAN] /\ works' \in [Services -> BOOLEAN]
      /\ stopped'[at] /\ \A i \in Services \ {at} : stopped'[i] = stopped[i]
      /\ \A i \in Services \ {at} : works'[i] = works[i]
  BY <1>1 DEF StopService, StopContext, TypeOK
<1>3. TypeOK'
  BY <1>1, <1>2 DEF TypeOK
<1>4. \A i \in Services : i < at' => i < at \/ i = at
  BY <1>1, Indices DEF TypeOK
<1>5. Guarded' /\ StoppedSoFar' /\ JoinedSoFar' /\ RunsUntilStopped'
  BY <1>1, <1>2, <1>4 DEF Guarded, StoppedSoFar, JoinedSoFar, RunsUntilStopped
<1>6. Started'
  BY <1>1 DEF Started, Constructing
<1> QED BY <1>3, <1>5, <1>6

LEMMA JoinInvariant == ASSUME IInv, BeginJoin \/ Join \/ EndStop PROVE IInv'
<1> USE DEF IInv
<1>1. UNCHANGED <<threads, works, stopped, ops, _nextIOService>>
  BY DEF BeginJoin, Join, EndStop
<1>2. Guarded' /\ Started'
  BY <1>1 DEF Guarded, Started, Constructing, BeginJoin, Join, EndStop
<1>3. CASE BeginJoin
  <2>1. stop' = "joining" /\ at' = 0 /\ \A i \in Services : i < at
    BY <1>3, Indices DEF BeginJoin
  <2>2. TypeOK'
    BY <1>1, <2>1, Indices DEF TypeOK
  <2>3. StoppedSoFar' /\ JoinedSoFar' /\ RunsUntilStopped'
    BY <1>1, <1>3, <2>1, Indices
       DEF StoppedSoFar, JoinedSoFar, RunsUntilStopped, BeginJoin
  <2> QED BY <1>2, <2>2, <2>3
<1>4. CASE Join
  <2>1. /\ stop = "joining" /\ stop' = "joining" /\ at' = at + 1 /\ at' \in 0..Size
        /\ threads[at] = "returned"
    BY <1>4, Indices DEF Join, Joinable, TypeOK
  <2>2. \A i \in Services : i < at' => i < at \/ i = at
    BY <2>1, Indices DEF TypeOK
  <2> QED BY <1>1, <1>2, <2>1, <2>2
          DEF TypeOK, StoppedSoFar, JoinedSoFar, RunsUntilStopped
<1>5. CASE EndStop
  <2>1. stop' = "over" /\ at' = at /\ \A i \in Services : threads[i] = "returned"
    BY <1>5, Indices DEF EndStop, JoinedSoFar
  <2> QED BY <1>1, <1>2, <1>5, <2>1
          DEF TypeOK, StoppedSoFar, JoinedSoFar, RunsUntilStopped, EndStop
<1> QED BY <1>3, <1>4, <1>5

LEMMA NextInvariant == IInv /\ [Next]_vars => IInv'
<1> SUFFICES ASSUME IInv, [Next]_vars PROVE IInv'
  OBVIOUS
<1>1. CASE Destroyed \/ UNCHANGED vars
  BY <1>1 DEF Destroyed, vars, IInv, TypeOK, Guarded, Started, StoppedSoFar, JoinedSoFar,
              RunsUntilStopped, Constructing
<1> QED BY <1>1, StartInvariant, ServeInvariant, ReturnInvariant, BeginStopInvariant,
           StopServiceInvariant, JoinInvariant DEF Next, Stop

LEMMA Invariance == Spec => []IInv
  BY InitInvariant, NextInvariant, PTL DEF Spec
-------------------------------------------------------------------------------
\* Every variable has a value of its type, however many services there are;
\* in particular GetIOService and the loops of Stop never index past the end.
THEOREM TypeCorrect == Spec => []TypeOK
<1>1. IInv => TypeOK
  BY DEF IInv
<1> QED BY <1>1, Invariance, PTL

\* No thread leaves run before its service is stopped, and none is left when
\* Stop is over.
THEOREM ThreadsRunUntilStopped == Spec => []RunsUntilStopped
<1>1. IInv => RunsUntilStopped
  BY DEF IInv
<1> QED BY <1>1, Invariance, PTL

\* Stop can go on, or else the thread that it is about to join can leave run:
\* it was started, and its service was stopped before.
NeverStuck ==
    stop = "joining" /\ at < Size =>
        Joinable(at) \/ (threads[at] = "in run" /\ stopped[at])

\* Stop never joins a thread that was not started, nor one that may wait for
\* its operations: the safe part of StopEnds, without fairness.
THEOREM StopNeverStuck == Spec => []NeverStuck
<1>1. IInv => NeverStuck
  <2> SUFFICES ASSUME IInv, stop = "joining", at < Size
               PROVE  Joinable(at) \/ (threads[at] = "in run" /\ stopped[at])
    BY DEF NeverStuck
  <2>1. at \in Services
    BY Indices DEF IInv, TypeOK
  <2>2. stopped[at] /\ threads[at] # "unborn"
    BY <2>1 DEF IInv, StoppedSoFar, Started, Constructing
  <2> QED BY <2>1, <2>2 DEF IInv, TypeOK, Joinable
<1> QED BY <1>1, Invariance, PTL
===============================================================================
