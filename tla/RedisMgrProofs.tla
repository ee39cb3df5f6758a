---------------------------- MODULE RedisMgrProofs ----------------------------
(***************************************************************************)
(* Proofs about RedisMgr, for any threads, keys and connections: type      *)
(* correctness, that no command keeps its connection, and the refinement   *)
(* of RedisCommands.  What is known of the pool comes from the proofs of   *)
(* RedisConPool, since every step of RedisMgr is one of the pool's.        *)
(***************************************************************************)
EXTENDS RedisMgr, TLAPS

PoolProofs == INSTANCE RedisConPoolProofs

-------------------------------------------------------------------------------
(* The pool.                                                               *)

LEMMA FiniteThreads == PoolProofs!IsFiniteSet(Threads)
BY PoolParameters DEF PoolProofs!IsFiniteSet, IsFiniteSet

LEMMA SameSteps ==
    ASSUME NEW t \in Threads,
           \/ Pool!Wait(t) \/ Pool!GetNothing(t) \/ Pool!GetConnection(t) \/ Pool!SpuriousWakeup(t)
           \/ Pool!ReturnConnection(t) \/ Pool!CloseDrain(t) \/ Pool!CloseNotify(t)
    PROVE  PoolProofs!Next
<1>1. CASE Pool!Wait(t) \/ Pool!GetNothing(t) \/ Pool!GetConnection(t) \/ Pool!SpuriousWakeup(t)
  <2>1. PoolProofs!Step(t)
    BY <1>1 DEF PoolProofs!Step, Pool!InGetConnection, PoolProofs!InGetConnection,
              Pool!Constructing, PoolProofs!Constructing, Pool!PopFront, PoolProofs!PopFront,
              Pool!Wait, Pool!GetNothing, Pool!GetConnection, Pool!SpuriousWakeup,
              PoolProofs!Wait, PoolProofs!GetNothing, PoolProofs!GetConnection,
              PoolProofs!SpuriousWakeup
  <2> QED BY <2>1 DEF PoolProofs!Next
<1>2. CASE Pool!ReturnConnection(t)
  <2>1. PoolProofs!ReturnConnection(t)
    BY <1>2 DEF Pool!ReturnConnection, PoolProofs!ReturnConnection,
              Pool!ReturnWhenStopped, PoolProofs!ReturnWhenStopped,
              Pool!ReturnWhenOpen, PoolProofs!ReturnWhenOpen,
              Pool!NotifyOne, PoolProofs!NotifyOne, Pool!Blocked, PoolProofs!Blocked
  <2> QED BY <2>1 DEF PoolProofs!Next, PoolProofs!Step
<1>3. CASE Pool!CloseDrain(t)
  <2>1. PoolProofs!CloseDrain(t)
    BY <1>3 DEF Pool!CloseDrain, PoolProofs!CloseDrain, Pool!Constructing,
              PoolProofs!Constructing, Pool!Drained, PoolProofs!Drained,
              Pool!Pooled, PoolProofs!Pooled
  <2> QED BY <2>1 DEF PoolProofs!Next, PoolProofs!Step
<1>4. CASE Pool!CloseNotify(t)
  <2>1. PoolProofs!CloseNotify(t)
    BY <1>4 DEF Pool!CloseNotify, PoolProofs!CloseNotify, Pool!NotifyAll, PoolProofs!NotifyAll
  <2> QED BY <2>1 DEF PoolProofs!Next, PoolProofs!Step
<1> QED BY <1>1, <1>2, <1>3, <1>4

\* Every step of RedisMgr is one of the pool or leaves it alone.
LEMMA PoolStep == [Next]_vars => [PoolProofs!Next]_(PoolProofs!vars)
<1> SUFFICES ASSUME [Next]_vars PROVE [PoolProofs!Next]_(PoolProofs!vars)
  OBVIOUS
<1>1. CASE UNCHANGED poolVars
  BY <1>1 DEF poolVars, PoolProofs!vars
<1>2. CASE BuildPool
  BY <1>2 DEF BuildPool, Pool!Construct, Pool!ConnectFails, Pool!ConnectRejected,
              Pool!ConnectSucceeds, Pool!Constructing, PoolProofs!Next, PoolProofs!Construct,
              PoolProofs!ConnectFails, PoolProofs!ConnectRejected, PoolProofs!ConnectSucceeds,
              PoolProofs!Constructing
<1>3. ASSUME NEW t \in Threads, Borrow(t) \/ GiveBack(t) \/ ClosePool(t)
      PROVE  PoolProofs!Next
  BY <1>3, SameSteps DEF Borrow, Waiting, NoConnection, GiveBack, Release, ClosePool
<1>4. ASSUME NEW t \in Threads,
             Call(t) \/ CheckParameters(t) \/ Replied(t) \/ Refused(t) \/ Lost(t)
      PROVE  UNCHANGED poolVars
  BY <1>4 DEF Call, CheckParameters, Replied, Refused, Lost, Receive
<1> QED BY <1>1, <1>2, <1>3, <1>4 DEF Next, vars

LEMMA PoolInitially == Init => PoolProofs!IInv
<1>1. Init => PoolProofs!Init
  BY DEF Init, Pool!Init, PoolProofs!Init
<1>2. PoolProofs!Init => PoolProofs!IInv
  BY PoolProofs!InitInvariant, PoolParameters, FiniteThreads
<1> QED BY <1>1, <1>2

LEMMA PoolInvariant == PoolProofs!IInv /\ [Next]_vars => PoolProofs!IInv'
<1>1. PoolProofs!IInv /\ [PoolProofs!Next]_(PoolProofs!vars) => PoolProofs!IInv'
  BY PoolProofs!NextInvariant, PoolParameters, FiniteThreads
<1> QED BY <1>1, PoolStep

\* What RedisMgr needs to know of its pool.
LEMMA PoolFacts ==
    ASSUME PoolProofs!IInv
    PROVE  /\ Pool!TypeOK
           /\ \A t \in Threads : pc[t] = "using" <=> context[t] # NoCtx
           /\ heap = Pool!Pooled \cup Pool!Held \cup Pool!Freed
<1>1. Pool!TypeOK
  BY DEF PoolProofs!IInv, PoolProofs!TypeOK, Pool!TypeOK
<1>2. \A t \in Threads : pc[t] = "using" <=> context[t] # NoCtx
  BY DEF PoolProofs!IInv, PoolProofs!HoldsIffUsing
<1>3. heap = Pool!Pooled \cup Pool!Held \cup Pool!Freed
  BY DEF PoolProofs!IInv, PoolProofs!Ownership, PoolProofs!NoLeak, PoolProofs!Pooled,
         PoolProofs!Held, PoolProofs!Freed, Pool!Pooled, Pool!Held, Pool!Freed
<1> QED BY <1>1, <1>2, <1>3
-------------------------------------------------------------------------------
(* Redis: what a command does to the contents of a key, and its reply.     *)

Stored == Values \cup {NoValue}

Contents ==
    {Redis!Nothing} \cup [kind : {"string", "hash"}, value : Stored]
        \cup [kind : {"list"}, items : Seq(Stored) \ {<<>>}]

\* The record of nothing differs from a command and from a result.
LEMMA IdleApart ==
    /\ NoCommand \notin Redis!Commands
    /\ \A c \in Redis!Commands : c \notin Redis!Results
    /\ NoCommand \notin Redis!Results
<1>1. \A c \in Redis!Commands : c # NoCommand
  <2> SUFFICES ASSUME NEW c \in Redis!Commands PROVE c # NoCommand
    OBVIOUS
  <2>1. "op" \in DOMAIN c
    BY DEF Redis!Commands
  <2>2. "op" \notin DOMAIN NoCommand
    BY DEF NoCommand, Redis!Idle
  <2> QED BY <2>1, <2>2
<1>2. \A r \in Redis!Results : "ok" \in DOMAIN r
  <2>1. "ok" \in DOMAIN Redis!Failure
    BY DEF Redis!Failure, Redis!Result
  <2>2. \A r \in [ok : {TRUE}, value : Values \cup {NoValue}] : "ok" \in DOMAIN r
    OBVIOUS
  <2> QED BY <2>1, <2>2 DEF Redis!Results
<1>3. \A c \in Redis!Commands : "ok" \notin DOMAIN c
  BY DEF Redis!Commands
<1>4. "ok" \notin DOMAIN NoCommand
  BY DEF NoCommand, Redis!Idle
<1> QED BY <1>1, <1>2, <1>3, <1>4

LEMMA KindOfContents ==
    ASSUME NEW x \in Contents
    PROVE  /\ x.kind \in {"none", "string", "hash", "list"}
           /\ x.kind = "none" <=> x = Redis!Nothing
           /\ x.kind \in {"string", "hash"} => x.value \in Stored
           /\ x.kind = "list" => x.items \in Seq(Stored) /\ x.items # <<>>
  BY DEF Contents, Redis!Nothing

LEMMA ListContents ==
    ASSUME NEW s \in Seq(Stored)
    PROVE  Redis!List(s) \in Contents
  BY DEF Redis!List, Contents

LEMMA CommandParts ==
    ASSUME NEW c \in Redis!Commands
    PROVE  c.op \in Redis!Ops /\ c.key \in Keys /\ c.value \in Stored
  BY DEF Redis!Commands, Stored

LEMMA AfterTyped ==
    ASSUME NEW c \in Redis!Commands, NEW x \in Contents
    PROVE  Redis!After(c, x) \in Contents
<1> USE CommandParts, KindOfContents
<1>1. CASE x.kind \notin Redis!Kinds(c.op)
  BY <1>1 DEF Redis!After
<1>2. CASE x.kind \in Redis!Kinds(c.op) /\ c.op \in {"Set", "HSet", "HSetArgv", "Del"}
  <2>1. Redis!Str(c.value) \in Contents /\ Redis!Hash(c.value) \in Contents
    BY DEF Contents, Redis!Str, Redis!Hash
  <2>2. Redis!Nothing \in Contents
    BY DEF Contents
  <2>3. Redis!After(c, x) \in {Redis!Str(c.value), Redis!Hash(c.value), Redis!Nothing}
    BY <1>2 DEF Redis!After
  <2> QED BY <2>1, <2>2, <2>3
<1>3. CASE x.kind \in Redis!Kinds(c.op) /\ c.op \in {"Get", "HGet", "ExistsKey"}
  BY <1>3 DEF Redis!After
<1>4. CASE x.kind \in Redis!Kinds(c.op) /\ c.op \in {"LPush", "RPush", "LPop", "RPop"}
  <2>0. x.kind \in {"none", "list"}
    BY <1>4 DEF Redis!Kinds
  <2>1. Redis!Items(x) \in Seq(Stored)
    BY <2>0 DEF Redis!Items
  <2>2. CASE c.op = "LPush"
    <3>1. <<c.value>> \o Redis!Items(x) \in Seq(Stored)
      BY <2>1
    <3> QED BY <1>4, <2>2, <3>1, ListContents DEF Redis!After
  <2>3. CASE c.op = "RPush"
    <3>1. Append(Redis!Items(x), c.value) \in Seq(Stored)
      BY <2>1
    <3> QED BY <1>4, <2>3, <3>1, ListContents DEF Redis!After
  <2>4. CASE c.op = "LPop" /\ x # Redis!Nothing
    <3>1. Tail(x.items) \in Seq(Stored)
      BY <2>0, <2>4
    <3> QED BY <1>4, <2>4, <3>1, ListContents DEF Redis!After
  <2>5. CASE c.op = "RPop" /\ x # Redis!Nothing
    <3>1. SubSeq(x.items, 1, Len(x.items) - 1) \in Seq(Stored)
      BY <2>0, <2>5
    <3> QED BY <1>4, <2>5, <3>1, ListContents DEF Redis!After
  <2>6. CASE c.op \in {"LPop", "RPop"} /\ x = Redis!Nothing
    BY <1>4, <2>6 DEF Redis!After
  <2> QED BY <1>4, <2>2, <2>3, <2>4, <2>5, <2>6
<1> QED BY <1>1, <1>2, <1>3, <1>4 DEF Redis!Ops

LEMMA FoundTyped ==
    ASSUME NEW op \in {"Get", "HGet", "LPop", "RPop"}, NEW x \in Contents,
           x.kind \in Redis!Kinds(op), x # Redis!Nothing
    PROVE  Redis!Found(op, x) \in Stored
<1> USE KindOfContents
<1>1. CASE op \in {"Get", "HGet"}
  BY <1>1 DEF Redis!Found, Redis!Kinds
<1>2. CASE op \in {"LPop", "RPop"}
  <2>1. x.items \in Seq(Stored) /\ x.items # <<>>
    BY <1>2 DEF Redis!Kinds
  <2>2. Head(x.items) \in Stored /\ x.items[Len(x.items)] \in Stored
    BY <2>1
  <2> QED BY <1>2, <2>2 DEF Redis!Found
<1> QED BY <1>1, <1>2

LEMMA ReplyTyped ==
    ASSUME NEW c \in Redis!Commands, NEW x \in Contents
    PROVE  ServerReply(c, x) \in Replies
<1> USE CommandParts
<1>0. \A type \in Types, v \in Stored : Reply(type, v) \in Replies
  BY DEF Reply, Replies, Stored
<1>1. NoValue \in Stored /\ {"error", "status", "integer", "zero", "nil", "string"} \subseteq Types
  BY DEF Stored, Types
<1>2. CASE x.kind \notin Redis!Kinds(c.op)
  BY <1>0, <1>1, <1>2 DEF ServerReply
<1>3. CASE x.kind \in Redis!Kinds(c.op) /\ c.op \notin {"Get", "HGet", "LPop", "RPop"}
  <2>1. \E type \in {"status", "integer", "zero"} : ServerReply(c, x) = Reply(type, NoValue)
    BY <1>3 DEF ServerReply, Redis!Ops
  <2> QED BY <1>0, <1>1, <2>1
<1>4. CASE x.kind \in Redis!Kinds(c.op) /\ c.op \in {"Get", "HGet", "LPop", "RPop"}
  BY <1>0, <1>1, <1>4, FoundTyped DEF ServerReply
<1> QED BY <1>2, <1>3, <1>4

\* What a command makes of a reply of type r.type with value r.value.
Made(c, r) == IF r.type \in Accepts(c.op) THEN Redis!Result(TRUE, r.value) ELSE Redis!Failure

\* What a command tells of the server's reply is what RedisCommands answers.
LEMMA ReplyAnswers ==
    ASSUME NEW c \in Redis!Commands, NEW x \in Contents
    PROVE  Made(c, ServerReply(c, x)) = Redis!Answer(c, x)
<1> USE CommandParts
<1>0. \A type, v : Made(c, Reply(type, v)) =
         IF type \in Accepts(c.op) THEN Redis!Result(TRUE, v) ELSE Redis!Failure
  BY DEF Made, Reply
<1>1. CASE x.kind \notin Redis!Kinds(c.op)
  <2>1. "error" \notin Accepts(c.op)
    BY DEF Accepts, StringReply, StatusOk, PositiveInteger, AnyInteger, Redis!Ops
  <2>2. ServerReply(c, x) = Reply("error", NoValue)
    BY <1>1 DEF ServerReply
  <2>3. Redis!Answer(c, x) = Redis!Failure
    BY <1>1 DEF Redis!Answer
  <2> QED BY <1>0, <2>1, <2>2, <2>3
<1>2. CASE x.kind \in Redis!Kinds(c.op) /\ c.op \in Redis!Writes
  <2>1. \E type \in Accepts(c.op) : ServerReply(c, x) = Reply(type, NoValue)
    <3>1. CASE c.op = "Set"
      BY <1>2, <3>1 DEF ServerReply, Accepts, StatusOk
    <3>2. CASE c.op \in {"LPush", "RPush"}
      BY <1>2, <3>2 DEF ServerReply, Accepts, PositiveInteger
    <3>3. CASE c.op \in {"HSet", "HSetArgv"}
      <4>1. Accepts(c.op) = {"integer", "zero"}
        BY <3>3 DEF Accepts, AnyInteger
      <4>2. ServerReply(c, x) = Reply(IF x = Redis!Nothing THEN "integer" ELSE "zero", NoValue)
        BY <1>2, <3>3 DEF ServerReply
      <4> QED BY <4>1, <4>2
    <3> QED BY <1>2, <3>1, <3>2, <3>3 DEF Redis!Writes
  <2>2. Redis!Answer(c, x) = Redis!Result(TRUE, NoValue)
    BY <1>2 DEF Redis!Answer
  <2> QED BY <1>0, <2>1, <2>2
<1>3. CASE x.kind \in Redis!Kinds(c.op) /\ c.op \in {"Del", "ExistsKey"}
  <2>1. /\ Accepts(c.op) = {"integer"}
        /\ ServerReply(c, x) = Reply(IF x = Redis!Nothing THEN "zero" ELSE "integer", NoValue)
    BY <1>3 DEF ServerReply, Accepts, PositiveInteger
  <2>2. Redis!Answer(c, x) = IF x = Redis!Nothing THEN Redis!Failure ELSE Redis!Result(TRUE, NoValue)
    BY <1>3 DEF Redis!Answer, Redis!Writes
  <2>3. CASE x = Redis!Nothing
    <3>1. Made(c, Reply("zero", NoValue)) = Redis!Failure
      BY <1>0, <2>1
    <3> QED BY <2>1, <2>2, <2>3, <3>1
  <2>4. CASE x # Redis!Nothing
    <3>1. Made(c, Reply("integer", NoValue)) = Redis!Result(TRUE, NoValue)
      BY <1>0, <2>1
    <3> QED BY <2>1, <2>2, <2>4, <3>1
  <2> QED BY <2>3, <2>4
<1>4. CASE x.kind \in Redis!Kinds(c.op) /\ c.op \in {"Get", "HGet", "LPop", "RPop"}
  <2>1. /\ Accepts(c.op) = {"string"}
        /\ ServerReply(c, x) = IF x = Redis!Nothing THEN Reply("nil", NoValue)
                                ELSE Reply("string", Redis!Found(c.op, x))
    BY <1>4 DEF ServerReply, Accepts, StringReply
  <2>2. Redis!Answer(c, x) = IF x = Redis!Nothing THEN Redis!Failure
                             ELSE Redis!Result(TRUE, Redis!Found(c.op, x))
    BY <1>4 DEF Redis!Answer, Redis!Writes
  <2>3. CASE x = Redis!Nothing
    <3>1. Made(c, Reply("nil", NoValue)) = Redis!Failure
      BY <1>0, <2>1
    <3> QED BY <2>1, <2>2, <2>3, <3>1
  <2>4. CASE x # Redis!Nothing
    <3> DEFINE v == Redis!Found(c.op, x)
    <3>1. Made(c, Reply("string", v)) = Redis!Result(TRUE, v)
      BY <1>0, <2>1
    <3> QED BY <2>1, <2>2, <2>4, <3>1
  <2> QED BY <2>3, <2>4
<1> QED BY <1>1, <1>2, <1>3, <1>4 DEF Redis!Ops, Redis!Writes
-------------------------------------------------------------------------------
(* The inductive invariant: the pool's, the types (of the store as well,   *)
(* since replies come from it), and how the command of a thread and its    *)
(* place in the pool go together.                                          *)

Typed ==
    /\ broken \in SUBSET Contexts
    /\ cmd \in [Threads -> Redis!Commands \cup {NoCommand}]
    /\ sent \in [Threads -> BOOLEAN]
    /\ reply \in [Threads \cup {Member} -> Replies]
    /\ store \in [Keys -> Contents]

Linked(t) ==
    /\ cmd[t] = NoCommand => pc[t] \in {"idle", "closing"}
    /\ sent[t] => pc[t] = "using"
    /\ cmd[t] # NoCommand =>
          /\ pc[t] # "closing"
          /\ Redis!NullParameter(cmd[t]) => pc[t] = "idle"

IInv == PoolProofs!IInv /\ Typed /\ SetAlone /\ \A t \in Threads : Linked(t)

LEMMA InitInvariant == Init => IInv
<1> SUFFICES ASSUME Init PROVE IInv
  OBVIOUS
<1>1. NullReply \in Replies
  BY DEF NullReply, Reply, Replies, Types
<1>2. Typed
  <2>1. Redis!Nothing \in Contents
    BY DEF Contents
  <2>2. sent \in [Threads -> BOOLEAN] /\ broken \in SUBSET Contexts
    BY DEF Init
  <2>3. /\ cmd \in [Threads -> Redis!Commands \cup {NoCommand}]
        /\ reply \in [Threads \cup {Member} -> Replies]
        /\ store \in [Keys -> Contents]
    BY <1>1, <2>1 DEF Init
  <2> QED BY <2>2, <2>3 DEF Typed
<1>3. \A t \in Threads : pc[t] = "idle" /\ sent[t] = FALSE /\ cmd[t] = NoCommand
  BY DEF Init, Pool!Init
<1>4. \A t \in Threads : Linked(t)
  BY <1>3 DEF Linked
<1>5. SetAlone
  BY <1>3 DEF SetAlone, InSet
<1> QED BY <1>2, <1>4, <1>5, PoolInitially DEF IInv

\* A step of the pool moves other threads only from blocked to woken.
LEMMA PcMoves ==
    ASSUME Pool!TypeOK, NEW t \in Threads, NEW u \in Threads \ {t},
           \/ Pool!Wait(t) \/ Pool!GetNothing(t) \/ Pool!GetConnection(t) \/ Pool!SpuriousWakeup(t)
           \/ Pool!ReturnConnection(t) \/ Pool!CloseDrain(t) \/ Pool!CloseNotify(t)
    PROVE  pc'[u] = pc[u] \/ (pc[u] = "blocked" /\ pc'[u] = "woken")
<1> USE DEF Pool!TypeOK
<1>1. CASE \/ Pool!Wait(t) \/ Pool!GetNothing(t) \/ Pool!GetConnection(t)
           \/ Pool!SpuriousWakeup(t) \/ Pool!CloseDrain(t)
  BY <1>1 DEF Pool!Wait, Pool!GetNothing, Pool!GetConnection, Pool!SpuriousWakeup, Pool!CloseDrain
<1>2. CASE Pool!ReturnConnection(t)
  BY <1>2 DEF Pool!ReturnConnection, Pool!ReturnWhenStopped, Pool!ReturnWhenOpen,
              Pool!NotifyOne, Pool!Blocked
<1>3. CASE Pool!CloseNotify(t)
  BY <1>3 DEF Pool!CloseNotify, Pool!NotifyAll
<1> QED BY <1>1, <1>2, <1>3

\* Where the thread itself is after a step of the pool.
LEMMA PcAfter ==
    ASSUME Pool!TypeOK, NEW t \in Threads
    PROVE  /\ Pool!Wait(t) => pc[t] \in {"idle", "woken"} /\ pc'[t] = "blocked"
           /\ Pool!GetNothing(t) => pc[t] \in {"idle", "woken"} /\ pc'[t] = "idle"
           /\ Pool!GetConnection(t) => pc[t] \in {"idle", "woken"} /\ pc'[t] = "using"
           /\ Pool!SpuriousWakeup(t) => pc[t] = "blocked" /\ pc'[t] = "woken"
           /\ Pool!ReturnConnection(t) => pc[t] = "using" /\ pc'[t] = "idle"
           /\ Pool!CloseDrain(t) => pc[t] = "idle" /\ pc'[t] = "closing"
           /\ Pool!CloseNotify(t) => pc[t] = "closing" /\ pc'[t] = "idle"
<1> USE DEF Pool!TypeOK
<1>1. /\ Pool!Wait(t) => pc[t] \in {"idle", "woken"} /\ pc'[t] = "blocked"
      /\ Pool!GetNothing(t) => pc[t] \in {"idle", "woken"} /\ pc'[t] = "idle"
      /\ Pool!GetConnection(t) => pc[t] \in {"idle", "woken"} /\ pc'[t] = "using"
      /\ Pool!SpuriousWakeup(t) => pc[t] = "blocked" /\ pc'[t] = "woken"
  BY DEF Pool!Wait, Pool!GetNothing, Pool!GetConnection, Pool!SpuriousWakeup, Pool!InGetConnection
<1>2. Pool!ReturnConnection(t) => pc[t] = "using" /\ pc'[t] = "idle"
  BY DEF Pool!ReturnConnection, Pool!ReturnWhenStopped, Pool!ReturnWhenOpen,
         Pool!NotifyOne, Pool!Blocked
<1>3. /\ Pool!CloseDrain(t) => pc[t] = "idle" /\ pc'[t] = "closing"
      /\ Pool!CloseNotify(t) => pc[t] = "closing" /\ pc'[t] = "idle"
  BY DEF Pool!CloseDrain, Pool!CloseNotify, Pool!NotifyAll
<1> QED BY <1>1, <1>2, <1>3

\* Linked of the other threads survives a step of thread t.
LEMMA OthersLinked ==
    ASSUME IInv, NEW t \in Threads, Linked(t)',
           \A u \in Threads \ {t} :
              /\ cmd'[u] = cmd[u] /\ sent'[u] = sent[u]
              /\ pc'[u] = pc[u] \/ (pc[u] = "blocked" /\ pc'[u] = "woken")
    PROVE  \A u \in Threads : Linked(u)'
  BY DEF IInv, Linked

LEMMA CallInvariant ==
    ASSUME IInv, NEW t \in Threads, Call(t) \/ CheckParameters(t)
    PROVE  Typed' /\ \A u \in Threads : Linked(u)'
<1>1. /\ UNCHANGED <<pc, store, broken, sent, reply>>
      /\ \E c \in Redis!Commands \cup {NoCommand} :
            cmd' = [cmd EXCEPT ![t] = c]
  BY DEF Call, CheckParameters, poolVars
<1>2. pc[t] = "idle" /\ ~sent[t]
  BY DEF Call, CheckParameters, IInv, Linked
<1>3. Typed'
  BY <1>1 DEF IInv, Typed
<1>4. Linked(t)'
  BY <1>1, <1>2 DEF IInv, Typed, Linked
<1> QED BY <1>1, <1>3, <1>4, OthersLinked DEF IInv, Typed

LEMMA BorrowInvariant ==
    ASSUME IInv, NEW t \in Threads, Borrow(t)
    PROVE  Typed' /\ \A u \in Threads : Linked(u)'
<1>0. Pool!TypeOK
  BY PoolFacts DEF IInv
<1>1. /\ UNCHANGED <<store, broken, sent, reply>>
      /\ cmd' \in {cmd, [cmd EXCEPT ![t] = NoCommand]}
      /\ cmd[t] # NoCommand /\ ~Redis!NullParameter(cmd[t])
  BY DEF Borrow, Waiting, NoConnection
<1>2. Typed'
  BY <1>1 DEF IInv, Typed
<1>3. Linked(t)'
  <2>1. CASE Waiting(t)
    <3>1. pc'[t] \in {"blocked", "woken", "using"} /\ ~sent[t] /\ cmd' = cmd
      BY <1>0, <2>1, PcAfter DEF Waiting, IInv, Linked
    <3> QED BY <1>1, <3>1 DEF IInv, Linked
  <2>2. CASE NoConnection(t)
    <3>1. pc'[t] = "idle" /\ ~sent[t] /\ cmd'[t] = NoCommand
      BY <1>0, <2>2, PcAfter DEF NoConnection, IInv, Linked, Typed
    <3> QED BY <1>1, <3>1 DEF Linked
  <2> QED BY <2>1, <2>2 DEF Borrow
<1>4. \A u \in Threads \ {t} : pc'[u] = pc[u] \/ (pc[u] = "blocked" /\ pc'[u] = "woken")
  BY <1>0, PcMoves DEF Borrow, Waiting, NoConnection
<1> QED BY <1>1, <1>2, <1>3, <1>4, OthersLinked DEF IInv, Typed

LEMMA PlaceTyped ==
    ASSUME NEW t \in Threads
    PROVE  Place(t) \in Threads \cup {Member}
  BY DEF Place

LEMMA ReceiveInvariant ==
    ASSUME IInv, NEW t \in Threads, Replied(t) \/ Refused(t) \/ Lost(t)
    PROVE  Typed' /\ \A u \in Threads : Linked(u)'
<1>0. /\ Pool!TypeOK /\ pc[t] = "using" /\ context[t] \in Contexts
      /\ cmd[t] \in Redis!Commands
  BY PoolFacts DEF IInv, Typed, Replied, Refused, Lost, Sending, Pool!TypeOK
<1>1. PICK r \in Replies : Receive(t, r)
  <2>1. /\ Reply("error", NoValue) \in Replies
        /\ NullReply \in Replies
    BY DEF NullReply, Reply, Replies, Types
  <2>2. ServerReply(cmd[t], store[cmd[t].key]) \in Replies
    BY <1>0, ReplyTyped, CommandParts DEF IInv, Typed
  <2> QED BY <2>1, <2>2 DEF Replied, Refused, Lost
<1>2. store' \in [Keys -> Contents]
  <2>1. CASE UNCHANGED store
    BY <2>1 DEF IInv, Typed
  <2>2. CASE Execute(t)
    <3>1. Redis!After(cmd[t], store[cmd[t].key]) \in Contents
      BY <1>0, AfterTyped, CommandParts DEF IInv, Typed
    <3> QED BY <2>2, <3>1 DEF Execute, IInv, Typed
  <2> QED BY <2>1, <2>2 DEF Replied, Refused, Lost
<1>3. broken' \in SUBSET Contexts
  BY <1>0 DEF Replied, Refused, Lost, IInv, Typed
<1>4. /\ UNCHANGED <<pc, cmd>>
      /\ sent' = [sent EXCEPT ![t] = TRUE]
      /\ reply' = [reply EXCEPT ![Place(t)] = r]
  BY <1>1 DEF Receive, poolVars
<1>5. Typed'
  BY <1>2, <1>3, <1>4, PlaceTyped DEF IInv, Typed
<1>6. Linked(t)'
  BY <1>0, <1>4 DEF IInv, Linked
<1> QED BY <1>4, <1>5, <1>6, OthersLinked DEF IInv, Typed

LEMMA GiveBackInvariant ==
    ASSUME IInv, NEW t \in Threads, GiveBack(t)
    PROVE  Typed' /\ \A u \in Threads : Linked(u)'
<1>0. Pool!TypeOK
  BY PoolFacts DEF IInv
<1>1. /\ UNCHANGED <<store, broken>>
      /\ cmd' = [cmd EXCEPT ![t] = NoCommand]
      /\ sent' = [sent EXCEPT ![t] = FALSE]
      /\ reply' = [reply EXCEPT ![Place(t)] = NullReply]
      /\ Pool!ReturnConnection(t)
  BY DEF GiveBack, Release
<1>2. NullReply \in Replies
  BY DEF NullReply, Reply, Replies, Types
<1>3. Typed'
  BY <1>1, <1>2, PlaceTyped DEF IInv, Typed
<1>4. Linked(t)'
  <2>1. pc'[t] = "idle" /\ cmd'[t] = NoCommand /\ ~sent'[t]
    BY <1>0, <1>1, PcAfter DEF IInv, Typed
  <2> QED BY <2>1 DEF Linked
<1>5. \A u \in Threads \ {t} : pc'[u] = pc[u] \/ (pc[u] = "blocked" /\ pc'[u] = "woken")
  BY <1>0, <1>1, PcMoves
<1> QED BY <1>1, <1>3, <1>4, <1>5, OthersLinked DEF IInv, Typed

LEMMA CloseInvariant ==
    ASSUME IInv, NEW t \in Threads, ClosePool(t)
    PROVE  Typed' /\ \A u \in Threads : Linked(u)'
<1>0. Pool!TypeOK
  BY PoolFacts DEF IInv
<1>1. /\ UNCHANGED <<store, broken, cmd, sent, reply>> /\ cmd[t] = NoCommand
      /\ Pool!CloseDrain(t) \/ Pool!CloseNotify(t)
  BY DEF ClosePool
<1>2. Typed'
  BY <1>1 DEF IInv, Typed
<1>3. Linked(t)'
  BY <1>0, <1>1, PcAfter DEF IInv, Linked
<1>4. \A u \in Threads \ {t} : pc'[u] = pc[u] \/ (pc[u] = "blocked" /\ pc'[u] = "woken")
  BY <1>0, <1>1, PcMoves
<1> QED BY <1>1, <1>2, <1>3, <1>4, OthersLinked DEF IInv

\* A step that begins no command puts no thread into Set.
LEMMA SetStaysAlone ==
    ASSUME IInv, NEW t \in Threads, cmd' \in {cmd, [cmd EXCEPT ![t] = NoCommand]}
    PROVE  SetAlone'
<1>1. \A u \in Threads : InSet(u)' => InSet(u)
  BY DEF InSet, IInv, Typed
<1> QED BY <1>1 DEF IInv, SetAlone

LEMMA NextInvariant == IInv /\ [Next]_vars => IInv'
<1> SUFFICES ASSUME IInv, [Next]_vars PROVE IInv'
  OBVIOUS
<1>1. PoolProofs!IInv'
  BY PoolInvariant DEF IInv
<1>2. CASE BuildPool \/ UNCHANGED vars
  <2>1. UNCHANGED <<pc, store, broken, cmd, sent, reply>>
    BY <1>2 DEF BuildPool, Pool!Construct, Pool!ConnectFails, Pool!ConnectRejected,
                Pool!ConnectSucceeds, vars, poolVars
  <2> QED BY <1>1, <2>1 DEF IInv, Typed, Linked, SetAlone, InSet
<1>3. ASSUME NEW t \in Threads,
             \/ Call(t) /\ SetAlone'
             \/ CheckParameters(t) \/ Borrow(t) \/ GiveBack(t) \/ ClosePool(t)
             \/ Replied(t) \/ Refused(t) \/ Lost(t)
      PROVE  Typed' /\ SetAlone' /\ \A u \in Threads : Linked(u)'
  <2>1. Typed' /\ \A u \in Threads : Linked(u)'
    BY <1>3, CallInvariant, BorrowInvariant, ReceiveInvariant, GiveBackInvariant, CloseInvariant
  <2>2. (Call(t) /\ SetAlone') \/ cmd' \in {cmd, [cmd EXCEPT ![t] = NoCommand]}
    BY <1>3 DEF CheckParameters, Borrow, Waiting, NoConnection, GiveBack, ClosePool,
                Replied, Refused, Lost, Receive
  <2> QED BY <2>1, <2>2, SetStaysAlone
<1> QED BY <1>1, <1>2, <1>3 DEF Next, IInv

LEMMA Invariance == Spec => []IInv
  BY InitInvariant, NextInvariant, PTL DEF Spec

\* Every variable has a value it can have in the program, whatever replies
\* come; in particular a string reply always has a value.
THEOREM TypeCorrect == Spec => []TypeOK
<1>1. IInv => TypeOK
  BY PoolFacts DEF IInv, Typed, TypeOK
<1> QED BY <1>1, Invariance, PTL

\* No path of any command keeps the connection it borrowed.
THEOREM ConnectionsComeBack == Spec => []NothingKept
<1>1. IInv => NothingKept
  <2> SUFFICES ASSUME IInv PROVE NothingKept
    OBVIOUS
  <2>1. \A t \in Threads : context[t] # NoCtx => cmd[t] # NoCommand
    BY PoolFacts DEF IInv, Linked
  <2>2. Pool!Held = {context[t] : t \in {u \in Threads : cmd[u] # NoCommand /\ context[u] # NoCtx}}
    BY <2>1 DEF Pool!Held
  <2>3. heap = Pool!Pooled \cup Pool!Held \cup Pool!Freed
    BY PoolFacts DEF IInv
  <2> QED BY <2>2, <2>3 DEF NothingKept
<1> QED BY <1>1, Invariance, PTL

\* Under every mixture of commands, lost replies and broken connections the
\* pool stays what it is with any callers: no context is shared, lost or freed
\* twice, no wakeup is lost, and the contexts are leased one at a time.
THEOREM PoolUnderCommands ==
    Spec => /\ []PoolProofs!Ownership
            /\ []PoolProofs!WakeupsSuffice
            /\ PoolProofs!ImplementsLease
<1>1. Init => PoolProofs!Init
  BY DEF Init, Pool!Init, PoolProofs!Init
<1>2. Spec => PoolProofs!Spec
  BY <1>1, PoolStep, PTL DEF Spec, PoolProofs!Spec
<1>3. PoolProofs!Spec => []PoolProofs!Ownership
  BY PoolProofs!OwnershipHolds, PoolParameters, FiniteThreads
<1>4. PoolProofs!Spec => []PoolProofs!WakeupsSuffice
  BY PoolProofs!WakeupsHold, PoolParameters, FiniteThreads
<1>5. PoolProofs!Spec => PoolProofs!ImplementsLease
  BY PoolProofs!PoolImplementsLease, PoolParameters, FiniteThreads
<1> QED BY <1>2, <1>3, <1>4, <1>5
-------------------------------------------------------------------------------
(* The refinement of RedisCommands: a command takes effect when its reply  *)
(* arrives, and from then on stands for what it will tell.                 *)

OutMap == [t \in Threads |-> IF sent[t] THEN Told(t) ELSE cmd[t]]

\* The two instances of RedisCommands speak of the same commands.
LEMMA SameWords ==
    /\ Atomic!Idle = NoCommand
    /\ Atomic!Commands = Redis!Commands
    /\ Atomic!Results = Redis!Results
    /\ Atomic!Failure = Redis!Failure
    /\ \A c : Atomic!NullParameter(c) <=> Redis!NullParameter(c)
<1>1. Atomic!Idle = NoCommand
  BY DEF Atomic!Idle, NoCommand, Redis!Idle
<1>2. Atomic!Commands = Redis!Commands
  BY DEF Atomic!Commands, Redis!Commands, Atomic!Ops, Redis!Ops, Atomic!Writes, Redis!Writes
<1>3. Atomic!Failure = Redis!Failure
  BY DEF Atomic!Failure, Redis!Failure, Atomic!Result, Redis!Result
<1>4. Atomic!Results = Redis!Results
  BY <1>3 DEF Atomic!Results, Redis!Results
<1>5. \A c : Atomic!NullParameter(c) <=> Redis!NullParameter(c)
  BY DEF Atomic!NullParameter, Redis!NullParameter
<1> QED BY <1>1, <1>2, <1>3, <1>4, <1>5

LEMMA SameEffects ==
    ASSUME NEW c, NEW x
    PROVE  Atomic!After(c, x) = Redis!After(c, x) /\ Atomic!Answer(c, x) = Redis!Answer(c, x)
<1>1. \A op : Atomic!Kinds(op) = Redis!Kinds(op)
  BY DEF Atomic!Kinds, Redis!Kinds
<1>2. Atomic!Nothing = Redis!Nothing
  BY DEF Atomic!Nothing, Redis!Nothing
<1>3. \A s : Atomic!List(s) = Redis!List(s)
  BY <1>2 DEF Atomic!List, Redis!List
<1>4. Atomic!Items(x) = Redis!Items(x)
  BY <1>2 DEF Atomic!Items, Redis!Items
<1>5. Atomic!After(c, x) = Redis!After(c, x)
  BY <1>1, <1>2, <1>3, <1>4 DEF Atomic!After, Redis!After, Atomic!Str, Redis!Str, Atomic!Hash, Redis!Hash
<1>6. Atomic!Answer(c, x) = Redis!Answer(c, x)
  BY <1>1, <1>2 DEF Atomic!Answer, Redis!Answer, Atomic!Failure, Redis!Failure,
                    Atomic!Result, Redis!Result, Atomic!Writes, Redis!Writes,
                    Atomic!Found, Redis!Found
<1> QED BY <1>5, <1>6

LEMMA Mapping == Atomic!commandVars = <<store, OutMap>>
BY DEF Atomic!commandVars, OutMap

\* The replies of two threads in a command have different places: only one
\* thread is in Set.
LEMMA PlacesApart ==
    ASSUME IInv, NEW t \in Threads, NEW u \in Threads \ {t},
           cmd[t] # NoCommand, cmd[u] # NoCommand
    PROVE  Place(t) # Place(u)
  BY MemberNotThread DEF IInv, SetAlone, InSet, Place

\* A step of thread t leaves what the other threads stand for.
LEMMA OthersStand ==
    ASSUME IInv, NEW t \in Threads,
           \A p \in Threads \cup {Member} :
               reply'[p] = reply[p] \/ (p = Place(t) /\ cmd[t] # NoCommand),
           \A u \in Threads \ {t} : cmd'[u] = cmd[u] /\ sent'[u] = sent[u]
    PROVE  \A u \in Threads \ {t} : OutMap'[u] = OutMap[u]
<1> SUFFICES ASSUME NEW u \in Threads \ {t} PROVE OutMap'[u] = OutMap[u]
  OBVIOUS
<1>1. CASE ~sent[u]
  BY <1>1 DEF OutMap
<1>2. CASE sent[u]
  <2>1. cmd[u] # NoCommand
    BY <1>2 DEF IInv, Linked
  <2>2. Place(u)' = Place(u)
    BY DEF Place
  <2>3. reply'[Place(u)] = reply[Place(u)]
    BY <2>1, PlacesApart, PlaceTyped DEF IInv, Typed
  <2>4. Told(u)' = Told(u)
    BY <2>2, <2>3 DEF Told
  <2> QED BY <1>2, <2>4 DEF OutMap
<1> QED BY <1>1, <1>2

\* A step of t after which it stands for v.
LEMMA OutBecomes ==
    ASSUME NEW t \in Threads, NEW v, OutMap'[t] = v,
           \A u \in Threads \ {t} : OutMap'[u] = OutMap[u]
    PROVE  OutMap' = [OutMap EXCEPT ![t] = v]
  BY DEF OutMap

LEMMA InitialCommands == Init => Atomic!CommandsInit
<1> SUFFICES ASSUME Init PROVE Atomic!CommandsInit
  OBVIOUS
<1>1. OutMap = [t \in Threads |-> NoCommand]
  BY DEF Init, OutMap
<1>2. store = [k \in Keys |-> Atomic!Nothing]
  BY DEF Init, Redis!Nothing, Atomic!Nothing
<1> QED BY <1>1, <1>2, SameWords DEF Atomic!CommandsInit, OutMap

LEMMA CallBegins ==
    ASSUME IInv, NEW t \in Threads, Call(t)
    PROVE  Atomic!Begin(t)
<1>1. PICK c \in Redis!Commands : cmd' = [cmd EXCEPT ![t] = c]
  BY DEF Call
<1>2. UNCHANGED <<store, sent, reply>> /\ cmd[t] = NoCommand /\ ~sent[t]
  BY DEF Call, IInv, Linked
<1>3. OutMap[t] = NoCommand /\ OutMap'[t] = c
  BY <1>1, <1>2 DEF OutMap, IInv, Typed
<1>4. \A u \in Threads \ {t} : OutMap'[u] = OutMap[u]
  BY <1>1, <1>2, OthersStand DEF IInv, Typed
<1>5. OutMap' = [OutMap EXCEPT ![t] = c]
  BY <1>3, <1>4, OutBecomes
<1> QED BY <1>2, <1>3, <1>5, SameWords DEF Atomic!Begin, OutMap

\* A command that never reached Redis returns.
LEMMA GivesUp ==
    ASSUME IInv, NEW t \in Threads, CheckParameters(t) \/ (Borrow(t) /\ NoConnection(t))
    PROVE  Atomic!Fail(t)
<1>1. /\ UNCHANGED <<store, sent, reply>> /\ cmd[t] # NoCommand
      /\ cmd' = [cmd EXCEPT ![t] = NoCommand]
  BY DEF CheckParameters, Borrow, NoConnection
<1>2. ~sent[t]
  BY PoolFacts, PcAfter DEF CheckParameters, Borrow, NoConnection, IInv, Linked
<1>3. OutMap[t] = cmd[t] /\ cmd[t] \in Redis!Commands /\ OutMap'[t] = NoCommand
  BY <1>1, <1>2 DEF OutMap, IInv, Typed
<1>4. \A u \in Threads \ {t} : OutMap'[u] = OutMap[u]
  BY <1>1, OthersStand DEF IInv, Typed
<1>5. OutMap' = [OutMap EXCEPT ![t] = NoCommand]
  BY <1>3, <1>4, OutBecomes
<1> QED BY <1>1, <1>3, <1>5, SameWords DEF Atomic!Fail, OutMap

\* The reply decides what the command stands for.
LEMMA ReceivedStands ==
    ASSUME IInv, NEW t \in Threads, NEW r, Sending(t), Receive(t, r)
    PROVE  /\ OutMap[t] = cmd[t] /\ cmd[t] \in Redis!Commands /\ ~Redis!NullParameter(cmd[t])
           /\ OutMap' = [OutMap EXCEPT ![t] = Made(cmd[t], r)]
<1>1. /\ ~sent[t] /\ cmd[t] \in Redis!Commands /\ cmd[t] # NoCommand
      /\ ~Redis!NullParameter(cmd[t])
  BY DEF Sending, IInv, Typed, Linked
<1>2. /\ reply' = [reply EXCEPT ![Place(t)] = r] /\ sent' = [sent EXCEPT ![t] = TRUE]
      /\ cmd' = cmd
  BY DEF Receive
<1>3. Told(t)' = Made(cmd[t], r)
  <2>1. Place(t)' = Place(t)
    BY <1>2 DEF Place
  <2>2. reply'[Place(t)] = r
    BY <1>2, PlaceTyped DEF IInv, Typed
  <2>3. Told(t)' = IF reply'[Place(t)].type \in Accepts(cmd[t].op)
                   THEN Redis!Result(TRUE, reply'[Place(t)].value) ELSE Redis!Failure
    BY <1>2, <2>1 DEF Told
  <2> QED BY <2>2, <2>3 DEF Made
<1>4. OutMap'[t] = Made(cmd[t], r)
  BY <1>2, <1>3 DEF OutMap, IInv, Typed
<1>5. \A u \in Threads \ {t} : OutMap'[u] = OutMap[u]
  <2>1. \A u \in Threads \ {t} : cmd'[u] = cmd[u] /\ sent'[u] = sent[u]
    BY <1>2 DEF IInv, Typed
  <2>2. \A p \in Threads \cup {Member} : reply'[p] = reply[p] \/ p = Place(t)
    BY <1>2 DEF IInv, Typed
  <2> QED BY <1>1, <2>1, <2>2, OthersStand
<1> QED BY <1>1, <1>4, <1>5, OutBecomes DEF OutMap

\* TakeEffect, in terms of OutMap.
LEMMA EffectSeen ==
    ASSUME NEW t,
           OutMap[t] \in Atomic!Commands, ~Atomic!NullParameter(OutMap[t]),
           store' = [store EXCEPT ![OutMap[t].key] = Atomic!After(OutMap[t], @)],
           \/ OutMap' = [OutMap EXCEPT ![t] = Atomic!Failure]
           \/ OutMap' = [OutMap EXCEPT ![t] = Atomic!Answer(OutMap[t], store[OutMap[t].key])]
    PROVE  Atomic!TakeEffect(t)
<1>1. OutMap' \in {[OutMap EXCEPT ![t] = r] :
                      r \in {Atomic!Failure, Atomic!Answer(OutMap[t], store[OutMap[t].key])}}
  OBVIOUS
<1> QED BY <1>1 DEF Atomic!TakeEffect, OutMap

LEMMA ReplyTakesEffect ==
    ASSUME IInv, NEW t \in Threads, Replied(t) \/ Refused(t) \/ Lost(t)
    PROVE  Atomic!TakeEffect(t) \/ Atomic!Fail(t)
<1> DEFINE k == cmd[t].key
<1>0. cmd[t] \in Redis!Commands /\ store[k] \in Contents
  BY CommandParts DEF Replied, Refused, Lost, Sending, IInv, Typed
<1>1. "null" \notin Accepts(cmd[t].op) /\ "error" \notin Accepts(cmd[t].op)
  BY <1>0, CommandParts DEF Accepts, StringReply, StatusOk, PositiveInteger, AnyInteger, Redis!Ops
<1>2. \A type \in {"null", "error"} : Made(cmd[t], Reply(type, NoValue)) = Redis!Failure
  BY <1>1 DEF Made, Reply
<1>3. Execute(t) => store' = [store EXCEPT ![k] = Atomic!After(cmd[t], @)]
  BY SameEffects DEF Execute
<1> HIDE DEF k
<1>4. CASE Replied(t)
  <2>1. /\ OutMap[t] = cmd[t] /\ ~Redis!NullParameter(cmd[t])
        /\ OutMap' = [OutMap EXCEPT ![t] = Made(cmd[t], ServerReply(cmd[t], store[k]))]
    BY <1>4, ReceivedStands DEF Replied, k
  <2>2. Made(cmd[t], ServerReply(cmd[t], store[k])) = Atomic!Answer(cmd[t], store[k])
    BY <1>0, ReplyAnswers, SameEffects
  <2>3. store' = [store EXCEPT ![OutMap[t].key] = Atomic!After(OutMap[t], @)]
    BY <1>3, <1>4, <2>1 DEF Replied, k
  <2>4. OutMap' = [OutMap EXCEPT ![t] = Atomic!Answer(OutMap[t], store[OutMap[t].key])]
    BY <2>1, <2>2 DEF k
  <2> QED BY <1>0, <2>1, <2>3, <2>4, SameWords, EffectSeen
<1>5. CASE Refused(t)
  <2>1. OutMap[t] = cmd[t] /\ OutMap' = [OutMap EXCEPT ![t] = Redis!Failure]
    BY <1>2, <1>5, ReceivedStands DEF Refused
  <2>2. Atomic!Fail(t)
    BY <1>0, <1>5, <2>1, SameWords DEF Refused, Atomic!Fail, OutMap
  <2> QED BY <2>2
<1>6. CASE Lost(t)
  <2>1. /\ OutMap[t] = cmd[t] /\ ~Redis!NullParameter(cmd[t])
        /\ OutMap' = [OutMap EXCEPT ![t] = Redis!Failure]
    BY <1>2, <1>6, ReceivedStands DEF Lost, NullReply
  <2>2. CASE UNCHANGED store
    BY <1>0, <2>1, <2>2, SameWords DEF Atomic!Fail, OutMap
  <2>3. CASE Execute(t)
    <3>1. store' = [store EXCEPT ![OutMap[t].key] = Atomic!After(OutMap[t], @)]
      BY <1>3, <2>1, <2>3 DEF k
    <3> QED BY <1>0, <2>1, <3>1, SameWords, EffectSeen
  <2> QED BY <1>6, <2>2, <2>3 DEF Lost
<1> QED BY <1>4, <1>5, <1>6

LEMMA GiveBackReturns ==
    ASSUME IInv, NEW t \in Threads, GiveBack(t)
    PROVE  Atomic!Return(t)
<1>1. /\ UNCHANGED store /\ sent[t] /\ cmd[t] \in Redis!Commands /\ cmd[t] # NoCommand
      /\ cmd' = [cmd EXCEPT ![t] = NoCommand]
      /\ sent' = [sent EXCEPT ![t] = FALSE]
      /\ reply' = [reply EXCEPT ![Place(t)] = NullReply]
  BY DEF GiveBack, IInv, Typed, Linked
<1>2. OutMap[t] \in Redis!Results
  <2>1. reply[Place(t)].value \in Values \cup {NoValue}
    BY PlaceTyped DEF IInv, Typed, Replies
  <2>2. Redis!Result(TRUE, reply[Place(t)].value) \in Redis!Results
    BY <2>1 DEF Redis!Result, Redis!Results
  <2>3. Redis!Failure \in Redis!Results
    BY DEF Redis!Results
  <2> QED BY <1>1, <2>2, <2>3 DEF OutMap, Told
<1>3. OutMap'[t] = NoCommand
  BY <1>1 DEF OutMap, IInv, Typed
<1>4. \A u \in Threads \ {t} : OutMap'[u] = OutMap[u]
  <2>1. \A u \in Threads \ {t} : cmd'[u] = cmd[u] /\ sent'[u] = sent[u]
    BY <1>1 DEF IInv, Typed
  <2>2. \A p \in Threads \cup {Member} : reply'[p] = reply[p] \/ p = Place(t)
    BY <1>1 DEF IInv, Typed
  <2> QED BY <1>1, <2>1, <2>2, OthersStand
<1>5. OutMap' = [OutMap EXCEPT ![t] = NoCommand]
  BY <1>3, <1>4, OutBecomes
<1> QED BY <1>1, <1>2, <1>5, SameWords DEF Atomic!Return, OutMap

LEMMA CommandsStep == IInv /\ [Next]_vars => [Atomic!CommandsNext]_(Atomic!commandVars)
<1> SUFFICES ASSUME IInv, [Next]_vars PROVE [Atomic!CommandsNext]_(Atomic!commandVars)
  OBVIOUS
<1>1. UNCHANGED <<store, cmd, sent, reply>> => UNCHANGED Atomic!commandVars
  <2>1. UNCHANGED <<cmd, sent, reply>> => OutMap' = OutMap
    BY DEF OutMap, Told, Place
  <2> QED BY <2>1 DEF Atomic!commandVars, OutMap
<1>2. CASE BuildPool \/ UNCHANGED vars
  BY <1>1, <1>2 DEF BuildPool, vars
<1>3. ASSUME NEW t \in Threads, ClosePool(t) \/ (Borrow(t) /\ Waiting(t))
      PROVE  UNCHANGED <<store, cmd, sent, reply>>
  BY <1>3 DEF ClosePool, Borrow, Waiting
<1>4. ASSUME NEW t \in Threads,
             \/ Call(t) \/ CheckParameters(t) \/ (Borrow(t) /\ NoConnection(t)) \/ GiveBack(t)
             \/ Replied(t) \/ Refused(t) \/ Lost(t)
      PROVE  Atomic!CommandsNext
  BY <1>4, CallBegins, GivesUp, GiveBackReturns, ReplyTakesEffect DEF Atomic!CommandsNext
<1>5. ASSUME NEW t \in Threads, Borrow(t) PROVE Waiting(t) \/ NoConnection(t)
  BY <1>5 DEF Borrow
<1> QED BY <1>1, <1>2, <1>3, <1>4, <1>5 DEF Next

\* Each command takes effect at most once, whatever is lost, and what it
\* tells its caller is what it did: RedisMgr implements RedisCommands.
THEOREM MgrImplementsCommands == Spec => ImplementsCommands
  BY InitialCommands, CommandsStep, Invariance, PTL DEF Spec, ImplementsCommands, Atomic!CommandsSpec
===============================================================================
