------------------------------- MODULE RedisMgr -------------------------------
(***************************************************************************)
(* Sources/RedisMgr.cpp: the commands, called by several threads, on the   *)
(* connections of RedisConPool.  A command borrows a connection, sends its *)
(* request and waits for the reply, decides from the reply what it tells   *)
(* its caller, and returns the connection, on every path.                  *)
(*                                                                         *)
(* Redis is the store of RedisCommands.  What hiredis may return is any    *)
(* reply of the server, an error reply, or NULL when the connection fails, *)
(* before or after the server has executed the command; the error stays    *)
(* in the context, which goes back to the pool all the same.               *)
(***************************************************************************)
EXTENDS Naturals, Sequences, FiniteSets

CONSTANTS
    Threads, Contexts, NoCtx, PoolSize,     \* see RedisConPool
    Keys, Values, NoValue,                  \* see RedisCommands
    Member,         \* names the place of the reply of Set: _reply
    MaxItems        \* a bound of the model: the length of a list

ASSUME PoolParameters == IsFiniteSet(Threads) /\ NoCtx \notin Contexts /\ PoolSize \in Nat
ASSUME MemberNotThread == Member \notin Threads

VARIABLES
    tried, heap, frees, connections_, b_stop_, pc, context,     \* the pool
    store,      \* what Redis holds
    broken,     \* the contexts whose err is set
    cmd,        \* cmd[t]: the command thread t is in, or NoCommand
    sent,       \* sent[t]: redisCommand of that command has returned
    reply       \* the reply in the local variable of each thread, and in _reply

Pool == INSTANCE RedisConPool
Redis == INSTANCE RedisCommands WITH out <- cmd

poolVars == <<tried, heap, frees, connections_, b_stop_, pc, context>>
vars == <<poolVars, store, broken, cmd, sent, reply>>

NoCommand == Redis!Idle

Reply(type, value) == [type |-> type, value |-> value]
NullReply == Reply("null", NoValue)

Types == {"null", "string", "nil", "integer", "zero", "status", "error"}
Replies == [type : Types, value : Values \cup {NoValue}]

Init ==
    /\ Pool!Init
    /\ store = [k \in Keys |-> Redis!Nothing]
    /\ broken = {}
    /\ cmd = [t \in Threads |-> NoCommand]
    /\ sent = [t \in Threads |-> FALSE]
    /\ reply = [p \in Threads \cup {Member} |-> NullReply]

-------------------------------------------------------------------------------
(* Redis.                                                                  *)

\* The reply to c on a key with contents x: "integer" is a positive number.
ServerReply(c, x) ==
    IF x.kind \notin Redis!Kinds(c.op) THEN Reply("error", NoValue) ELSE
    CASE c.op = "Set"                           -> Reply("status", NoValue)
      [] c.op \in {"LPush", "RPush"}            -> Reply("integer", NoValue)
      [] c.op \in {"HSet", "HSetArgv"}          ->
            Reply(IF x = Redis!Nothing THEN "integer" ELSE "zero", NoValue)
      [] c.op \in {"Del", "ExistsKey"}          ->
            Reply(IF x = Redis!Nothing THEN "zero" ELSE "integer", NoValue)
      [] c.op \in {"Get", "HGet", "LPop", "RPop"} ->
            IF x = Redis!Nothing THEN Reply("nil", NoValue)
                                 ELSE Reply("string", Redis!Found(c.op, x))

-------------------------------------------------------------------------------
(* The commands.                                                           *)

\* The tests of reply->type, and of reply->integer, by which a command tells
\* success: of those that read a value, of SET (OK is the only status it gets),
\* of LPUSH, RPUSH, DEL and EXISTS (more than 0), and of HSET (any number).
StringReply == {"string"}
StatusOk == {"status"}
PositiveInteger == {"integer"}

\* Mutated form of AnyInteger: a lost reply or an error counts as a number.
IntegerOrFailure == {"integer", "zero", "null", "error"}

AnyInteger == {"integer", "zero"}

\* The types of a reply that a command takes for success.
Accepts(op) ==
    CASE op \in {"Get", "LPop", "RPop", "HGet"}          -> StringReply
      [] op = "Set"                                      -> StatusOk
      [] op \in {"LPush", "RPush", "Del", "ExistsKey"}   -> PositiveInteger
      [] op \in {"HSet", "HSetArgv"}                     -> AnyInteger

\* Mutated form of Place: every command keeps its reply in the member.
PlaceInMember(t) == Member

\* The variable that holds the reply: _reply in Set, a local in the others.
Place(t) == IF cmd[t].op = "Set" THEN Member ELSE t

\* What the command tells its caller; the text of a string is copied, since
\* the reply is freed.
Told(t) ==
    LET r == reply[Place(t)]
    IN  IF r.type \in Accepts(cmd[t].op) THEN Redis!Result(TRUE, r.value) ELSE Redis!Failure

Call(t) ==
    /\ ~Pool!Constructing
    /\ pc[t] = "idle" /\ cmd[t] = NoCommand
    /\ \E c \in Redis!Commands : cmd' = [cmd EXCEPT ![t] = c]
    /\ UNCHANGED <<poolVars, store, broken, sent, reply>>

\* The check of the pointers, before getConnection.
CheckParameters(t) ==
    /\ cmd[t] # NoCommand /\ Redis!NullParameter(cmd[t])
    /\ cmd' = [cmd EXCEPT ![t] = NoCommand]
    /\ UNCHANGED <<poolVars, store, broken, sent, reply>>

\* getConnection gave a connection, or the thread blocks in it.
Waiting(t) ==
    /\ Pool!Wait(t) \/ Pool!GetConnection(t) \/ Pool!SpuriousWakeup(t)
    /\ UNCHANGED cmd

\* Mutated form of NoConnection: nullptr is used like a connection.
UncheckedConnection(t) ==
    /\ Pool!InGetConnection(t)
    /\ b_stop_ /\ connections_ = <<>>
    /\ pc' = [pc EXCEPT ![t] = "using"]
    /\ UNCHANGED <<tried, heap, frees, connections_, b_stop_, context, cmd>>

\* getConnection gave nullptr: the command fails.
NoConnection(t) ==
    /\ Pool!GetNothing(t)
    /\ cmd' = [cmd EXCEPT ![t] = NoCommand]

\* getConnection inside a command.
Borrow(t) ==
    /\ cmd[t] # NoCommand /\ ~Redis!NullParameter(cmd[t])
    /\ Waiting(t) \/ NoConnection(t)
    /\ UNCHANGED <<store, broken, sent, reply>>

\* redisCommand or redisCommandArgv returns with reply r.
Receive(t, r) ==
    /\ reply' = [reply EXCEPT ![Place(t)] = r]
    /\ sent' = [sent EXCEPT ![t] = TRUE]
    /\ UNCHANGED <<poolVars, cmd>>

\* The server executes the command of t.
Execute(t) ==
    /\ store' = [store EXCEPT ![cmd[t].key] = Redis!After(cmd[t], @)]
    /\ \A k \in Keys : store'[k].kind = "list" => Len(store'[k].items) <= MaxItems

Sending(t) == pc[t] = "using" /\ ~sent[t] /\ cmd[t] # NoCommand

\* The command is executed and its reply received.
Replied(t) ==
    /\ Sending(t) /\ context[t] \notin broken
    /\ Execute(t)
    /\ Receive(t, ServerReply(cmd[t], store[cmd[t].key]))
    /\ UNCHANGED broken

\* The server refuses the command (it is loading, out of memory, ...).
Refused(t) ==
    /\ Sending(t) /\ context[t] \notin broken
    /\ Receive(t, Reply("error", NoValue))
    /\ UNCHANGED <<store, broken>>

\* The connection fails, or failed before: NULL, with or without an effect.
Lost(t) ==
    /\ Sending(t)
    /\ Receive(t, NullReply)
    /\ \/ UNCHANGED store
       \/ context[t] \notin broken /\ Execute(t)
    /\ broken' = broken \cup {context[t]}

\* Mutated form of Release: the path of a NULL reply forgets the connection.
ReleaseUnlessNull(t) ==
    IF reply[Place(t)] # NullReply
    THEN Pool!ReturnConnection(t)
    ELSE /\ pc' = [pc EXCEPT ![t] = "idle"]
         /\ UNCHANGED <<tried, heap, frees, connections_, b_stop_, context>>

\* returnConnection at the end of each path of a command.
Release(t) == Pool!ReturnConnection(t)

\* The command frees its reply, returns its connection and returns.
GiveBack(t) ==
    /\ sent[t]
    /\ Release(t)
    /\ cmd' = [cmd EXCEPT ![t] = NoCommand]
    /\ sent' = [sent EXCEPT ![t] = FALSE]
    /\ reply' = [reply EXCEPT ![Place(t)] = NullReply]
    /\ UNCHANGED <<store, broken>>

BuildPool ==
    /\ Pool!Construct
    /\ UNCHANGED <<store, broken, cmd, sent, reply>>

\* The pool's Close, by a thread that is not in a command.
ClosePool(t) ==
    /\ cmd[t] = NoCommand
    /\ Pool!CloseDrain(t) \/ Pool!CloseNotify(t)
    /\ UNCHANGED <<store, broken, cmd, sent, reply>>

\* What the model assumes of the callers, since the code does not see to it:
\* no two threads are in Set at once.  The second would read and free through
\* _reply what belongs to the first, and the behaviour would be undefined.
InSet(t) == cmd[t] # NoCommand /\ cmd[t].op = "Set"
SetAlone == \A t, u \in Threads : InSet(t) /\ InSet(u) => t = u

Next ==
    \/ BuildPool
    \/ \E t \in Threads :
          \/ Call(t) /\ SetAlone'
          \/ CheckParameters(t) \/ Borrow(t) \/ GiveBack(t) \/ ClosePool(t)
          \/ Replied(t) \/ Refused(t) \/ Lost(t)

Spec == Init /\ [][Next]_vars
-------------------------------------------------------------------------------
(* Properties                                                              *)

\* Every variable has a value it can have in the program.
TypeOK ==
    /\ Pool!TypeOK
    /\ broken \in SUBSET Contexts
    /\ cmd \in [Threads -> Redis!Commands \cup {NoCommand}]
    /\ sent \in [Threads -> BOOLEAN]
    /\ reply \in [Threads \cup {Member} -> Replies]

\* The commands implement RedisCommands: each takes effect at most once
\* although replies are lost and connections stay broken, and what it tells
\* its caller is what it did.
Atomic == INSTANCE RedisCommands WITH
            out <- [t \in Threads |-> IF sent[t] THEN Told(t) ELSE cmd[t]]

ImplementsCommands == Atomic!CommandsSpec

\* A context that is neither queued nor freed belongs to a command under way:
\* no path of any command, NULL and error replies included, keeps what it
\* borrowed.
NothingKept ==
    LET borrowers == {t \in Threads : cmd[t] # NoCommand /\ context[t] # NoCtx}
    IN  heap = Pool!Pooled \cup Pool!Freed \cup {context[t] : t \in borrowers}
===============================================================================
