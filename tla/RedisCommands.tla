----------------------------- MODULE RedisCommands -----------------------------
(***************************************************************************)
(* What RedisMgr promises its callers: a command takes effect at most once *)
(* on the store, in one step between call and return; if it reports        *)
(* success it has taken effect and its answer is that of the store at that *)
(* moment; if it reports failure it may or may not have taken effect.      *)
(*                                                                         *)
(* The store is Redis itself, seen through the commands of RedisMgr: a key *)
(* holds nothing, a string, a list or a hash (of one field).               *)
(***************************************************************************)
EXTENDS Naturals, Sequences

CONSTANTS Threads, Keys, Values, NoValue

VARIABLES
    store,      \* [Keys -> contents]
    out         \* out[t]: Idle, the command called, or its result

commandVars == <<store, out>>

Ops == {"Get", "Set", "LPush", "LPop", "RPush", "RPop", "HSet", "HSetArgv",
        "HGet", "Del", "ExistsKey"}

\* The commands that carry a value.
Writes == {"Set", "LPush", "RPush", "HSet", "HSetArgv"}

\* HSetArgv takes pointers, and NoValue is its nullptr.
Commands == {c \in [op : Ops, key : Keys, value : Values \cup {NoValue}] :
                /\ c.op \notin Writes => c.value = NoValue
                /\ c.op \in Writes \ {"HSetArgv"} => c.value # NoValue}

NullParameter(c) == c.op = "HSetArgv" /\ c.value = NoValue

Nothing == [kind |-> "none"]
Str(v)  == [kind |-> "string", value |-> v]
Hash(v) == [kind |-> "hash", value |-> v]
List(s) == IF s = <<>> THEN Nothing ELSE [kind |-> "list", items |-> s]

Items(x) == IF x = Nothing THEN <<>> ELSE x.items

\* The kinds of contents on which a command works: on others Redis answers
\* with an error and changes nothing.
Kinds(op) ==
    CASE op = "Get"                      -> {"none", "string"}
      [] op \in {"LPush", "RPush", "LPop", "RPop"} -> {"none", "list"}
      [] op \in {"HSet", "HSetArgv", "HGet"} -> {"none", "hash"}
      [] op \in {"Set", "Del", "ExistsKey"}  -> {"none", "string", "list", "hash"}

\* The contents x after command c.
After(c, x) ==
    IF x.kind \notin Kinds(c.op) THEN x ELSE
    CASE c.op = "Set"               -> Str(c.value)
      [] c.op \in {"HSet", "HSetArgv"} -> Hash(c.value)
      [] c.op = "LPush"             -> List(<<c.value>> \o Items(x))
      [] c.op = "RPush"             -> List(Append(Items(x), c.value))
      [] c.op = "LPop" /\ x # Nothing -> List(Tail(x.items))
      [] c.op = "RPop" /\ x # Nothing -> List(SubSeq(x.items, 1, Len(x.items) - 1))
      [] c.op = "Del"               -> Nothing
      [] OTHER                      -> x

\* The value that a reading command finds in x.
Found(op, x) ==
    CASE op \in {"Get", "HGet"} -> x.value
      [] op = "LPop"            -> Head(x.items)
      [] op = "RPop"            -> x.items[Len(x.items)]

Result(ok, value) == [ok |-> ok, value |-> value]
Failure == Result(FALSE, NoValue)

\* The result that reports the effect of c on x.
Answer(c, x) ==
    IF x.kind \notin Kinds(c.op) THEN Failure
    ELSE IF c.op \in Writes THEN Result(TRUE, NoValue)
    ELSE IF x = Nothing THEN Failure
    ELSE Result(TRUE, IF c.op \in {"Del", "ExistsKey"} THEN NoValue ELSE Found(c.op, x))

Idle == [idle |-> TRUE]
Results == {Failure} \cup [ok : {TRUE}, value : Values \cup {NoValue}]

CommandsInit ==
    /\ store = [k \in Keys |-> Nothing]
    /\ out = [t \in Threads |-> Idle]

Begin(t) ==
    /\ out[t] = Idle
    /\ \E c \in Commands : out' = [out EXCEPT ![t] = c]
    /\ UNCHANGED store

\* The command takes effect, and its result is either what it found or a
\* failure.
TakeEffect(t) ==
    /\ out[t] \in Commands /\ ~NullParameter(out[t])
    /\ store' = [store EXCEPT ![out[t].key] = After(out[t], @)]
    /\ out' \in {[out EXCEPT ![t] = r] : r \in {Failure, Answer(out[t], store[out[t].key])}}

Fail(t) ==
    /\ out[t] \in Commands
    /\ out' \in {[out EXCEPT ![t] = r] : r \in {Failure, Idle}}
    /\ UNCHANGED store

Return(t) ==
    /\ out[t] \in Results
    /\ out' = [out EXCEPT ![t] = Idle]
    /\ UNCHANGED store

CommandsNext == \E t \in Threads : Begin(t) \/ TakeEffect(t) \/ Fail(t) \/ Return(t)

CommandsSpec == CommandsInit /\ [][CommandsNext]_commandVars
===============================================================================
