--------------------------------- MODULE ChatDb ---------------------------------
(***************************************************************************)
(* The procedures of sql/create_tables.sql, called by several sessions:    *)
(* reg_worker_node, one transaction, and create_shard, whose statements    *)
(* commit one by one.  Each statement is a step.  The database is InnoDB   *)
(* with its default isolation: the EXISTS reads a snapshot without locks,  *)
(* INSERT and UPDATE lock the row they write until the transaction ends.   *)
(***************************************************************************)
EXTENDS Naturals, Sequences

CONSTANTS
    Sessions,
    Workers,    \* pairs of a datacenter_id and a worker_id
    Hosts,      \* host_name, ip_address and port of a worker, or of a shard
    Shards,
    NoHost, Nobody

ASSUME NoHostNotHost == NoHost \notin Hosts
ASSUME NobodyNotSession == Nobody \notin Sessions

VARIABLES
    worker_nodes,       \* the committed rows
    lock,               \* lock[w]: the session that has the row of w locked
    users_, user_profiles_,     \* the shards that have these tables
    shard_config,       \* shard_config[k]: the node of shard k, or NoHost
    call,               \* call[s]: the procedure session s is in
    p_result            \* p_result[s]: what its last reg_worker_node told it

registry == <<worker_nodes, lock>>
shards == <<users_, user_profiles_, shard_config>>
vars == <<registry, shards, call, p_result>>

NoCall == [proc |-> "none"]

Registrations ==
    [proc : {"reg_worker_node"}, step : {"exists", "write", "commit"},
     id : Workers, host : Hosts, found : BOOLEAN]

Creations == [proc : {"create_shard"}, step : 1..3, id : Shards, host : Hosts]

Rows(w) == {row \in worker_nodes : row.id = w}

Init ==
    /\ worker_nodes = {}
    /\ lock = [w \in Workers |-> Nobody]
    /\ users_ = {} /\ user_profiles_ = {}
    /\ shard_config = [k \in Shards |-> NoHost]
    /\ call = [s \in Sessions |-> NoCall]
    /\ p_result = [s \in Sessions |-> "none"]

Call(s) ==
    /\ call[s] = NoCall
    /\ \/ /\ \E c \in Registrations : c.step = "exists" /\ ~c.found /\ call' = [call EXCEPT ![s] = c]
          /\ p_result' = [p_result EXCEPT ![s] = "none"]
       \/ /\ \E c \in Creations : c.step = 1 /\ call' = [call EXCEPT ![s] = c]
          /\ UNCHANGED p_result
    /\ UNCHANGED <<registry, shards>>

In(s, proc, step) == call[s].proc = proc /\ call[s].step = step

-------------------------------------------------------------------------------
(* reg_worker_node                                                         *)

\* Mutated form of Exists: the row of a transaction that has not committed is
\* read as well (READ UNCOMMITTED).
DirtyExists(s) ==
    /\ In(s, "reg_worker_node", "exists")
    /\ LET w == call[s].id IN
       call' = [call EXCEPT ![s].step = "write", ![s].found = Rows(w) # {} \/ lock[w] # Nobody]
    /\ UNCHANGED <<registry, shards, p_result>>

\* START TRANSACTION and the EXISTS, which sees committed rows only.
Exists(s) ==
    /\ In(s, "reg_worker_node", "exists")
    /\ call' = [call EXCEPT ![s].step = "write", ![s].found = Rows(call[s].id) # {}]
    /\ UNCHANGED <<registry, shards, p_result>>

\* Mutated form of KeyFree: the table has no unique key.
NoUniqueKey(w) == TRUE

\* INSERT finds no committed row with its key (uk_dc_worker).
KeyFree(w) == Rows(w) = {}

\* The UPDATE or the INSERT gets its lock, and succeeds.
Write(s) ==
    /\ In(s, "reg_worker_node", "write")
    /\ lock[call[s].id] = Nobody
    /\ call[s].found \/ KeyFree(call[s].id)
    /\ lock' = [lock EXCEPT ![call[s].id] = s]
    /\ call' = [call EXCEPT ![s].step = "commit"]
    /\ UNCHANGED <<worker_nodes, shards, p_result>>

\* The end of a transaction releases its locks.
Unlocked(s) == [w \in Workers |-> IF lock[w] = s THEN Nobody ELSE lock[w]]

\* p_result is told, unless the connection is lost.
Leave(s, outcome) ==
    /\ call' = [call EXCEPT ![s] = NoCall]
    /\ \E told \in {outcome, "lost"} : p_result' = [p_result EXCEPT ![s] = told]

Commit(s) ==
    /\ In(s, "reg_worker_node", "commit")
    /\ LET mine == [id |-> call[s].id, host |-> call[s].host] IN
       worker_nodes' = {mine} \cup
            IF call[s].found THEN worker_nodes \ Rows(call[s].id) ELSE worker_nodes
    /\ lock' = Unlocked(s)
    /\ Leave(s, "1")
    /\ UNCHANGED shards

\* Mutated form of Rollback: the handler forgets to roll back.
StayLocked(s) == UNCHANGED lock

Rollback(s) == lock' = Unlocked(s)

\* Mutated form of Handler: p_result is not set.
HandlerSetsNothing(s) == Rollback(s) /\ Leave(s, "1")

\* The EXIT HANDLER.  A lost session is rolled back by the server.
Handler(s) == Rollback(s) /\ Leave(s, "-1")

\* The INSERT meets a row that was committed after the EXISTS.
DuplicateKey(s) ==
    /\ In(s, "reg_worker_node", "write")
    /\ lock[call[s].id] = Nobody
    /\ ~call[s].found /\ ~KeyFree(call[s].id)
    /\ Handler(s)
    /\ UNCHANGED <<worker_nodes, shards>>

\* Any other error of a statement (a value out of range, a lock wait that
\* takes too long), or the session is killed.
RegFails(s) ==
    /\ call[s].proc = "reg_worker_node"
    /\ Handler(s)
    /\ UNCHANGED <<worker_nodes, shards>>

-------------------------------------------------------------------------------
(* create_shard                                                            *)

\* Mutated form of Statement: the configuration first.
ConfigFirst == <<"config", "users", "profiles">>

\* The statements in their order.
Statement == <<"users", "profiles", "config">>

\* A statement succeeds: both tables are created IF NOT EXISTS (profiles
\* with a foreign key to users), the configuration is inserted or updated.
Execute(s) ==
    /\ call[s].proc = "create_shard"
    /\ LET c == call[s]
           does == Statement[c.step] IN
       /\ users_' = IF does = "users" THEN users_ \cup {c.id} ELSE users_
       /\ user_profiles_' = IF does = "profiles" THEN user_profiles_ \cup {c.id} ELSE user_profiles_
       /\ shard_config' = IF does = "config" THEN [shard_config EXCEPT ![c.id] = c.host] ELSE shard_config
       /\ call' = [call EXCEPT ![s] = IF c.step = Len(Statement) THEN NoCall ELSE [c EXCEPT !.step = @ + 1]]
    /\ UNCHANGED <<registry, p_result>>

\* A statement fails, or the session is killed: nothing is undone.
ShardFails(s) ==
    /\ call[s].proc = "create_shard"
    /\ call' = [call EXCEPT ![s] = NoCall]
    /\ UNCHANGED <<registry, shards, p_result>>

-------------------------------------------------------------------------------
Statements(s) == Exists(s) \/ Write(s) \/ Commit(s) \/ DuplicateKey(s) \/ Execute(s)

Next == \E s \in Sessions : Call(s) \/ Statements(s) \/ RegFails(s) \/ ShardFails(s)

Spec == Init /\ [][Next]_vars

(***************************************************************************)
(* Fairness: InnoDB grants a lock in the order of the requests, so that a  *)
(* session that waits gets its turn: strong fairness.  No fault is owed.   *)
(***************************************************************************)
FairSpec == Spec /\ \A s \in Sessions : SF_vars(Statements(s))
-------------------------------------------------------------------------------
(* Properties                                                              *)

\* Every variable has a value of its type.
TypeOK ==
    /\ worker_nodes \in SUBSET [id : Workers, host : Hosts]
    /\ lock \in [Workers -> Sessions \cup {Nobody}]
    /\ users_ \in SUBSET Shards /\ user_profiles_ \in SUBSET Shards
    /\ shard_config \in [Shards -> Hosts \cup {NoHost}]
    /\ call \in [Sessions -> {NoCall} \cup Registrations \cup Creations]
    /\ p_result \in [Sessions -> {"none", "1", "-1", "lost"}]

\* Two workers that register with the same ids at once leave one row: the
\* EXISTS of both may have found none.
OneRowPerWorker == \A w \in Workers : \A r, q \in Rows(w) : r = q

\* What the EXISTS read, without a lock, is still true when its transaction
\* is about to commit, whatever others committed or rolled back in between:
\* the UPDATE of a row found has met that row, not none (p_result would be 1
\* and nothing registered), and the INSERT of a row not found no other one.
ExistsStillTrue ==
    \A s \in Sessions :
        In(s, "reg_worker_node", "commit") => (call[s].found <=> Rows(call[s].id) # {})

\* A registration is atomic for its callers, and each is told the truth.
Registry == INSTANCE WorkerRegistry WITH
    registered <- [w \in Workers |-> {row.host : row \in Rows(w)}],
    asked <- [s \in Sessions |->
                IF call[s].proc = "reg_worker_node" THEN <<call[s].id, call[s].host>> ELSE <<>>],
    told <- p_result

ImplementsRegistry == Registry!RegistrySpec

\* A shard that has a configuration has its tables, wherever create_shard
\* failed, was killed, or was called again by another session.
ConfigHasTables ==
    \A k \in Shards : shard_config[k] # NoHost => k \in users_ /\ k \in user_profiles_

\* Every call ends: no session waits for a lock that is never released.
CallsEnd == \A s \in Sessions : call[s] # NoCall ~> call[s] = NoCall
===============================================================================
