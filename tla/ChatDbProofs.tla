------------------------------ MODULE ChatDbProofs ------------------------------
(***************************************************************************)
(* Proofs about ChatDb, for any sessions, workers, hosts and shards.       *)
(***************************************************************************)
EXTENDS ChatDb, TLAPS

\* A transaction that has written holds the lock of its row, and after an
\* INSERT no row with its key has been committed.
WriterAlone ==
    \A s \in Sessions : In(s, "reg_worker_node", "commit") =>
        /\ lock[call[s].id] = s
        /\ ~call[s].found => Rows(call[s].id) = {}

\* A row that the EXISTS found stays: it can be replaced but is never removed.
FoundRowStays ==
    \A s \in Sessions : call[s] \in Registrations /\ call[s].step # "exists" /\ call[s].found =>
        Rows(call[s].id) # {}

\* A call of create_shard finds what its earlier statements created.
TablesSoFar ==
    \A s \in Sessions : call[s].proc = "create_shard" =>
        /\ call[s].step > 1 => call[s].id \in users_
        /\ call[s].step > 2 => call[s].id \in user_profiles_

IInv == TypeOK /\ WriterAlone /\ FoundRowStays /\ OneRowPerWorker /\ TablesSoFar /\ ConfigHasTables

\* The fields of the three kinds of call.
LEMMA Kinds ==
    /\ NoCall.proc = "none"
    /\ \A c \in Registrations :
          /\ c.proc = "reg_worker_node" /\ c.step \in {"exists", "write", "commit"}
          /\ c.id \in Workers /\ c.host \in Hosts /\ c.found \in BOOLEAN
    /\ \A c \in Creations :
          c.proc = "create_shard" /\ c.step \in 1..3 /\ c.id \in Shards /\ c.host \in Hosts
  BY DEF NoCall, Registrations, Creations

LEMMA CallKind ==
    ASSUME TypeOK, NEW s \in Sessions
    PROVE  /\ call[s].proc = "reg_worker_node" => call[s] \in Registrations
           /\ call[s].proc = "create_shard" => call[s] \in Creations
           /\ call[s].proc = "none" => call[s] = NoCall
           /\ call[s] \in {NoCall} \cup Registrations \cup Creations
  BY Kinds DEF TypeOK

\* A session's own next step, the others being where they were.
LEMMA OwnCall ==
    ASSUME TypeOK, NEW s \in Sessions, NEW c \in {NoCall} \cup Registrations \cup Creations,
           call' = [call EXCEPT ![s] = c]
    PROVE  /\ call' \in [Sessions -> {NoCall} \cup Registrations \cup Creations]
           /\ call'[s] = c
           /\ \A t \in Sessions \ {s} : call'[t] = call[t]
  BY DEF TypeOK

LEMMA Released ==
    ASSUME TypeOK, NEW s \in Sessions, lock' = Unlocked(s)
    PROVE  /\ lock' \in [Workers -> Sessions \cup {Nobody}]
           /\ \A w \in Workers, t \in Sessions \ {s} : lock[w] = t => lock'[w] = t
  BY DEF TypeOK, Unlocked

-------------------------------------------------------------------------------
\* A step that removes no last row, and gives session s a call that is no
\* registration, or one that has just begun, or one that found its row.
LEMMA RowsStay ==
    ASSUME IInv, NEW s \in Sessions,
           \A t \in Sessions \ {s} : call'[t] = call[t],
           \A w \in Workers : Rows(w) # {} => Rows(w)' # {},
           call'[s] \in Registrations =>
               \/ call'[s].step = "exists" \/ ~call'[s].found
               \/ Rows(call'[s].id) # {}
    PROVE  FoundRowStays'
<1> SUFFICES ASSUME NEW t \in Sessions,
                    (call[t] \in Registrations /\ call[t].step # "exists" /\ call[t].found)'
             PROVE  Rows(call[t].id)' # {}
  BY DEF FoundRowStays, Rows
<1>1. PICK w \in Workers : w = call'[t].id
  BY Kinds
<1>2. Rows(w) # {}
  <2>1. CASE t = s
    BY <1>1, <2>1
  <2>2. CASE t # s
    BY <1>1, <2>2 DEF IInv, FoundRowStays
  <2> QED BY <2>1, <2>2
<1>3. Rows(w)' # {}
  BY <1>2
<1> QED BY <1>1, <1>3 DEF Rows

LEMMA InitInvariant == Init => IInv
  BY Kinds DEF Init, IInv, TypeOK, WriterAlone, FoundRowStays, OneRowPerWorker, TablesSoFar,
     ConfigHasTables, In, Rows

LEMMA CallInvariant == ASSUME IInv, NEW s \in Sessions, Call(s) PROVE IInv'
<1>1. PICK c \in Registrations \cup Creations :
         /\ call' = [call EXCEPT ![s] = c]
         /\ c \in Registrations => c.step = "exists"
         /\ c \in Creations => c.step = 1
  BY Kinds DEF Call
<1>2. TypeOK
  BY DEF IInv
<1>3. /\ call' \in [Sessions -> {NoCall} \cup Registrations \cup Creations]
      /\ call'[s] = c /\ \A t \in Sessions \ {s} : call'[t] = call[t]
  BY <1>1, <1>2, OwnCall
<1>4. p_result' \in [Sessions -> {"none", "1", "-1", "lost"}]
  BY <1>2 DEF Call, TypeOK
<1>5. TypeOK'
  BY <1>2, <1>3, <1>4 DEF TypeOK, Call, registry, shards
<1>6. WriterAlone'
  BY <1>1, <1>3, Kinds DEF IInv, WriterAlone, In, Rows, Call, registry
<1>7. TablesSoFar'
  BY <1>1, <1>3, Kinds DEF IInv, TablesSoFar, Call, shards
<1>8. OneRowPerWorker' /\ ConfigHasTables'
  BY DEF IInv, OneRowPerWorker, ConfigHasTables, Rows, Call, registry, shards
<1>9. FoundRowStays'
  BY <1>1, <1>3, RowsStay, Kinds DEF Rows, Call, registry
<1> QED BY <1>5, <1>6, <1>7, <1>8, <1>9 DEF IInv

LEMMA ExistsInvariant == ASSUME IInv, NEW s \in Sessions, Exists(s) PROVE IInv'
<1> DEFINE c == [call[s] EXCEPT !.step = "write", !.found = Rows(call[s].id) # {}]
<1>1. TypeOK /\ call[s] \in Registrations
  BY CallKind DEF IInv, Exists, In
<1>2. /\ c \in Registrations /\ c.step = "write" /\ c.id = call[s].id
      /\ c.found => Rows(c.id) # {}
  BY <1>1 DEF Registrations
<1>3. call' = [call EXCEPT ![s] = c]
  BY <1>1 DEF Exists, TypeOK
<1> HIDE DEF c
<1>4. /\ call' \in [Sessions -> {NoCall} \cup Registrations \cup Creations]
      /\ call'[s] = c /\ \A t \in Sessions \ {s} : call'[t] = call[t]
  BY <1>1, <1>2, <1>3, OwnCall
<1>5. TypeOK'
  BY <1>1, <1>4 DEF TypeOK, Exists, registry, shards
<1>6. WriterAlone' /\ TablesSoFar'
  BY <1>2, <1>4, Kinds DEF IInv, WriterAlone, TablesSoFar, In, Rows, Exists, registry, shards
<1>7. OneRowPerWorker' /\ ConfigHasTables'
  BY DEF IInv, OneRowPerWorker, ConfigHasTables, Rows, Exists, registry, shards
<1>8. FoundRowStays'
  BY <1>2, <1>4, RowsStay DEF Rows, Exists, registry
<1> QED BY <1>5, <1>6, <1>7, <1>8 DEF IInv

\* The lock was free, so no other transaction has written the row.
LEMMA WriteInvariant == ASSUME IInv, NEW s \in Sessions, Write(s) PROVE IInv'
<1> DEFINE c == [call[s] EXCEPT !.step = "commit"]
<1>1. TypeOK /\ call[s] \in Registrations
  BY CallKind DEF IInv, Write, In
<1>2. c \in Registrations /\ c.id = call[s].id /\ c.found = call[s].found
  BY <1>1 DEF Registrations
<1>3. call' = [call EXCEPT ![s] = c]
  BY <1>1 DEF Write, TypeOK
<1> HIDE DEF c
<1>4. /\ call' \in [Sessions -> {NoCall} \cup Registrations \cup Creations]
      /\ call'[s] = c /\ \A t \in Sessions \ {s} : call'[t] = call[t]
  BY <1>1, <1>2, <1>3, OwnCall
<1>5. call[s].id \in Workers /\ c.proc = "reg_worker_node"
  BY <1>1, <1>2, Kinds
<1>6. lock' = [lock EXCEPT ![call[s].id] = s] /\ lock[call[s].id] = Nobody
  BY DEF Write
<1>7. TypeOK'
  BY <1>1, <1>4, <1>6 DEF TypeOK, Write, shards
<1>8. WriterAlone'
  <2> SUFFICES ASSUME NEW t \in Sessions, In(t, "reg_worker_node", "commit")'
               PROVE  (lock[call[t].id] = t /\ (~call[t].found => Rows(call[t].id) = {}))'
    BY DEF WriterAlone
  <2>1. CASE t = s
    <3>1. call'[t].id = call[s].id /\ call'[t].found = call[s].found
      BY <2>1, <1>4, <1>2
    <3>2. lock'[call'[t].id] = t
      BY <2>1, <3>1, <1>1, <1>5, <1>6 DEF TypeOK
    <3>3. call[s].found \/ Rows(call[s].id) = {}
      BY DEF Write, KeyFree
    <3> QED BY <3>1, <3>2, <3>3 DEF Rows, Write
  <2>2. CASE t # s
    <3>1. call'[t] = call[t] /\ In(t, "reg_worker_node", "commit")
      BY <2>2, <1>4 DEF In
    <3>2. lock[call[t].id] = t /\ (~call[t].found => Rows(call[t].id) = {})
      BY <3>1 DEF IInv, WriterAlone
    <3>3. call[t].id # call[s].id /\ call[t].id \in Workers
      BY <3>1, <3>2, <1>1, <1>6, NobodyNotSession, CallKind, Kinds DEF In
    <3> QED BY <3>1, <3>2, <3>3, <1>1, <1>6 DEF Rows, Write, TypeOK
  <2> QED BY <2>1, <2>2
<1>9. TablesSoFar'
  BY <1>4, <1>5 DEF IInv, TablesSoFar, Write, shards
<1>10. OneRowPerWorker' /\ ConfigHasTables'
  BY DEF IInv, OneRowPerWorker, ConfigHasTables, Rows, Write, shards
<1>11. FoundRowStays'
  <2>1. call[s].found => Rows(call[s].id) # {}
    BY <1>1 DEF IInv, FoundRowStays, Write, In
  <2> QED BY <2>1, <1>2, <1>4, RowsStay DEF Rows, Write
<1> QED BY <1>7, <1>8, <1>9, <1>10, <1>11 DEF IInv

\* An INSERT meets no other row; an UPDATE replaces the one there is; and no
\* other transaction has written a row with this key.
LEMMA CommitInvariant == ASSUME IInv, NEW s \in Sessions, Commit(s) PROVE IInv'
<1>0. PICK w, h : w = call[s].id /\ h = call[s].host
  OBVIOUS
<1> DEFINE mine == [id |-> w, host |-> h]
<1>1. TypeOK /\ call[s] \in Registrations /\ In(s, "reg_worker_node", "commit")
  BY CallKind DEF IInv, Commit, In
<1>2. w \in Workers /\ mine \in [id : Workers, host : Hosts] /\ mine.id = w
  BY <1>0, <1>1, Kinds
<1>3. call' = [call EXCEPT ![s] = NoCall] /\ lock' = Unlocked(s)
  BY DEF Commit, Leave
<1>4. /\ call' \in [Sessions -> {NoCall} \cup Registrations \cup Creations]
      /\ call'[s] = NoCall /\ \A t \in Sessions \ {s} : call'[t] = call[t]
  BY <1>1, <1>3, OwnCall
<1>5. /\ lock' \in [Workers -> Sessions \cup {Nobody}]
      /\ \A v \in Workers, t \in Sessions \ {s} : lock[v] = t => lock'[v] = t
  BY <1>1, <1>3, Released
<1>6. worker_nodes' = {mine} \cup (worker_nodes \ Rows(w))
  BY <1>0, <1>1 DEF Commit, IInv, WriterAlone
<1> HIDE DEF mine
<1>7. \A v \in Workers : v # w => Rows(v)' = Rows(v)
  BY <1>2, <1>6 DEF Rows
<1>8. Rows(w)' = {mine}
  BY <1>2, <1>6 DEF Rows
<1>9. TypeOK'
  <2>1. worker_nodes' \in SUBSET [id : Workers, host : Hosts]
    BY <1>1, <1>2, <1>6 DEF TypeOK
  <2>2. p_result' \in [Sessions -> {"none", "1", "-1", "lost"}]
    BY <1>1 DEF Commit, Leave, TypeOK
  <2> QED BY <2>1, <2>2, <1>1, <1>4, <1>5 DEF TypeOK, Commit, shards
<1>10. OneRowPerWorker'
  <2> SUFFICES ASSUME NEW v \in Workers, NEW r \in Rows(v)', NEW q \in Rows(v)' PROVE r = q
    BY DEF OneRowPerWorker
  <2> QED BY <1>7, <1>8 DEF IInv, OneRowPerWorker
<1>11. WriterAlone'
  <2> SUFFICES ASSUME NEW t \in Sessions, In(t, "reg_worker_node", "commit")'
               PROVE  (lock[call[t].id] = t /\ (~call[t].found => Rows(call[t].id) = {}))'
    BY DEF WriterAlone
  <2>1. t # s
    BY <1>4, Kinds DEF In
  <2>2. call'[t] = call[t] /\ In(t, "reg_worker_node", "commit")
    BY <2>1, <1>4 DEF In
  <2>3. lock[call[t].id] = t /\ (~call[t].found => Rows(call[t].id) = {}) /\ lock[w] = s
    BY <2>2, <1>0, <1>1 DEF IInv, WriterAlone
  <2>4. call[t].id \in Workers /\ call[t].id # w
    BY <2>1, <2>2, <2>3, <1>1, CallKind, Kinds DEF In
  <2> QED BY <2>1, <2>2, <2>3, <2>4, <1>5, <1>7
<1>12. TablesSoFar'
  BY <1>4, Kinds DEF IInv, TablesSoFar, Commit, shards
<1>13. ConfigHasTables'
  BY DEF IInv, ConfigHasTables, Commit, shards
<1>14. FoundRowStays'
  <2>1. \A v \in Workers : Rows(v) # {} => Rows(v)' # {}
    BY <1>7, <1>8
  <2> QED BY <2>1, <1>4, RowsStay, Kinds
<1> QED BY <1>9, <1>10, <1>11, <1>12, <1>13, <1>14 DEF IInv

\* The handler gives up what this transaction holds and nothing else.
LEMMA HandlerInvariant ==
    ASSUME IInv, NEW s \in Sessions, DuplicateKey(s) \/ RegFails(s)
    PROVE  IInv'
<1>1. TypeOK /\ Handler(s) /\ UNCHANGED <<worker_nodes, shards>>
  BY DEF IInv, DuplicateKey, RegFails
<1>2. call' = [call EXCEPT ![s] = NoCall] /\ lock' = Unlocked(s)
  BY <1>1 DEF Handler, Leave, Rollback
<1>3. /\ call' \in [Sessions -> {NoCall} \cup Registrations \cup Creations]
      /\ call'[s] = NoCall /\ \A t \in Sessions \ {s} : call'[t] = call[t]
  BY <1>1, <1>2, OwnCall
<1>4. /\ lock' \in [Workers -> Sessions \cup {Nobody}]
      /\ \A v \in Workers, t \in Sessions \ {s} : lock[v] = t => lock'[v] = t
  BY <1>1, <1>2, Released
<1>5. TypeOK'
  BY <1>1, <1>3, <1>4 DEF TypeOK, Handler, Leave, shards
<1>6. WriterAlone'
  <2> SUFFICES ASSUME NEW t \in Sessions, In(t, "reg_worker_node", "commit")'
               PROVE  (lock[call[t].id] = t /\ (~call[t].found => Rows(call[t].id) = {}))'
    BY DEF WriterAlone
  <2>1. t # s
    BY <1>3, Kinds DEF In
  <2>2. call'[t] = call[t] /\ In(t, "reg_worker_node", "commit")
    BY <2>1, <1>3 DEF In
  <2>3. lock[call[t].id] = t /\ (~call[t].found => Rows(call[t].id) = {})
    BY <2>2 DEF IInv, WriterAlone
  <2>4. call[t].id \in Workers
    BY <2>2, <1>1, CallKind, Kinds DEF In
  <2> QED BY <2>1, <2>2, <2>3, <2>4, <1>1, <1>4 DEF Rows
<1>7. TablesSoFar'
  BY <1>1, <1>3, Kinds DEF IInv, TablesSoFar, shards
<1>8. OneRowPerWorker' /\ ConfigHasTables'
  BY <1>1 DEF IInv, OneRowPerWorker, ConfigHasTables, Rows, shards
<1>9. FoundRowStays'
  BY <1>1, <1>3, RowsStay, Kinds DEF Rows
<1> QED BY <1>5, <1>6, <1>7, <1>8, <1>9 DEF IInv

\* A statement of create_shard finds the tables of the ones before it.
LEMMA ExecuteInvariant == ASSUME IInv, NEW s \in Sessions, Execute(s) PROVE IInv'
<1>0. PICK c : c = call[s]
  OBVIOUS
<1> DEFINE d == IF c.step = Len(Statement) THEN NoCall ELSE [c EXCEPT !.step = @ + 1]
<1>1. TypeOK /\ c \in Creations
  BY <1>0, CallKind DEF IInv, Execute
<1>2. /\ d \in {NoCall} \cup Creations
      /\ d \in Creations => d.id = c.id /\ d.step = c.step + 1
  BY <1>1, Kinds DEF Creations, Statement
<1>3. call' = [call EXCEPT ![s] = d]
  BY <1>0 DEF Execute
<1> HIDE DEF d
<1>4. /\ call' \in [Sessions -> {NoCall} \cup Registrations \cup Creations]
      /\ call'[s] = d /\ \A t \in Sessions \ {s} : call'[t] = call[t]
  BY <1>1, <1>2, <1>3, OwnCall
<1>5. /\ c.step = 1 => users_' = users_ \cup {c.id} /\ UNCHANGED <<user_profiles_, shard_config>>
      /\ c.step = 2 => user_profiles_' = user_profiles_ \cup {c.id} /\ UNCHANGED <<users_, shard_config>>
      /\ c.step = 3 => shard_config' = [shard_config EXCEPT ![c.id] = c.host]
                       /\ UNCHANGED <<users_, user_profiles_>>
      /\ c.step \in 1..3 /\ c.id \in Shards /\ c.host \in Hosts
  BY <1>0, <1>1, Kinds DEF Execute, Statement
<1>6. users_ \subseteq users_' /\ user_profiles_ \subseteq user_profiles_'
  BY <1>5
<1>7. TypeOK'
  <2>1. users_' \in SUBSET Shards /\ user_profiles_' \in SUBSET Shards
    BY <1>1, <1>5 DEF TypeOK
  <2>2. shard_config' \in [Shards -> Hosts \cup {NoHost}]
    <3>1. shard_config' = shard_config \/ shard_config' = [shard_config EXCEPT ![c.id] = c.host]
      BY <1>5
    <3> QED BY <3>1, <1>1, <1>5 DEF TypeOK
  <2>3. UNCHANGED <<worker_nodes, lock, p_result>>
    BY DEF Execute, registry
  <2> QED BY <2>1, <2>2, <2>3, <1>1, <1>4 DEF TypeOK
<1>8. /\ c.step > 1 => c.id \in users_
      /\ c.step > 2 => c.id \in user_profiles_
  BY <1>0, <1>1, Kinds DEF IInv, TablesSoFar
<1>9. TablesSoFar'
  BY <1>2, <1>4, <1>5, <1>6, <1>8, Kinds DEF IInv, TablesSoFar
<1>10. ConfigHasTables'
  BY <1>1, <1>5, <1>6, <1>8 DEF IInv, ConfigHasTables, TypeOK
<1>11. WriterAlone'
  BY <1>2, <1>4, Kinds DEF IInv, WriterAlone, In, Rows, Execute, registry
<1>12. OneRowPerWorker'
  BY DEF IInv, OneRowPerWorker, Rows, Execute, registry
<1>13. FoundRowStays'
  BY <1>2, <1>4, RowsStay, Kinds DEF Rows, Execute, registry
<1> QED BY <1>7, <1>9, <1>10, <1>11, <1>12, <1>13 DEF IInv

LEMMA ShardFailsInvariant == ASSUME IInv, NEW s \in Sessions, ShardFails(s) PROVE IInv'
<1>1. TypeOK /\ call' = [call EXCEPT ![s] = NoCall]
  BY DEF IInv, ShardFails
<1>2. /\ call' \in [Sessions -> {NoCall} \cup Registrations \cup Creations]
      /\ call'[s] = NoCall /\ \A t \in Sessions \ {s} : call'[t] = call[t]
  BY <1>1, OwnCall
<1>3. TypeOK'
  BY <1>1, <1>2 DEF TypeOK, ShardFails, registry, shards
<1>4. WriterAlone' /\ TablesSoFar'
  BY <1>2, Kinds DEF IInv, WriterAlone, TablesSoFar, In, Rows, ShardFails, registry, shards
<1>5. OneRowPerWorker' /\ ConfigHasTables'
  BY DEF IInv, OneRowPerWorker, ConfigHasTables, Rows, ShardFails, registry, shards
<1>6. FoundRowStays'
  BY <1>2, RowsStay, Kinds DEF Rows, ShardFails, registry
<1> QED BY <1>3, <1>4, <1>5, <1>6 DEF IInv

LEMMA NextInvariant == IInv /\ [Next]_vars => IInv'
<1> SUFFICES ASSUME IInv, [Next]_vars PROVE IInv'
  OBVIOUS
<1>1. CASE UNCHANGED vars
  BY <1>1 DEF vars, registry, shards, IInv, TypeOK, WriterAlone, FoundRowStays, OneRowPerWorker,
     TablesSoFar, ConfigHasTables, In, Rows
<1> QED BY <1>1, CallInvariant, ExistsInvariant, WriteInvariant, CommitInvariant, HandlerInvariant,
           ExecuteInvariant, ShardFailsInvariant DEF Next, Statements

LEMMA InvariantHolds == Spec => []IInv
  BY InitInvariant, NextInvariant, PTL DEF Spec

\* Every variable has a value of its type.
THEOREM TypeCorrect == Spec => []TypeOK
<1>1. IInv => TypeOK
  BY DEF IInv
<1> QED BY <1>1, InvariantHolds, PTL

\* Registrations of the same worker at once leave one row.
THEOREM NoDoubleRegistration == Spec => []OneRowPerWorker
<1>1. IInv => OneRowPerWorker
  BY DEF IInv
<1> QED BY <1>1, InvariantHolds, PTL

\* What EXISTS found is still so when the transaction commits.
THEOREM ExistsStaysTrue == Spec => []ExistsStillTrue
<1>1. IInv => ExistsStillTrue
  <2> SUFFICES ASSUME IInv, NEW s \in Sessions, In(s, "reg_worker_node", "commit")
               PROVE  call[s].found <=> Rows(call[s].id) # {}
    BY DEF ExistsStillTrue
  <2>1. call[s] \in Registrations /\ call[s].step = "commit"
    BY CallKind DEF IInv, In
  <2>2. call[s].found => Rows(call[s].id) # {}
    BY <2>1 DEF IInv, FoundRowStays
  <2>3. ~call[s].found => Rows(call[s].id) = {}
    BY DEF IInv, WriterAlone
  <2> QED BY <2>2, <2>3
<1> QED BY <1>1, InvariantHolds, PTL

\* create_shard configures no shard before its tables exist.
THEOREM ConfiguredShardsHaveTables == Spec => []ConfigHasTables
<1>1. IInv => ConfigHasTables
  BY DEF IInv
<1> QED BY <1>1, InvariantHolds, PTL

-------------------------------------------------------------------------------
(* No deadlock.  A transaction takes one lock, with its only write, and    *)
(* waits for none afterwards.                                              *)

\* Session s waits for the row that session u has locked.
WaitsFor(s, u) ==
    /\ In(s, "reg_worker_node", "write")
    /\ lock[call[s].id] = u

\* A row is locked only by a session that has written it and has not ended.
LockedByWriters ==
    \A w \in Workers, u \in Sessions :
        lock[w] = u => In(u, "reg_worker_node", "commit") /\ call[u].id = w

\* Whoever is waited for waits for nobody.
NoChains == \A s, u, v \in Sessions : WaitsFor(s, u) => ~WaitsFor(u, v)

LEMMA LocksStep == ASSUME IInv, LockedByWriters, [Next]_vars PROVE LockedByWriters'
<1>0. TypeOK
  BY DEF IInv
<1>1. ASSUME NEW s \in Sessions, Call(s) \/ Exists(s) \/ Execute(s) \/ ShardFails(s)
      PROVE  LockedByWriters'
  <2>1. lock' = lock /\ ~In(s, "reg_worker_node", "commit")
    BY <1>0, <1>1, Kinds DEF Call, Exists, Execute, ShardFails, In, registry
  <2>2. \A u \in Sessions \ {s} : call'[u] = call[u]
    BY <1>0, <1>1 DEF Call, Exists, Execute, ShardFails, TypeOK
  <2> QED BY <2>1, <2>2 DEF LockedByWriters, In
<1>2. ASSUME NEW s \in Sessions, Write(s) PROVE LockedByWriters'
  <2>1. call[s] \in Registrations
    BY <1>0, <1>2, CallKind DEF Write, In
  <2>2. PICK w \in Workers : w = call[s].id
    BY <2>1, Kinds
  <2>3. /\ lock' = [lock EXCEPT ![w] = s] /\ lock[w] = Nobody
        /\ call' = [call EXCEPT ![s].step = "commit"]
    BY <1>2, <2>2 DEF Write
  <2>4. /\ In(s, "reg_worker_node", "commit")' /\ call'[s].id = w
        /\ \A u \in Sessions \ {s} : call'[u] = call[u]
    BY <1>0, <2>1, <2>2, <2>3 DEF TypeOK, Registrations, In
  <2>5. \A v \in Workers : v # w => lock'[v] = lock[v] /\ lock[v] # s
    BY <1>0, <1>2, <2>3 DEF TypeOK, LockedByWriters, Write, In
  <2>6. lock'[w] = s
    BY <1>0, <2>3 DEF TypeOK
  <2> QED BY <2>4, <2>5, <2>6 DEF LockedByWriters, In
<1>3. ASSUME NEW s \in Sessions, Commit(s) \/ DuplicateKey(s) \/ RegFails(s)
      PROVE  LockedByWriters'
  <2>1. lock' = Unlocked(s) /\ call' = [call EXCEPT ![s] = NoCall]
    BY <1>3 DEF Commit, DuplicateKey, RegFails, Handler, Rollback, Leave
  <2>2. \A u \in Sessions \ {s} : call'[u] = call[u]
    BY <1>0, <2>1 DEF TypeOK
  <2>3. \A v \in Workers, u \in Sessions : lock'[v] = u => lock[v] = u /\ u # s
    BY <1>0, <2>1, NobodyNotSession DEF TypeOK, Unlocked
  <2> QED BY <2>2, <2>3 DEF LockedByWriters, In
<1>4. CASE UNCHANGED vars
  BY <1>4 DEF vars, registry, LockedByWriters, In
<1> QED BY <1>1, <1>2, <1>3, <1>4 DEF Next, Statements

\* No session waits for one that waits, whichever registrations meet: the
\* safe part of CallsEnd, without fairness.
THEOREM NeverDeadlocked == Spec => [](LockedByWriters /\ NoChains)
<1>1. Init => LockedByWriters
  BY NobodyNotSession DEF Init, LockedByWriters
<1>2. IInv /\ LockedByWriters => NoChains
  <2> SUFFICES ASSUME IInv, LockedByWriters, NEW s \in Sessions, NEW u \in Sessions,
                      WaitsFor(s, u)
               PROVE  In(u, "reg_worker_node", "commit")
    BY DEF NoChains, WaitsFor, In
  <2>1. call[s].id \in Workers
    BY CallKind, Kinds DEF IInv, WaitsFor, In
  <2> QED BY <2>1 DEF WaitsFor, LockedByWriters
<1> QED BY <1>1, <1>2, LocksStep, InvariantHolds, PTL DEF Spec

-------------------------------------------------------------------------------
(* The refinement of WorkerRegistry.                                       *)

HostsOf(w) == {row.host : row \in Rows(w)}
Asked(s) == IF call[s].proc = "reg_worker_node" THEN <<call[s].id, call[s].host>> ELSE <<>>
registered_ == [w \in Workers |-> HostsOf(w)]
asked_ == [s \in Sessions |-> Asked(s)]

RegistryNext == \E s \in Sessions : Registry!Ask(s) \/ Registry!Register(s) \/ Registry!Refuse(s)

LEMMA RegistryInitial == Init => Registry!RegistryInit
  BY Kinds DEF Init, Rows, Registry!RegistryInit

\* A session whose request and rows do not change takes a stutter.
LEMMA Stutter ==
    ASSUME UNCHANGED <<worker_nodes, p_result>>, \A s \in Sessions : Asked(s)' = Asked(s)
    PROVE  UNCHANGED Registry!registryVars
<1>1. asked_' = asked_ /\ registered_' = registered_
  BY DEF asked_, registered_, HostsOf, Rows
<1> QED BY <1>1 DEF asked_, registered_, HostsOf, Asked, Registry!registryVars

\* What becomes of the request of session s, the others being unchanged.
LEMMA AskedAfter ==
    ASSUME TypeOK, NEW s \in Sessions, NEW c \in {NoCall} \cup Registrations \cup Creations,
           call' = [call EXCEPT ![s] = c]
    PROVE  asked_' = [asked_ EXCEPT ![s] =
                        IF c.proc = "reg_worker_node" THEN <<c.id, c.host>> ELSE <<>>]
  BY OwnCall DEF asked_, Asked

\* A step inside a call keeps its request.
LEMMA InsideCall ==
    ASSUME IInv, NEW s \in Sessions,
           Exists(s) \/ Write(s) \/ Execute(s) \/ ShardFails(s)
    PROVE  UNCHANGED Registry!registryVars
<1>1. TypeOK /\ UNCHANGED <<worker_nodes, p_result>>
  BY DEF IInv, Exists, Write, Execute, ShardFails, registry
<1>2. PICK c : call' = [call EXCEPT ![s] = c]
  BY DEF Exists, Write, Execute, ShardFails, IInv, TypeOK
<1>3. call[s] \in {NoCall} \cup Registrations \cup Creations /\ call'[s] = c
      /\ \A t \in Sessions \ {s} : call'[t] = call[t]
  BY <1>1, <1>2 DEF TypeOK
<1>4. Asked(s)' = Asked(s)
  <2>1. CASE Exists(s) \/ Write(s)
    <3>1. call[s] \in Registrations
      BY <2>1, <1>1, CallKind DEF Exists, Write, In
    <3>2. call'[s].proc = call[s].proc /\ call'[s].id = call[s].id /\ call'[s].host = call[s].host
      BY <2>1, <3>1, <1>1 DEF Exists, Write, TypeOK, Registrations
    <3> QED BY <3>2 DEF Asked
  <2>2. CASE Execute(s) \/ ShardFails(s)
    <3>1. call[s] \in Creations /\ call[s].proc = "create_shard"
      BY <2>2, <1>1, CallKind DEF Execute, ShardFails
    <3>2. call'[s].proc \in {"none", "create_shard"}
      BY <2>2, <3>1, <1>1, Kinds DEF Execute, ShardFails, TypeOK, Creations
    <3> QED BY <3>1, <3>2 DEF Asked
  <2> QED BY <2>1, <2>2
<1>5. \A t \in Sessions : Asked(t)' = Asked(t)
  BY <1>3, <1>4 DEF Asked
<1> QED BY <1>1, <1>5, Stutter

\* The beginning of a call asks, or asks nothing of the registry.
LEMMA CallAsks ==
    ASSUME IInv, NEW s \in Sessions, Call(s)
    PROVE  Registry!Ask(s) \/ UNCHANGED Registry!registryVars
<1>1. TypeOK /\ call[s].proc = "none" /\ UNCHANGED worker_nodes
  BY Kinds DEF IInv, Call, registry
<1>2. registered_' = registered_
  BY <1>1 DEF registered_, HostsOf, Rows
<1>3. CASE \E c \in Registrations :
             call' = [call EXCEPT ![s] = c] /\ p_result' = [p_result EXCEPT ![s] = "none"]
  <2>1. PICK c \in Registrations :
           call' = [call EXCEPT ![s] = c] /\ p_result' = [p_result EXCEPT ![s] = "none"]
    BY <1>3
  <2>2. asked_' = [asked_ EXCEPT ![s] = <<c.id, c.host>>]
    BY <2>1, <1>1, AskedAfter, Kinds
  <2>3. asked_[s] = <<>>
    BY <1>1 DEF asked_, Asked
  <2>4. c.id \in Workers /\ c.host \in Hosts
    BY Kinds
  <2> QED BY <1>2, <2>1, <2>2, <2>3, <2>4
          DEF Registry!Ask, asked_, registered_, Asked, HostsOf
<1>4. CASE \E c \in Creations : call' = [call EXCEPT ![s] = c] /\ UNCHANGED p_result
  <2>1. PICK c \in Creations : call' = [call EXCEPT ![s] = c] /\ UNCHANGED p_result
    BY <1>4
  <2>2. \A t \in Sessions : Asked(t)' = Asked(t)
    BY <2>1, <1>1, OwnCall, Kinds DEF Asked
  <2> QED BY <2>1, <2>2, <1>1, Stutter
<1> QED BY <1>3, <1>4 DEF Call

\* A commit registers: it leaves one row, that of the request.
LEMMA CommitRegisters == ASSUME IInv, NEW s \in Sessions, Commit(s) PROVE Registry!Register(s)
<1>0. PICK w, h : w = call[s].id /\ h = call[s].host
  OBVIOUS
<1>1. TypeOK /\ call[s] \in Registrations /\ In(s, "reg_worker_node", "commit")
  BY CallKind DEF IInv, Commit, In
<1>2. w \in Workers /\ asked_[s] = <<w, h>>
  BY <1>0, <1>1, Kinds DEF asked_, Asked
<1>3. worker_nodes' = {[id |-> w, host |-> h]} \cup (worker_nodes \ Rows(w))
  BY <1>0, <1>1 DEF Commit, IInv, WriterAlone
<1>4. registered_' = [registered_ EXCEPT ![w] = {h}]
  <2>1. \A v \in Workers : v # w => HostsOf(v)' = HostsOf(v)
    BY <1>3 DEF HostsOf, Rows
  <2>2. Rows(w)' = {[id |-> w, host |-> h]}
    BY <1>3 DEF Rows
  <2>3. HostsOf(w)' = {h}
    BY <2>2 DEF HostsOf
  <2> QED BY <2>1, <2>3, <1>2 DEF registered_
<1>5. call' = [call EXCEPT ![s] = NoCall]
      /\ \E told \in {"1", "lost"} : p_result' = [p_result EXCEPT ![s] = told]
  BY DEF Commit, Leave
<1>6. asked_' = [asked_ EXCEPT ![s] = <<>>]
  BY <1>1, <1>5, AskedAfter, Kinds
<1> QED BY <1>2, <1>4, <1>5, <1>6
        DEF Registry!Register, Registry!Ends, asked_, registered_, Asked, HostsOf

\* The handler refuses: no row has changed.
LEMMA HandlerRefuses ==
    ASSUME IInv, NEW s \in Sessions, DuplicateKey(s) \/ RegFails(s)
    PROVE  Registry!Refuse(s)
<1>1. TypeOK /\ Handler(s) /\ UNCHANGED worker_nodes /\ call[s].proc = "reg_worker_node"
  BY DEF IInv, DuplicateKey, RegFails, In
<1>2. asked_[s] # <<>> /\ registered_' = registered_
  BY <1>1 DEF asked_, Asked, registered_, HostsOf, Rows
<1>3. call' = [call EXCEPT ![s] = NoCall]
      /\ \E told \in {"-1", "lost"} : p_result' = [p_result EXCEPT ![s] = told]
  BY <1>1 DEF Handler, Leave
<1>4. asked_' = [asked_ EXCEPT ![s] = <<>>]
  BY <1>1, <1>3, AskedAfter, Kinds
<1> QED BY <1>2, <1>3, <1>4
        DEF Registry!Refuse, Registry!Ends, asked_, registered_, Asked, HostsOf

LEMMA RegistryStep == IInv /\ [Next]_vars => [RegistryNext]_(Registry!registryVars)
<1> SUFFICES ASSUME IInv, [Next]_vars PROVE [RegistryNext]_(Registry!registryVars)
  OBVIOUS
<1>1. CASE UNCHANGED vars
  BY <1>1, Stutter DEF vars, registry, Asked
<1> QED BY <1>1, InsideCall, CallAsks, CommitRegisters, HandlerRefuses
        DEF Next, Statements, RegistryNext

\* Registrations are atomic for their callers, who are told the truth.
THEOREM DbImplementsRegistry == Spec => ImplementsRegistry
<1>1. ImplementsRegistry <=> Registry!RegistryInit /\ [][RegistryNext]_(Registry!registryVars)
  BY DEF ImplementsRegistry, Registry!RegistrySpec, RegistryNext
<1> QED BY <1>1, RegistryInitial, RegistryStep, InvariantHolds, PTL DEF Spec
===============================================================================
