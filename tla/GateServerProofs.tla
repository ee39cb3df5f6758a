---------------------------- MODULE GateServerProofs ----------------------------
(***************************************************************************)
(* Proofs about GateServer, for any set of connections and any deadline:   *)
(* type correctness, the one pending accept, the deadline that guards each *)
(* stalled write and keeps no answered connection, and the refinement of   *)
(* ShortConnection.                                                        *)
(***************************************************************************)
EXTENDS GateServer, TLAPS

\* What holds of the record of every connection: its operations follow each
\* other (accept, read, then write and timer), and a closed socket or a timer
\* that has fired means that the deadline has passed.  A socket is shut after
\* its timer was cancelled.
RecordInv(r) ==
    /\ r \in Connection
    /\ ~Outstanding(r) => r = Gone
    /\ r.acc # "none" => r.rd = "none" /\ r.wr = "none" /\ r.tm = "none"
    /\ r.rd # "none" => r.wr = "none" /\ r.tm = "none"
    /\ r.acc # "none" \/ r.rd # "none" => r.sock \notin {"shut", "closed"}
    /\ r.sock \in {"shut", "closed"} => r.tm # "armed"
    /\ r.wr = "pending" => r.tm \in {"armed", "fired"}
    /\ r.tm = "fired" => r.age = Deadline
    /\ r.sock = "closed" => r.age = Deadline

\* The inductive invariant.
IInv ==
    /\ conn \in [Conns -> Connection]
    /\ loop \in {"running", "stopped"}
    /\ signal \in {"none", "raised", "handled"}
    /\ \A c \in Conns : RecordInv(conn[c])
    /\ OneAccept

\* Accepting is not disturbed when c becomes r.
SameAccept(c, r) == (Settle(r).acc # "none") <=> (conn[c].acc # "none")

-------------------------------------------------------------------------------
LEMMA GoneRecord == RecordInv(Gone) /\ ~Outstanding(Gone)
  BY DeadlinePositive DEF RecordInv, Gone, Connection, Outstanding

LEMMA ListeningRecord ==
    RecordInv(Listening) /\ Outstanding(Listening) /\ Listening.acc = "pending"
  BY DeadlinePositive DEF RecordInv, Listening, Gone, Connection, Outstanding

\* Dropping the last operation of a record replaces it by Gone.
LEMMA SettleRecord ==
    ASSUME NEW r, Outstanding(r) => RecordInv(r)
    PROVE  RecordInv(Settle(r))
  BY GoneRecord DEF Settle

\* The connections that are not c keep their records, so it is enough to look
\* at the new record of c.
LEMMA BecomesInvariant ==
    ASSUME IInv, NEW c \in Conns, NEW r, Becomes(c, r),
           Outstanding(r) => RecordInv(r), SameAccept(c, r)
    PROVE  IInv'
<1>1. RecordInv(Settle(r)) /\ Settle(r) \in Connection
  BY SettleRecord DEF RecordInv
<1>2. \A d \in Conns : conn'[d] = IF d = c THEN Settle(r) ELSE conn[d]
  BY DEF Becomes, IInv
<1>3. conn' \in [Conns -> Connection]
  BY <1>1 DEF Becomes, IInv
<1>4. \A d \in Conns : RecordInv(conn[d])'
  <2> SUFFICES ASSUME NEW d \in Conns PROVE RecordInv(conn[d])'
    OBVIOUS
  <2>1. RecordInv(conn[d])
    BY DEF IInv
  <2>2. RecordInv(conn'[d])
    BY <1>1, <1>2, <2>1
  <2> QED BY <2>2 DEF RecordInv, Connection, Outstanding, Gone
<1>5. OneAccept'
  <2>1. \A d \in Conns : conn'[d].acc # "none" <=> conn[d].acc # "none"
    BY <1>2 DEF SameAccept
  <2> QED BY <2>1 DEF Becomes, OneAccept, IInv
<1> QED BY <1>3, <1>4, <1>5 DEF IInv, Becomes

LEMMA InitInvariant == Init => IInv
<1> SUFFICES ASSUME Init PROVE IInv
  OBVIOUS
<1>1. PICK c \in Conns : conn = [d \in Conns |-> IF d = c THEN Listening ELSE Gone]
  BY DEF Init
<1>2. \A d \in Conns : RecordInv(conn[d])
  BY <1>1, GoneRecord, ListeningRecord
<1>3. conn \in [Conns -> Connection]
  BY <1>1, GoneRecord, ListeningRecord DEF RecordInv
<1>4. OneAccept
  BY <1>1, ListeningRecord, GoneRecord DEF OneAccept, Outstanding
<1> QED BY <1>2, <1>3, <1>4 DEF IInv, Init

-------------------------------------------------------------------------------
(* The steps that change one connection.                                   *)

LEMMA EventInvariant ==
    ASSUME IInv, NEW c \in Conns, Event(c)
    PROVE  IInv'
<1>0. RecordInv(conn[c])
  BY DEF IInv
<1>1. CASE AcceptCompletes(c)
  <2>1. PICK r : /\ Becomes(c, r)
                 /\ r \in {[conn[c] EXCEPT !.acc = "ok", !.sock = "open"],
                           [conn[c] EXCEPT !.acc = "err"]}
    BY <1>1 DEF AcceptCompletes
  <2>2. conn[c].acc = "pending"
    BY <1>1 DEF AcceptCompletes
  <2>3. RecordInv(r) /\ Outstanding(r) /\ r.acc # "none"
    BY <1>0, <2>1, <2>2 DEF RecordInv, Connection, Outstanding
  <2> QED BY <2>1, <2>2, <2>3, BecomesInvariant DEF SameAccept, Settle
<1>2. CASE ReadCompletes(c)
  <2>1. PICK result \in {"got", "err"} : Becomes(c, [conn[c] EXCEPT !.rd = result])
    BY <1>2 DEF ReadCompletes
  <2> DEFINE r == [conn[c] EXCEPT !.rd = result]
  <2>2. RecordInv(r) /\ Outstanding(r) /\ r.acc = conn[c].acc
    BY <1>0, <1>2 DEF RecordInv, Connection, Outstanding, ReadCompletes
  <2> QED BY <2>1, <2>2, BecomesInvariant DEF SameAccept, Settle
<1>3. CASE WriteCompletes(c)
  <2>1. PICK result \in {"whole", "cut"} : Becomes(c, [conn[c] EXCEPT !.wr = result])
    BY <1>3 DEF WriteCompletes
  <2> DEFINE r == [conn[c] EXCEPT !.wr = result]
  <2>2. RecordInv(r) /\ Outstanding(r) /\ r.acc = conn[c].acc
    BY <1>0, <1>3 DEF RecordInv, Connection, Outstanding, WriteCompletes
  <2> QED BY <2>1, <2>2, BecomesInvariant DEF SameAccept, Settle
<1>4. CASE TimerExpires(c)
  <2> DEFINE r == [conn[c] EXCEPT !.tm = "fired"]
  <2>2. RecordInv(r) /\ Outstanding(r) /\ r.acc = conn[c].acc
    BY <1>0, <1>4 DEF RecordInv, Connection, Outstanding, TimerExpires
  <2> QED BY <1>4, <2>2, BecomesInvariant DEF SameAccept, Settle, TimerExpires
<1> QED BY <1>1, <1>2, <1>3, <1>4 DEF Event

\* The accept handlers: the listening connection goes on or goes, and a free
\* one listens.
LEMMA AcceptInvariant ==
    ASSUME IInv, NEW c \in Conns, AcceptHandler(c)
    PROVE  IInv'
<1>1. PICK d \in Free, r \in {[conn[c] EXCEPT !.acc = "none", !.rd = "pending"], Gone} :
         conn' = [conn EXCEPT ![c] = r, ![d] = Listening]
  BY DEF AcceptHandler, Accepted, AcceptFailed
<1>2. conn[c].acc # "none" /\ loop = "running" /\ UNCHANGED <<loop, signal>>
  BY DEF AcceptHandler, Accepted, AcceptFailed, Polling
<1>3. d \in Conns /\ d # c /\ conn[d].acc = "none"
  BY <1>2 DEF Free, Alive, Outstanding
<1>4. RecordInv(conn[c])
  BY DEF IInv
<1>5. RecordInv(r) /\ r.acc = "none"
  <2>1. CASE r = Gone
    BY <2>1, GoneRecord DEF Outstanding
  <2>2. CASE r = [conn[c] EXCEPT !.acc = "none", !.rd = "pending"]
    BY <1>2, <1>4, <2>2 DEF RecordInv, Connection, Outstanding
  <2> QED BY <1>1, <2>1, <2>2
<1>6. \A e \in Conns : conn'[e] = IF e = d THEN Listening ELSE IF e = c THEN r ELSE conn[e]
  BY <1>1, <1>3 DEF IInv
<1>7. conn' \in [Conns -> Connection]
  BY <1>1, <1>3, <1>5, ListeningRecord DEF IInv, RecordInv
<1>8. \A e \in Conns : RecordInv(conn[e])'
  <2> SUFFICES ASSUME NEW e \in Conns PROVE RecordInv(conn[e])'
    OBVIOUS
  <2>1. RecordInv(conn[e])
    BY DEF IInv
  <2>2. RecordInv(conn'[e])
    BY <1>5, <1>6, <2>1, ListeningRecord
  <2> QED BY <2>2 DEF RecordInv, Connection, Outstanding, Gone
<1>9. OneAccept'
  <2>1. \A e \in Conns : conn[e].acc # "none" <=> e = c
    BY <1>2 DEF IInv, OneAccept
  <2>2. \A e \in Conns : conn'[e].acc # "none" <=> e = d
    BY <1>3, <1>5, <1>6, <2>1, ListeningRecord
  <2> QED BY <1>3, <2>2 DEF OneAccept
<1> QED BY <1>2, <1>7, <1>8, <1>9 DEF IInv

\* The read, write and timer handlers, and the return of a backend call.
LEMMA OtherHandlersInvariant ==
    ASSUME IInv, NEW c \in Conns,
           ReadHandler(c) \/ BackendReturns(c) \/ Written(c) \/ TimerHandler(c)
    PROVE  IInv'
<1>0. RecordInv(conn[c])
  BY DEF IInv
<1>1. ASSUME conn[c].rd # "none", Respond(c)
      PROVE  IInv'
  <2> DEFINE r == CheckDeadline(WriteResponse([conn[c] EXCEPT !.rd = "none"]))
  <2>1. RecordInv(r) /\ Outstanding(r) /\ r.acc = conn[c].acc
    BY <1>0, <1>1 DEF RecordInv, Connection, Outstanding, CheckDeadline, WriteResponse
  <2> HIDE DEF r
  <2>2. SameAccept(c, r)
    BY <2>1 DEF SameAccept, Settle
  <2>3. Becomes(c, r)
    BY <1>1 DEF Respond, r
  <2> QED BY <2>1, <2>2, <2>3, BecomesInvariant
<1>2. ASSUME conn[c].rd # "none", Abandon(c)
      PROVE  IInv'
  <2> DEFINE r == [conn[c] EXCEPT !.rd = "none"]
  <2>1. ~Outstanding(r) /\ conn[c].acc = "none"
    BY <1>0, <1>2 DEF RecordInv, Connection, Outstanding
  <2> HIDE DEF r
  <2>2. SameAccept(c, r)
    BY <2>1 DEF SameAccept, Settle, Gone
  <2>3. Becomes(c, r)
    BY <1>2 DEF Abandon, r
  <2> QED BY <2>1, <2>2, <2>3, BecomesInvariant
<1>3. CASE ReadFailed(c)
  BY <1>2, <1>3 DEF ReadFailed, Abandon
<1>4. CASE HandleReq(c)
  BY <1>1, <1>4 DEF HandleReq
<1>5. CASE IgnoreReq(c)
  <2> DEFINE r == CheckDeadline([conn[c] EXCEPT !.rd = "none"])
  <2>1. RecordInv(r) /\ Outstanding(r) /\ r.acc = conn[c].acc
    BY <1>0, <1>5 DEF RecordInv, Connection, Outstanding, CheckDeadline, IgnoreReq
  <2> HIDE DEF r
  <2>2. SameAccept(c, r)
    BY <2>1 DEF SameAccept, Settle
  <2>3. Becomes(c, r)
    BY <1>5 DEF IgnoreReq, r
  <2> QED BY <2>1, <2>2, <2>3, BecomesInvariant
<1>6. CASE HandleReqThrows(c)
  BY <1>2, <1>6 DEF HandleReqThrows
<1>7. CASE CallBackend(c)
  <2> DEFINE r == [conn[c] EXCEPT !.rd = "handling"]
  <2>1. RecordInv(r) /\ Outstanding(r) /\ r.acc = conn[c].acc
    BY <1>0, <1>7 DEF RecordInv, Connection, Outstanding, CallBackend
  <2> HIDE DEF r
  <2>2. SameAccept(c, r)
    BY <2>1 DEF SameAccept, Settle
  <2>3. Becomes(c, r)
    BY <1>7 DEF CallBackend, r
  <2> QED BY <2>1, <2>2, <2>3, BecomesInvariant
<1>8. CASE BackendReturns(c)
  BY <1>1, <1>2, <1>8 DEF BackendReturns
<1>9. CASE Written(c)
  <2> DEFINE r == [conn[c] EXCEPT !.wr   = "none",
                                  !.sock = IF @ = "open" THEN "shut" ELSE @,
                                  !.tm   = IF @ = "armed" THEN "cancelled" ELSE @]
  <2>1. conn[c].wr \in {"whole", "cut"} /\ Becomes(c, r)
    BY <1>9 DEF Written
  <2>2. conn[c].acc = "none" /\ conn[c].rd = "none"
    BY <1>0, <2>1 DEF RecordInv
  <2>3. Outstanding(r) => RecordInv(r)
    BY <1>0, <2>1, <2>2 DEF RecordInv, Connection, Outstanding
  <2>4. r.acc = "none"
    BY <1>0, <2>2 DEF RecordInv, Connection
  <2> HIDE DEF r
  <2>5. SameAccept(c, r)
    BY <2>2, <2>4 DEF SameAccept, Settle, Gone
  <2> QED BY <2>1, <2>3, <2>5, BecomesInvariant
<1>10. CASE DeadlinePassed(c)
  <2> DEFINE r == [conn[c] EXCEPT !.tm   = "none",
                                  !.sock = "closed",
                                  !.wr   = IF @ = "pending" THEN "cut" ELSE @]
  <2>1. conn[c].tm = "fired" /\ Becomes(c, r)
    BY <1>10 DEF DeadlinePassed
  <2>2. conn[c].acc = "none" /\ conn[c].rd = "none" /\ conn[c].age = Deadline
    BY <1>0, <2>1 DEF RecordInv
  <2>3. Outstanding(r) => RecordInv(r)
    BY <1>0, <2>1, <2>2 DEF RecordInv, Connection, Outstanding
  <2>4. r.acc = "none"
    BY <1>0, <2>2 DEF RecordInv, Connection
  <2> HIDE DEF r
  <2>5. SameAccept(c, r)
    BY <2>2, <2>4 DEF SameAccept, Settle, Gone
  <2> QED BY <2>1, <2>3, <2>5, BecomesInvariant
<1>11. CASE DeadlineCancelled(c)
  <2> DEFINE r == [conn[c] EXCEPT !.tm = "none"]
  <2>1. conn[c].tm = "cancelled" /\ Becomes(c, r)
    BY <1>11 DEF DeadlineCancelled
  <2>2. conn[c].acc = "none" /\ conn[c].rd = "none" /\ conn[c].wr # "pending"
    BY <1>0, <2>1 DEF RecordInv
  <2>3. Outstanding(r) => RecordInv(r)
    BY <1>0, <2>1, <2>2 DEF RecordInv, Connection, Outstanding
  <2>4. r.acc = "none"
    BY <1>0, <2>2 DEF RecordInv, Connection
  <2> HIDE DEF r
  <2>5. SameAccept(c, r)
    BY <2>2, <2>4 DEF SameAccept, Settle, Gone
  <2> QED BY <2>1, <2>3, <2>5, BecomesInvariant
<1> QED BY <1>3, <1>4, <1>5, <1>6, <1>7, <1>8, <1>9, <1>10, <1>11 DEF ReadHandler, TimerHandler

-------------------------------------------------------------------------------
(* The steps that change all connections.                                  *)

LEMMA TickInvariant == ASSUME IInv, Tick PROVE IInv'
<1>1. \A n \in 0..Deadline : Grow(n) \in 0..Deadline /\ (n = Deadline => Grow(n) = n)
  BY DeadlinePositive DEF Grow
<1> DEFINE older(c) == IF ~Alive(c) THEN conn[c]
                       ELSE [conn[c] EXCEPT
                               !.age  = Grow(@),
                               !.held = IF conn[c].acc = "pending" THEN @ ELSE Grow(@)]
<1>2. conn' = [c \in Conns |-> older(c)]
  BY DEF Tick
<1>3. ASSUME NEW c \in Conns
      PROVE  RecordInv(older(c)) /\ older(c).acc = conn[c].acc
  <2>1. RecordInv(conn[c])
    BY <1>3 DEF IInv
  <2>2. conn[c].age \in 0..Deadline /\ conn[c].held \in 0..Deadline
    BY <2>1 DEF RecordInv, Connection
  <2> QED BY <1>1, <2>1, <2>2 DEF RecordInv, Connection, Outstanding, Alive
<1> HIDE DEF older
<1>4. \A c \in Conns : RecordInv(conn[c])'
  <2> SUFFICES ASSUME NEW c \in Conns PROVE RecordInv(conn[c])'
    OBVIOUS
  <2>1. RecordInv(conn'[c])
    BY <1>2, <1>3
  <2> QED BY <2>1 DEF RecordInv, Connection, Outstanding, Gone
<1>5. conn' \in [Conns -> Connection]
  BY <1>2, <1>3 DEF RecordInv
<1>6. OneAccept'
  <2>1. \A c \in Conns : conn'[c].acc = conn[c].acc
    BY <1>2, <1>3
  <2>2. OneAccept /\ loop' = loop
    BY DEF IInv, Tick
  <2> QED BY <2>1, <2>2 DEF OneAccept
<1> QED BY <1>4, <1>5, <1>6 DEF IInv, Tick

LEMMA SignalInvariant == ASSUME IInv, RaiseSignal \/ SignalHandler PROVE IInv'
<1>1. CASE RaiseSignal
  BY <1>1 DEF RaiseSignal, IInv, OneAccept, RecordInv, Connection, Outstanding, Gone
<1>2. CASE SignalHandler
  <2>1. conn' = [c \in Conns |-> Gone] /\ loop' = "stopped" /\ signal' = "handled"
    BY <1>2 DEF SignalHandler
  <2>2. \A c \in Conns : RecordInv(conn[c])'
    <3> SUFFICES ASSUME NEW c \in Conns PROVE RecordInv(conn[c])'
      OBVIOUS
    <3>1. RecordInv(conn'[c])
      BY <2>1, GoneRecord
    <3> QED BY <3>1 DEF RecordInv, Connection, Outstanding, Gone
  <2>3. conn' \in [Conns -> Connection]
    BY <2>1, GoneRecord DEF RecordInv
  <2>4. OneAccept'
    BY <2>1 DEF OneAccept
  <2> QED BY <2>1, <2>2, <2>3, <2>4 DEF IInv
<1> QED BY <1>1, <1>2

LEMMA NextInvariant == IInv /\ [Next]_vars => IInv'
<1> SUFFICES ASSUME IInv, [Next]_vars PROVE IInv'
  OBVIOUS
<1>1. ASSUME NEW c \in Conns, Event(c) PROVE IInv'
  BY <1>1, EventInvariant
<1>2. ASSUME NEW c \in Conns, Handler(c) \/ BackendReturns(c) PROVE IInv'
  BY <1>2, AcceptInvariant, OtherHandlersInvariant DEF Handler
<1>3. CASE Tick
  BY <1>3, TickInvariant
<1>4. CASE RaiseSignal \/ SignalHandler
  BY <1>4, SignalInvariant
<1>5. CASE UNCHANGED vars
  BY <1>5 DEF vars, IInv, OneAccept, RecordInv, Connection, Outstanding, Gone
<1> QED BY <1>1, <1>2, <1>3, <1>4, <1>5 DEF Next, Exited

\* The invariant the other theorems rest on.
THEOREM Invariance == Spec => []IInv
  BY InitInvariant, NextInvariant, PTL DEF Spec

\* TypeOK of GateServer: every record is one an HttpConnection can have.
THEOREM TypeCorrect == Spec => []TypeOK
<1>1. IInv => TypeOK
  BY DEF IInv, TypeOK
<1> QED BY <1>1, Invariance, PTL

\* CServer has exactly one accept going on, however connections end.
THEOREM AlwaysOneAccept == Spec => []OneAccept
<1>1. IInv => OneAccept
  BY DEF IInv
<1> QED BY <1>1, Invariance, PTL

\* A write that is pending has its deadline on the way.
THEOREM StalledWritesGuarded == Spec => []StalledWriteIsGuarded
<1>1. IInv => StalledWriteIsGuarded
  BY DEF IInv, RecordInv, StalledWriteIsGuarded
<1> QED BY <1>1, Invariance, PTL

\* No connection that is answered or closed is kept until its deadline.
THEOREM AnsweredConnectionsReleased == Spec => []AnsweredIsReleased
<1>1. IInv => AnsweredIsReleased
  BY DEF IInv, RecordInv, AnsweredIsReleased
<1> QED BY <1>1, Invariance, PTL

\* The server closes a socket only when the deadline has passed.
THEOREM SocketsClosedAtDeadline == Spec => []ClosedOnlyAtDeadline
<1>1. IInv => ClosedOnlyAtDeadline
  BY DEF IInv, RecordInv, ClosedOnlyAtDeadline
<1> QED BY <1>1, Invariance, PTL

-------------------------------------------------------------------------------
(* The refinement of ShortConnection.                                      *)

phases == [c \in Conns |-> PhaseOf(conn[c])]

LEMMA PhaseOfGone == PhaseOf(Gone) = "free"
  BY DEF PhaseOf, Gone, Outstanding

LEMMA PhaseOfListening == PhaseOf(Listening) = "listening"
  BY DEF PhaseOf, Listening, Gone, Outstanding

\* A step of one connection moves its phase alone.
LEMMA BecomesPhase ==
    ASSUME IInv, NEW c \in Conns, NEW r, Becomes(c, r)
    PROVE  /\ phases' = [phases EXCEPT ![c] = PhaseOf(Settle(r))]
           /\ phases[c] = PhaseOf(conn[c])
           /\ (loop' = "running") = (loop = "running")
<1>1. \A d \in Conns : conn'[d] = IF d = c THEN Settle(r) ELSE conn[d]
  BY DEF Becomes, IInv
<1>2. phases' = [d \in Conns |-> PhaseOf(conn'[d])]
  BY DEF phases, PhaseOf, Outstanding
<1>3. phases' = [d \in Conns |-> IF d = c THEN PhaseOf(Settle(r)) ELSE PhaseOf(conn[d])]
  BY <1>1, <1>2
<1> QED BY <1>3 DEF phases, Becomes

LEMMA ShortInitImplemented == Init => Short!ShortInit
<1> SUFFICES ASSUME Init PROVE Short!ShortInit
  OBVIOUS
<1>1. PICK c \in Conns : conn = [d \in Conns |-> IF d = c THEN Listening ELSE Gone]
  BY DEF Init
<1>2. phases = [d \in Conns |-> IF d = c THEN "listening" ELSE "free"]
  BY <1>1, PhaseOfGone, PhaseOfListening DEF phases
<1> QED BY <1>2 DEF Short!ShortInit, phases, Init

\* A connection moves from the phase of its old record to that of its new one.
LEMMA MovesPhase ==
    ASSUME IInv, loop = "running", NEW c \in Conns, NEW r, Becomes(c, r)
    PROVE  Short!Moves(c, PhaseOf(conn[c]), PhaseOf(Settle(r)))
  BY BecomesPhase DEF Short!Moves, phases

\* A connection that keeps its phase does not show in ShortConnection.
LEMMA KeepsPhase ==
    ASSUME IInv, NEW c \in Conns, NEW r, Becomes(c, r),
           PhaseOf(Settle(r)) = PhaseOf(conn[c])
    PROVE  UNCHANGED Short!shortVars
<1>1. phases' = [phases EXCEPT ![c] = phases[c]]
  BY BecomesPhase
<1>2. phases' = phases
  BY <1>1 DEF phases
<1> QED BY <1>2, BecomesPhase DEF Short!shortVars, phases

LEMMA EventStep ==
    ASSUME IInv, NEW c \in Conns, Event(c)
    PROVE  [Short!ShortNext]_(Short!shortVars)
<1>0. RecordInv(conn[c]) /\ loop = "running"
  BY DEF IInv, Event, AcceptCompletes, ReadCompletes, WriteCompletes, TimerExpires
<1>1. CASE AcceptCompletes(c)
  <2>1. PICK r : /\ Becomes(c, r)
                 /\ r \in {[conn[c] EXCEPT !.acc = "ok", !.sock = "open"],
                           [conn[c] EXCEPT !.acc = "err"]}
    BY <1>1 DEF AcceptCompletes
  <2>2. PhaseOf(Settle(r)) = "listening" /\ PhaseOf(conn[c]) = "listening"
    BY <1>0, <1>1, <2>1 DEF AcceptCompletes, RecordInv, Connection, PhaseOf, Settle, Outstanding
  <2> QED BY <2>1, <2>2, KeepsPhase
<1>2. CASE ReadCompletes(c)
  <2>1. PICK result \in {"got", "err"} : Becomes(c, [conn[c] EXCEPT !.rd = result])
    BY <1>2 DEF ReadCompletes
  <2> DEFINE r == [conn[c] EXCEPT !.rd = result]
  <2>2. PhaseOf(Settle(r)) = "reading" /\ PhaseOf(conn[c]) = "reading"
    BY <1>0, <1>2 DEF ReadCompletes, RecordInv, Connection, PhaseOf, Settle, Outstanding
  <2> QED BY <2>1, <2>2, KeepsPhase
<1>3. CASE WriteCompletes(c)
  <2>1. PICK result \in {"whole", "cut"} : Becomes(c, [conn[c] EXCEPT !.wr = result])
    BY <1>3 DEF WriteCompletes
  <2> DEFINE r == [conn[c] EXCEPT !.wr = result]
  <2>2. PhaseOf(Settle(r)) = "ending" /\ PhaseOf(conn[c]) = "answering"
    BY <1>0, <1>3 DEF WriteCompletes, RecordInv, Connection, PhaseOf, Settle, Outstanding
  <2>3. Short!FinishReply(c)
    BY <1>0, <2>1, <2>2, MovesPhase DEF Short!FinishReply
  <2> QED BY <2>3 DEF Short!ShortNext
<1>4. CASE TimerExpires(c)
  <2> DEFINE r == [conn[c] EXCEPT !.tm = "fired"]
  <2>1. Becomes(c, r)
    BY <1>4 DEF TimerExpires
  <2>2. PhaseOf(Settle(r)) = PhaseOf(conn[c])
    BY <1>0, <1>4 DEF TimerExpires, RecordInv, Connection, PhaseOf, Settle, Outstanding
  <2> QED BY <2>1, <2>2, KeepsPhase
<1> QED BY <1>1, <1>2, <1>3, <1>4 DEF Event

LEMMA AcceptStep ==
    ASSUME IInv, NEW c \in Conns, AcceptHandler(c)
    PROVE  Short!ShortNext
<1>1. PICK d \in Free, r \in {[conn[c] EXCEPT !.acc = "none", !.rd = "pending"], Gone} :
         conn' = [conn EXCEPT ![c] = r, ![d] = Listening]
  BY DEF AcceptHandler, Accepted, AcceptFailed
<1>2. conn[c].acc # "none" /\ loop = "running" /\ UNCHANGED loop
  BY DEF AcceptHandler, Accepted, AcceptFailed, Polling
<1>3. d \in Conns /\ d # c /\ ~Outstanding(conn[d])
  BY <1>2 DEF Free, Alive, Outstanding
<1>4. PhaseOf(conn[c]) = "listening" /\ PhaseOf(conn[d]) = "free"
  BY <1>2, <1>3 DEF PhaseOf, Outstanding, RecordInv, IInv
<1>5. PhaseOf(r) \in {"reading", "free"}
  <2>1. CASE r = Gone
    BY <2>1, PhaseOfGone
  <2>2. CASE r = [conn[c] EXCEPT !.acc = "none", !.rd = "pending"]
    <3>1. RecordInv(conn[c])
      BY DEF IInv
    <3>2. r.acc = "none" /\ r.rd = "pending" /\ r.wr = "none" /\ r.tm = "none"
      BY <1>2, <2>2, <3>1 DEF RecordInv, Connection
    <3> QED BY <3>2 DEF PhaseOf, Outstanding
  <2> QED BY <1>1, <2>1, <2>2
<1>6. \A e \in Conns : conn'[e] = IF e = d THEN Listening ELSE IF e = c THEN r ELSE conn[e]
  BY <1>1, <1>3 DEF IInv
<1>7. phases' = [e \in Conns |-> PhaseOf(conn'[e])]
  BY DEF phases, PhaseOf, Outstanding
<1>8. phases' = [phases EXCEPT ![c] = PhaseOf(r), ![d] = "listening"]
  BY <1>3, <1>6, <1>7, PhaseOfListening DEF phases
<1>9. Short!HandOver(c, d)
  BY <1>2, <1>3, <1>4, <1>5, <1>8 DEF Short!HandOver, phases
<1> QED BY <1>3, <1>9 DEF Short!ShortNext

LEMMA HandlerStep ==
    ASSUME IInv, NEW c \in Conns,
           ReadHandler(c) \/ BackendReturns(c) \/ Written(c) \/ TimerHandler(c)
    PROVE  [Short!ShortNext]_(Short!shortVars)
<1>0. RecordInv(conn[c]) /\ loop = "running"
  BY DEF IInv, ReadHandler, ReadFailed, HandleReq, IgnoreReq, HandleReqThrows, CallBackend,
         BackendReturns, Written, TimerHandler, DeadlinePassed, DeadlineCancelled, Polling
<1> USE DEF RecordInv, Connection, PhaseOf, Settle, Outstanding
<1>1. ASSUME conn[c].rd # "none", Respond(c)
      PROVE  Short!ShortNext
  <2> DEFINE r == CheckDeadline(WriteResponse([conn[c] EXCEPT !.rd = "none"]))
  <2>1. Becomes(c, r)
    BY <1>1 DEF Respond
  <2>2. PhaseOf(Settle(r)) = "answering" /\ PhaseOf(conn[c]) = "reading"
    BY <1>0, <1>1 DEF CheckDeadline, WriteResponse
  <2>3. Short!Answer(c)
    BY <1>0, <2>1, <2>2, MovesPhase DEF Short!Answer
  <2> QED BY <2>3 DEF Short!ShortNext
<1>2. ASSUME conn[c].rd # "none", Abandon(c)
      PROVE  Short!ShortNext
  <2> DEFINE r == [conn[c] EXCEPT !.rd = "none"]
  <2>1. Becomes(c, r)
    BY <1>2 DEF Abandon
  <2>2. PhaseOf(Settle(r)) = "free" /\ PhaseOf(conn[c]) = "reading"
    BY <1>0, <1>2 DEF Gone
  <2>3. Short!Drop(c)
    BY <1>0, <2>1, <2>2, MovesPhase DEF Short!Drop
  <2> QED BY <2>3 DEF Short!ShortNext
<1>3. CASE ReadFailed(c)
  BY <1>2, <1>3 DEF ReadFailed, Abandon
<1>4. CASE HandleReq(c)
  BY <1>1, <1>4 DEF HandleReq
<1>5. CASE IgnoreReq(c)
  <2> DEFINE r == CheckDeadline([conn[c] EXCEPT !.rd = "none"])
  <2>1. Becomes(c, r)
    BY <1>5 DEF IgnoreReq
  <2>2. PhaseOf(Settle(r)) = "ending" /\ PhaseOf(conn[c]) = "reading"
    BY <1>0, <1>5 DEF CheckDeadline, IgnoreReq
  <2>3. Short!Ignore(c)
    BY <1>0, <2>1, <2>2, MovesPhase DEF Short!Ignore
  <2> QED BY <2>3 DEF Short!ShortNext
<1>6. CASE HandleReqThrows(c)
  BY <1>2, <1>6 DEF HandleReqThrows
<1>7. CASE CallBackend(c)
  <2> DEFINE r == [conn[c] EXCEPT !.rd = "handling"]
  <2>1. Becomes(c, r)
    BY <1>7 DEF CallBackend
  <2>2. PhaseOf(Settle(r)) = "reading" /\ PhaseOf(conn[c]) = "reading"
    BY <1>0, <1>7 DEF CallBackend
  <2> QED BY <2>1, <2>2, KeepsPhase
<1>8. CASE BackendReturns(c)
  BY <1>1, <1>2, <1>8 DEF BackendReturns
<1>9. CASE Written(c)
  <2> DEFINE r == [conn[c] EXCEPT !.wr   = "none",
                                  !.sock = IF @ = "open" THEN "shut" ELSE @,
                                  !.tm   = IF @ = "armed" THEN "cancelled" ELSE @]
  <2>1. Becomes(c, r)
    BY <1>9 DEF Written
  <2>2. PhaseOf(Settle(r)) \in {"ending", "free"} /\ PhaseOf(conn[c]) = "ending"
    BY <1>0, <1>9 DEF Written, Gone
  <2> HIDE DEF r, PhaseOf, Settle
  <2>3. CASE PhaseOf(Settle(r)) = "ending"
    BY <2>1, <2>2, <2>3, KeepsPhase
  <2>4. CASE PhaseOf(Settle(r)) = "free"
    BY <1>0, <2>1, <2>2, <2>4, MovesPhase DEF Short!End, Short!ShortNext
  <2> QED BY <2>2, <2>3, <2>4
<1>10. CASE DeadlinePassed(c)
  <2> DEFINE r == [conn[c] EXCEPT !.tm   = "none",
                                  !.sock = "closed",
                                  !.wr   = IF @ = "pending" THEN "cut" ELSE @]
  <2>1. Becomes(c, r)
    BY <1>10 DEF DeadlinePassed
  <2>2. \/ PhaseOf(Settle(r)) = "ending" /\ PhaseOf(conn[c]) \in {"answering", "ending"}
        \/ PhaseOf(Settle(r)) = "free" /\ PhaseOf(conn[c]) = "ending"
    BY <1>0, <1>10 DEF DeadlinePassed, Gone
  <2> HIDE DEF r, PhaseOf, Settle
  <2>3. CASE PhaseOf(Settle(r)) = PhaseOf(conn[c])
    BY <2>1, <2>3, KeepsPhase
  <2>4. CASE PhaseOf(Settle(r)) = "ending" /\ PhaseOf(conn[c]) = "answering"
    BY <1>0, <2>1, <2>4, MovesPhase DEF Short!FinishReply, Short!ShortNext
  <2>5. CASE PhaseOf(Settle(r)) = "free" /\ PhaseOf(conn[c]) = "ending"
    BY <1>0, <2>1, <2>5, MovesPhase DEF Short!End, Short!ShortNext
  <2> QED BY <2>2, <2>3, <2>4, <2>5
<1>11. CASE DeadlineCancelled(c)
  <2> DEFINE r == [conn[c] EXCEPT !.tm = "none"]
  <2>1. Becomes(c, r)
    BY <1>11 DEF DeadlineCancelled
  <2>2. PhaseOf(Settle(r)) \in {"ending", "free"} /\ PhaseOf(conn[c]) = "ending"
    BY <1>0, <1>11 DEF DeadlineCancelled, Gone
  <2> HIDE DEF r, PhaseOf, Settle
  <2>3. CASE PhaseOf(Settle(r)) = "ending"
    BY <2>1, <2>2, <2>3, KeepsPhase
  <2>4. CASE PhaseOf(Settle(r)) = "free"
    BY <1>0, <2>1, <2>2, <2>4, MovesPhase DEF Short!End, Short!ShortNext
  <2> QED BY <2>2, <2>3, <2>4
<1> QED BY <1>3, <1>4, <1>5, <1>6, <1>7, <1>8, <1>9, <1>10, <1>11 DEF ReadHandler, TimerHandler

LEMMA TickStep == ASSUME IInv, Tick PROVE UNCHANGED Short!shortVars
<1>1. ASSUME NEW c \in Conns
      PROVE  PhaseOf(conn'[c]) = PhaseOf(conn[c])
  <2>1. conn[c] \in Connection
    BY DEF IInv
  <2>2. conn'[c] = IF ~Alive(c) THEN conn[c]
                   ELSE [conn[c] EXCEPT
                           !.age  = Grow(@),
                           !.held = IF conn[c].acc = "pending" THEN @ ELSE Grow(@)]
    BY DEF Tick
  <2> QED BY <2>1, <2>2 DEF PhaseOf, Outstanding, Connection
<1>2. phases' = [c \in Conns |-> PhaseOf(conn'[c])]
  BY DEF phases, PhaseOf, Outstanding
<1>3. phases' = phases
  BY <1>1, <1>2 DEF phases
<1> QED BY <1>3 DEF Short!shortVars, phases, Tick

LEMMA SignalStep ==
    ASSUME IInv, RaiseSignal \/ SignalHandler
    PROVE  [Short!ShortNext]_(Short!shortVars)
<1>1. CASE RaiseSignal
  BY <1>1 DEF RaiseSignal, Short!shortVars, PhaseOf, Outstanding
<1>2. CASE SignalHandler
  <2>1. \A c \in Conns : conn'[c] = Gone
    BY <1>2 DEF SignalHandler
  <2>2. phases' = [c \in Conns |-> PhaseOf(conn'[c])]
    BY DEF phases, PhaseOf, Outstanding
  <2>3. phases' = [c \in Conns |-> "free"]
    BY <2>1, <2>2, PhaseOfGone
  <2>4. Short!GoDown
    BY <1>2, <2>3 DEF Short!GoDown, phases, SignalHandler, Polling
  <2> QED BY <2>4 DEF Short!ShortNext
<1> QED BY <1>1, <1>2

LEMMA ShortStep == IInv /\ [Next]_vars => [Short!ShortNext]_(Short!shortVars)
<1> SUFFICES ASSUME IInv, [Next]_vars PROVE [Short!ShortNext]_(Short!shortVars)
  OBVIOUS
<1>1. ASSUME NEW c \in Conns, Event(c) PROVE [Short!ShortNext]_(Short!shortVars)
  BY <1>1, EventStep
<1>2. ASSUME NEW c \in Conns, Handler(c) \/ BackendReturns(c) PROVE [Short!ShortNext]_(Short!shortVars)
  BY <1>2, AcceptStep, HandlerStep DEF Handler
<1>3. CASE Tick
  BY <1>3, TickStep
<1>4. CASE RaiseSignal \/ SignalHandler
  BY <1>4, SignalStep
<1>5. CASE UNCHANGED vars
  BY <1>5 DEF vars, Short!shortVars, PhaseOf, Outstanding
<1> QED BY <1>1, <1>2, <1>3, <1>4, <1>5 DEF Next, Exited

\* Every behaviour of the event loop is one of ShortConnection: connections
\* are accepted one after another and answered at most once.
THEOREM ServerImplementsShortConnection == Spec => ImplementsShortConnection
  BY Invariance, ShortInitImplemented, ShortStep, PTL
     DEF Spec, ImplementsShortConnection, Short!ShortSpec
===============================================================================
