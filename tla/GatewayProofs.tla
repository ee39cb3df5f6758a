------------------------------ MODULE GatewayProofs ------------------------------
(***************************************************************************)
(* Proofs about LogicSystem and about Gateway, for any sets of             *)
(* connections, emails, users and codes, any deadline and any size of the  *)
(* pool.  First the handlers alone; then the whole server: the event loop  *)
(* keeps what is true of the handlers and they what is true of the loop,   *)
(* one of them runs at a time, and none waits for a connection it holds.   *)
(***************************************************************************)
EXTENDS Gateway, TLAPS

-------------------------------------------------------------------------------
(* The handlers alone: LogicSystem, whose only caller may be any.          *)

\* What tells the three kinds of request apart.
LEMMA Kinds ==
    /\ NoRequest.step = "idle"
    /\ \A r \in Verifying : r.step \in {"rpc", "report"}
    /\ \A r \in Registering : r.step \in {"get", "exists"}
  BY DEF NoRequest, Verifying, Registering

\* A handler that ends leaves no request, and one that goes on keeps it.
LEMMA EndedRequest ==
    ASSUME NEW a \in Answers, Finish(a)
    PROVE  req' = NoRequest /\ answer' \in Answers
  BY DEF Finish

LEMMA ContinuedRequest ==
    ASSUME req \in Registering, GoOn("exists")
    PROVE  req' \in Registering /\ req'.step = "exists" /\ answer' = "none"
  BY DEF GoOn, Registering

\* returnConnection puts back what getConnection took.
LEMMA PoolAfterCommand ==
    ASSUME TypeOK, Connected, NEW outcome, GiveBack(outcome)
    PROVE  pool' \in Seq({"good", "broken"}) /\ Len(pool') <= PoolSize
<1>1. pool \in Seq({"good", "broken"}) /\ pool # <<>> /\ Len(pool) <= PoolSize
  BY DEF TypeOK, Connected
<1>2. /\ Head(pool) \in {"good", "broken"}
      /\ Tail(pool) \in Seq({"good", "broken"})
      /\ Len(Tail(pool)) = Len(pool) - 1
      /\ Len(pool) \in Nat
  BY <1>1
<1> DEFINE x == IF outcome = "null" THEN "broken" ELSE Head(pool)
<1>3. x \in {"good", "broken"} /\ pool' = Append(Tail(pool), x)
  BY <1>2 DEF GiveBack
<1> HIDE DEF x
<1>4. pool' \in Seq({"good", "broken"}) /\ Len(pool') = Len(Tail(pool)) + 1
  BY <1>2, <1>3
<1> QED BY <1>1, <1>2, <1>4, PoolSizeNat

-------------------------------------------------------------------------------
LEMMA InitTyped == Init => TypeOK
  BY PoolSizeNat DEF Init, TypeOK, Unbuilt, Answers

LEMMA EnvironmentTyped == ASSUME TypeOK, Environment PROVE TypeOK'
  BY DEF TypeOK, Environment, CodeExpires, UserAppears, Answers

LEMMA ArrivalTyped == ASSUME TypeOK, RejectBody \/ Receive PROVE TypeOK'
  BY DEF TypeOK, RejectBody, Receive, Answers

LEMMA VerifyTyped == ASSUME TypeOK, GetVerifyCode \/ Report PROVE TypeOK'
<1>1. CASE GetVerifyCode
  <2>1. req \in Verifying
    BY <1>1, Kinds DEF GetVerifyCode, TypeOK
  <2>2. codes' \in [Emails -> Codes \cup {NoCode}]
    BY <1>1, <2>1 DEF GetVerifyCode, VerifyServer, TypeOK
  <2>3. req' \in Verifying
    BY <1>1, <2>1 DEF GetVerifyCode, Verifying
  <2> QED BY <1>1, <2>2, <2>3 DEF TypeOK, GetVerifyCode, Answers
<1>2. CASE Report
  BY <1>2 DEF Report, Finish, TypeOK, Answers
<1> QED BY <1>1, <1>2

LEMMA BuildTyped == ASSUME TypeOK, BuildPool PROVE TypeOK'
<1>1. built' \in 0..PoolSize /\ pool' = [i \in 1..built' |-> "good"]
  BY DEF BuildPool
<1>2. pool' \in Seq({"good", "broken"}) /\ Len(pool') <= PoolSize
  BY <1>1, PoolSizeNat
<1> QED BY <1>1, <1>2, PoolSizeNat DEF BuildPool, TypeOK, Unbuilt, Answers

LEMMA GetTyped == ASSUME TypeOK, Get PROVE TypeOK'
<1>1. PICK outcome \in Outcomes : GiveBack(outcome) /\ AfterGet(GetReply(outcome))
  BY DEF Get
<1>2. pool' \in Seq({"good", "broken"}) /\ Len(pool') <= PoolSize
  BY <1>1, PoolAfterCommand DEF Get
<1>3. req \in Registering
  BY Kinds DEF Get, TypeOK
<1>4. \/ \E a \in Answers : Finish(a)
      \/ GoOn("exists")
  BY <1>1 DEF AfterGet, Answers
<1>5. req' \in {NoRequest} \cup Registering /\ answer' \in Answers
  BY <1>3, <1>4, EndedRequest, ContinuedRequest DEF TypeOK, Answers
<1> QED BY <1>2, <1>5 DEF TypeOK, Get

LEMMA ExistsTyped == ASSUME TypeOK, ExistsKey PROVE TypeOK'
<1>1. PICK outcome \in Outcomes : GiveBack(outcome) /\ AfterExists(ExistsReply(outcome))
  BY DEF ExistsKey
<1>2. pool' \in Seq({"good", "broken"}) /\ Len(pool') <= PoolSize
  BY <1>1, PoolAfterCommand DEF ExistsKey
<1>3. \E a \in Answers : Finish(a)
  BY <1>1 DEF AfterExists, Answers
<1>4. req' = NoRequest /\ answer' \in Answers
  BY <1>3, EndedRequest
<1> QED BY <1>2, <1>4 DEF TypeOK, ExistsKey

LEMMA NextTyped == TypeOK /\ [Next]_vars => TypeOK'
<1> SUFFICES ASSUME TypeOK, [Next]_vars PROVE TypeOK'
  OBVIOUS
<1>1. CASE UNCHANGED vars
  BY <1>1 DEF vars, TypeOK
<1> QED BY <1>1, EnvironmentTyped, ArrivalTyped, VerifyTyped, BuildTyped, GetTyped, ExistsTyped
        DEF Next, Handle

\* Every variable has a value it can have in the program; the pool never
\* holds more connections than it was built with room for.
THEOREM TypeCorrect == Spec => []TypeOK
  BY InitTyped, NextTyped, PTL DEF Spec

-------------------------------------------------------------------------------
(* The action properties of /user_register.                                *)

\* The step relation of RegisteredWithItsCode.
CodeChecked ==
    /\ (req'.step = "exists" /\ req.step # "exists") => codes[req.email] = req.code
    /\ RegisteringEnds("Success") => req.step = "exists"

\* The step relation of RefusalsTruthful.
RefusalTrue ==
    /\ RegisteringEnds("UserExist") => req.user \in users
    /\ RegisteringEnds("VerifyCodeErr") => codes[req.email] \notin {NoCode, req.code}

\* What the handler knows after RedisMgr::Get.
LEMMA GetOutcome ==
    ASSUME TypeOK, Get
    PROVE  /\ req \in Registering /\ req.step = "get"
           /\ \/ req' = NoRequest /\ answer' \in {"VerifyExpired", "abandoned"}
              \/ /\ req' = NoRequest /\ answer' = "VerifyCodeErr"
                 /\ codes[req.email] \notin {NoCode, req.code}
              \/ /\ req'.step = "exists" /\ req' # NoRequest
                 /\ codes[req.email] = req.code
<1>1. PICK outcome \in Outcomes : AfterGet(GetReply(outcome))
  BY DEF Get
<1>2. req \in Registering /\ req.step = "get" /\ req.code \in Codes
  BY Kinds DEF Get, TypeOK, Registering
<1> DEFINE v == GetReply(outcome)
<1>3. v # NoCode => codes[req.email] = v
  BY DEF GetReply
<1> HIDE DEF v
<1>4. CASE Finish("VerifyExpired") \/ Finish("abandoned")
  BY <1>2, <1>4 DEF Finish
<1>5. CASE v # NoCode /\ v # req.code /\ Finish("VerifyCodeErr")
  BY <1>2, <1>3, <1>5 DEF Finish
<1>6. CASE v # NoCode /\ v = req.code /\ GoOn("exists")
  BY <1>2, <1>3, <1>6, ContinuedRequest, Kinds
<1> QED BY <1>1, <1>4, <1>5, <1>6 DEF AfterGet, v

\* What the handler knows after RedisMgr::ExistsKey.
LEMMA ExistsOutcome ==
    ASSUME TypeOK, ExistsKey
    PROVE  /\ req \in Registering /\ req.step = "exists"
           /\ req' = NoRequest
           /\ answer' \in {"UserExist", "Success", "abandoned"}
           /\ answer' = "UserExist" => req.user \in users
<1>1. PICK outcome \in Outcomes : AfterExists(ExistsReply(outcome))
  BY DEF ExistsKey
<1>2. req \in Registering /\ req.step = "exists"
  BY Kinds DEF ExistsKey, TypeOK
<1> QED BY <1>1, <1>2 DEF AfterExists, ExistsReply, Finish

\* No other step ends a registration or begins its second command.
LEMMA OtherSteps ==
    ASSUME TypeOK,
           Environment \/ RejectBody \/ Receive \/ GetVerifyCode \/ Report \/ BuildPool \/ UNCHANGED vars
    PROVE  /\ req'.step = "exists" => req.step = "exists"
           /\ ~(req \in Registering /\ req' = NoRequest)
<1>1. CASE UNCHANGED req
  BY <1>1, Kinds
<1>2. CASE Receive
  BY <1>2, Kinds DEF Receive, Idle
<1>3. CASE GetVerifyCode
  <2>1. req \in Verifying
    BY <1>3, Kinds DEF GetVerifyCode, TypeOK
  <2>2. req'.step = "report"
    BY <1>3, <2>1 DEF GetVerifyCode, Verifying
  <2> QED BY <2>1, <2>2, Kinds
<1>4. CASE Report
  BY <1>4, Kinds DEF Report, Finish
<1> QED BY <1>1, <1>2, <1>3, <1>4
        DEF Environment, CodeExpires, UserAppears, RejectBody, BuildPool, vars

LEMMA StepChecked == TypeOK /\ [Next]_vars => CodeChecked /\ RefusalTrue
<1> SUFFICES ASSUME TypeOK, [Next]_vars PROVE CodeChecked /\ RefusalTrue
  OBVIOUS
<1>1. CASE Get
  BY <1>1, GetOutcome, Kinds DEF CodeChecked, RefusalTrue, RegisteringEnds
<1>2. CASE ExistsKey
  BY <1>2, ExistsOutcome, Kinds DEF CodeChecked, RefusalTrue, RegisteringEnds
<1>3. CASE ~Get /\ ~ExistsKey
  BY <1>3, OtherSteps DEF Next, Handle, CodeChecked, RefusalTrue, RegisteringEnds
<1> QED BY <1>1, <1>2, <1>3

\* A registration that succeeds found its own code under its own email.
THEOREM RegistersWithItsCode == Spec => RegisteredWithItsCode
<1>1. TypeOK /\ [Next]_vars => [CodeChecked]_vars
  BY StepChecked
<1>2. RegisteredWithItsCode <=> [][CodeChecked]_vars
  BY DEF RegisteredWithItsCode, CodeChecked
<1> QED BY <1>1, <1>2, TypeCorrect, PTL DEF Spec

\* UserExist and VerifyCodeErr are true when they are answered.
THEOREM RefusesTruthfully == Spec => RefusalsTruthful
<1>1. TypeOK /\ [Next]_vars => [RefusalTrue]_vars
  BY StepChecked
<1>2. RefusalsTruthful <=> [][RefusalTrue]_vars
  BY DEF RefusalsTruthful, RefusalTrue
<1> QED BY <1>1, <1>2, TypeCorrect, PTL DEF Spec
-------------------------------------------------------------------------------
(* The refinement: each step is one of GateServer, or none of its own.     *)

LEMMA GateStep == [GatewayNext]_gatewayVars => [Gate!Next]_(Gate!vars)
<1> SUFFICES ASSUME [GatewayNext]_gatewayVars PROVE [Gate!Next]_(Gate!vars)
  OBVIOUS
<1> USE DEF Gate!vars, gateVars
<1>1. CASE Outside
  BY <1>1 DEF Outside, Gate!Next
<1>2. ASSUME NEW c \in Conns, Callback(c) PROVE Gate!Next
  BY <1>2 DEF Callback, Gate!Next, Gate!Handler, Gate!ReadHandler
<1>3. ASSUME NEW c \in Conns, RejectPost(c) PROVE Gate!Next
  BY <1>3 DEF RejectPost, Gate!Next, Gate!Handler, Gate!ReadHandler
<1>4. ASSUME NEW c \in Conns, StartPost(c) PROVE Gate!Next
  BY <1>4 DEF StartPost, Gate!Next, Gate!Handler, Gate!ReadHandler
<1>5. ASSUME NEW c \in Conns, HandlerStep(c) PROVE [Gate!Next]_(Gate!vars)
  BY <1>5 DEF HandlerStep, InHandler, Returns, Gate!Next, Gate!BackendReturns
<1>6. CASE SignalHandler
  BY <1>6 DEF SignalHandler, Gate!Next
<1>7. CASE Exited
  BY <1>7 DEF Exited, Gate!Next
<1>8. CASE UNCHANGED gatewayVars
  BY <1>8 DEF gatewayVars
<1> QED BY <1>1, <1>2, <1>3, <1>4, <1>5, <1>6, <1>7, <1>8 DEF GatewayNext

\* What the handlers really do is among the outcomes GateServer allows for.
THEOREM GatewayImplementsGateServer == GatewaySpec => ImplementsGateServer
<1>1. GatewayInit => Gate!Init
  BY DEF GatewayInit
<1> QED BY <1>1, GateStep, PTL DEF GatewaySpec, ImplementsGateServer, Gate!Spec

-------------------------------------------------------------------------------
(* The other refinement: each step is one of LogicSystem, or none of its   *)
(* own.  The event loop decides when a handler runs, never what it does,   *)
(* so what is proved of LogicSystem holds of the whole server.             *)

LEMMA LogicStep == [GatewayNext]_gatewayVars => [Next]_vars
<1> SUFFICES ASSUME [GatewayNext]_gatewayVars PROVE [Next]_vars
  OBVIOUS
<1> USE DEF vars
<1>1. CASE Outside
  BY <1>1 DEF Outside, Next
<1>2. ASSUME NEW c \in Conns, Callback(c) PROVE UNCHANGED vars
  BY <1>2 DEF Callback
<1>3. ASSUME NEW c \in Conns, RejectPost(c) PROVE Next
  BY <1>3 DEF RejectPost, Next
<1>4. ASSUME NEW c \in Conns, StartPost(c) PROVE Next
  BY <1>4 DEF StartPost, Next
<1>5. ASSUME NEW c \in Conns, HandlerStep(c) PROVE Next
  BY <1>5 DEF HandlerStep, Next
<1>6. CASE SignalHandler \/ Exited
  BY <1>6 DEF SignalHandler, Exited
<1>7. CASE UNCHANGED gatewayVars
  BY <1>7 DEF gatewayVars
<1> QED BY <1>1, <1>2, <1>3, <1>4, <1>5, <1>6, <1>7 DEF GatewayNext

\* The handlers that the event loop starts, one connection after the other,
\* behave as the single caller of LogicSystem does.
THEOREM GatewayImplementsLogicSystem == GatewaySpec => Spec
<1>1. GatewayInit => Init
  BY DEF GatewayInit
<1> QED BY <1>1, LogicStep, PTL DEF GatewaySpec, Spec

\* In the whole server, whatever the clients, the timers and the other
\* callbacks do: a registration succeeds only with its own code, and a refusal
\* names its reason.
THEOREM RegistrationInTheServer ==
    GatewaySpec => []TypeOK /\ RegisteredWithItsCode /\ RefusalsTruthful
  BY GatewayImplementsLogicSystem, TypeCorrect, RegistersWithItsCode, RefusesTruthfully
-------------------------------------------------------------------------------
(* One handler at a time.  OneHandler is inductive once the records of the *)
(* connections are known to be records: no bound on their ages is needed.  *)

Shape ==
    [acc  : {"none", "pending", "ok", "err"},
     rd   : {"none", "pending", "got", "err", "handling"},
     wr   : {"none", "pending", "whole", "cut"},
     tm   : {"none", "armed", "fired", "cancelled"},
     sock : {"none", "open", "shut", "closed"},
     age  : Nat, held : Nat]

Shaped == conn \in [Conns -> Shape]

Handling(c) == conn[c].rd = "handling"

LEMMA GoneShape ==
    /\ Gate!Gone \in Shape /\ Gate!Gone.rd = "none"
    /\ Gate!Listening \in Shape /\ Gate!Listening.rd = "none"
BY DEF Gate!Gone, Gate!Listening, Shape

\* A connection that becomes r is in a handler exactly if r says so; the
\* other connections stay as they are.
LEMMA BecomesHandling ==
    ASSUME Shaped, NEW c \in Conns, NEW r \in Shape, Gate!Becomes(c, r)
    PROVE  /\ Shaped'
           /\ Handling(c)' <=> r.rd = "handling"
           /\ \A d \in Conns \ {c} : Handling(d)' <=> Handling(d)
<1>1. conn' = [conn EXCEPT ![c] = Gate!Settle(r)]
  BY DEF Gate!Becomes
<1>2. /\ Gate!Settle(r) \in Shape
      /\ Gate!Settle(r).rd = "handling" <=> r.rd = "handling"
  BY GoneShape DEF Gate!Settle, Gate!Outstanding
<1> QED BY <1>1, <1>2 DEF Shaped, Handling

\* Clients, the network, the clock and signals leave the handlers alone.
LEMMA OutsideHandling ==
    ASSUME Shaped, (\E c \in Conns : Gate!Event(c)) \/ Gate!Tick \/ Gate!RaiseSignal
    PROVE  Shaped' /\ \A d \in Conns : Handling(d)' <=> Handling(d)
<1>1. ASSUME NEW c \in Conns, Gate!Event(c)
      PROVE  Shaped' /\ \A d \in Conns : Handling(d)' <=> Handling(d)
  <2>0. conn[c] \in Shape
    BY DEF Shaped
  <2>1. CASE Gate!AcceptCompletes(c)
    <3>1. PICK r : /\ Gate!Becomes(c, r)
                   /\ r \in {[conn[c] EXCEPT !.acc = "ok", !.sock = "open"],
                             [conn[c] EXCEPT !.acc = "err"]}
      BY <2>1 DEF Gate!AcceptCompletes
    <3>2. r \in Shape /\ r.rd = conn[c].rd
      BY <2>0, <3>1 DEF Shape
    <3> QED BY <3>1, <3>2, BecomesHandling DEF Handling
  <2>2. CASE Gate!ReadCompletes(c)
    <3>1. PICK result \in {"got", "err"} : Gate!Becomes(c, [conn[c] EXCEPT !.rd = result])
      BY <2>2 DEF Gate!ReadCompletes
    <3> DEFINE r == [conn[c] EXCEPT !.rd = result]
    <3>2. r \in Shape /\ r.rd # "handling" /\ conn[c].rd # "handling"
      BY <2>0, <2>2, <3>1 DEF Shape, Gate!ReadCompletes
    <3> QED BY <3>1, <3>2, BecomesHandling DEF Handling
  <2>3. CASE Gate!WriteCompletes(c)
    <3>1. PICK result \in {"whole", "cut"} : Gate!Becomes(c, [conn[c] EXCEPT !.wr = result])
      BY <2>3 DEF Gate!WriteCompletes
    <3> DEFINE r == [conn[c] EXCEPT !.wr = result]
    <3>2. r \in Shape /\ r.rd = conn[c].rd
      BY <2>0, <3>1 DEF Shape
    <3> QED BY <3>1, <3>2, BecomesHandling DEF Handling
  <2>4. CASE Gate!TimerExpires(c)
    <3> DEFINE r == [conn[c] EXCEPT !.tm = "fired"]
    <3>1. r \in Shape /\ r.rd = conn[c].rd
      BY <2>0 DEF Shape
    <3> QED BY <2>4, <3>1, BecomesHandling DEF Handling, Gate!TimerExpires
  <2> QED BY <1>1, <2>1, <2>2, <2>3, <2>4 DEF Gate!Event
<1>2. CASE Gate!Tick
  <2>1. \A n \in Nat : Gate!Grow(n) \in Nat
    BY DEF Gate!Grow
  <2>2. ASSUME NEW c \in Conns PROVE conn'[c] \in Shape /\ conn'[c].rd = conn[c].rd
    <3> DEFINE held == IF conn[c].acc = "pending" THEN conn[c].held ELSE Gate!Grow(conn[c].held)
    <3> DEFINE r == [conn[c] EXCEPT !.age = Gate!Grow(conn[c].age), !.held = held]
    <3>1. conn[c] \in Shape
      BY DEF Shaped
    <3>2. Gate!Grow(conn[c].age) \in Nat /\ held \in Nat
      BY <2>1, <3>1 DEF Shape
    <3>3. r \in Shape /\ r.rd = conn[c].rd
      <4> HIDE DEF held
      <4> QED BY <3>1, <3>2 DEF Shape
    <3>4. conn'[c] = conn[c] \/ conn'[c] = r
      BY <1>2 DEF Gate!Tick
    <3> QED BY <3>1, <3>3, <3>4
  <2>3. conn' \in [Conns -> Shape]
    BY <1>2, <2>2 DEF Gate!Tick
  <2> QED BY <2>2, <2>3 DEF Shaped, Handling
<1>3. CASE Gate!RaiseSignal
  BY <1>3 DEF Gate!RaiseSignal, Shaped, Handling
<1> QED BY <1>1, <1>2, <1>3

\* The end of a read handler, with a response or without.
LEMMA EndsHandling ==
    ASSUME Shaped, NEW c \in Conns, Gate!Respond(c) \/ Gate!Abandon(c)
    PROVE  /\ Shaped' /\ ~Handling(c)'
           /\ \A d \in Conns \ {c} : Handling(d)' <=> Handling(d)
<1> DEFINE q == [conn[c] EXCEPT !.rd = "none"]
<1> DEFINE written == [q EXCEPT !.wr = "pending"]
<1> DEFINE r == [written EXCEPT !.tm = "armed"]
<1>0. conn[c] \in Shape
  BY DEF Shaped
<1>1. q \in Shape /\ q.rd # "handling"
  BY <1>0 DEF Shape
<1>2. Gate!Becomes(c, q) \/ Gate!Becomes(c, r)
  BY DEF Gate!Respond, Gate!Abandon, Gate!CheckDeadline, Gate!WriteResponse
<1> HIDE DEF q
<1>3. written \in Shape /\ written.rd = q.rd
  BY <1>1 DEF Shape
<1> HIDE DEF written
<1>4. r \in Shape /\ r.rd = written.rd
  BY <1>3 DEF Shape
<1> HIDE DEF r
<1> QED BY <1>1, <1>2, <1>3, <1>4, BecomesHandling

\* A callback begins while none runs, and none runs when it has ended.
LEMMA CallbackHandling ==
    ASSUME Shaped, NEW c \in Conns,
           \/ Gate!AcceptHandler(c) \/ Gate!ReadFailed(c) \/ Gate!HandleReq(c)
           \/ Gate!IgnoreReq(c) \/ Gate!HandleReqThrows(c) \/ Gate!Written(c)
           \/ Gate!TimerHandler(c)
    PROVE  Shaped' /\ \A d \in Conns : ~Handling(d) /\ ~Handling(d)'
<1>1. \A d \in Conns : ~Handling(d)
  BY DEF Gate!AcceptHandler, Gate!Accepted, Gate!AcceptFailed, Gate!ReadFailed,
         Gate!HandleReq, Gate!IgnoreReq, Gate!HandleReqThrows, Gate!Written,
         Gate!TimerHandler, Gate!DeadlinePassed, Gate!DeadlineCancelled, Gate!Polling, Handling
<1>0. conn[c] \in Shape
  BY DEF Shaped
<1>2. CASE Gate!AcceptHandler(c)
  <2>1. PICK d \in Conns, r \in {[conn[c] EXCEPT !.acc = "none", !.rd = "pending"], Gate!Gone} :
           conn' = [conn EXCEPT ![c] = r, ![d] = Gate!Listening]
    BY <1>2 DEF Gate!AcceptHandler, Gate!Accepted, Gate!AcceptFailed, Gate!Free
  <2>2. r \in Shape /\ r.rd # "handling"
    <3>1. CASE r = [conn[c] EXCEPT !.acc = "none", !.rd = "pending"]
      BY <1>0, <3>1 DEF Shape
    <3>2. CASE r = Gate!Gone
      BY <3>2, GoneShape
    <3> QED BY <3>1, <3>2
  <2> QED BY <1>1, <2>1, <2>2, GoneShape DEF Shaped, Handling
<1>3. CASE Gate!ReadFailed(c) \/ Gate!HandleReqThrows(c) \/ Gate!IgnoreReq(c) \/ Gate!HandleReq(c)
  <2>1. PICK r : /\ Gate!Becomes(c, r)
                 /\ \/ r = [conn[c] EXCEPT !.rd = "none"]
                    \/ r = [[conn[c] EXCEPT !.rd = "none"] EXCEPT !.tm = "armed"]
                    \/ Gate!Respond(c)
    BY <1>3 DEF Gate!ReadFailed, Gate!HandleReqThrows, Gate!Abandon, Gate!IgnoreReq,
                Gate!HandleReq, Gate!Respond, Gate!CheckDeadline
  <2>2. CASE Gate!Respond(c)
    BY <1>0, <1>1, <2>2, EndsHandling
  <2>3. CASE ~Gate!Respond(c)
    <3> DEFINE q == [conn[c] EXCEPT !.rd = "none"]
    <3>0. r = q \/ r = [q EXCEPT !.tm = "armed"]
      BY <2>1, <2>3
    <3>2. q \in Shape /\ q.rd # "handling"
      BY <1>0 DEF Shape
    <3> HIDE DEF q
    <3>1. r \in Shape /\ r.rd # "handling"
      BY <3>0, <3>2 DEF Shape
    <3> QED BY <1>1, <2>1, <3>1, BecomesHandling
  <2> QED BY <2>2, <2>3
<1>4. CASE Gate!Written(c)
  <2> DEFINE sock == IF conn[c].sock = "open" THEN "shut" ELSE conn[c].sock
  <2> DEFINE tm == IF conn[c].tm = "armed" THEN "cancelled" ELSE conn[c].tm
  <2> DEFINE r == [conn[c] EXCEPT !.wr = "none", !.sock = sock, !.tm = tm]
  <2>1. Gate!Becomes(c, r)
    BY <1>4 DEF Gate!Written
  <2>3. /\ sock \in {"none", "open", "shut", "closed"}
        /\ tm \in {"none", "armed", "fired", "cancelled"}
    BY <1>0 DEF Shape
  <2>2. r \in Shape /\ r.rd = conn[c].rd
    <3> HIDE DEF sock, tm
    <3>1. PICK q \in Shape : q = conn[c]
      BY <1>0
    <3>2. /\ [q EXCEPT !.wr = "none", !.sock = sock, !.tm = tm] \in Shape
          /\ [q EXCEPT !.wr = "none", !.sock = sock, !.tm = tm].rd = q.rd
      BY <2>3 DEF Shape
    <3> QED BY <3>1, <3>2
  <2> HIDE DEF r
  <2> QED BY <1>1, <2>1, <2>2, BecomesHandling DEF Handling
<1>5. CASE Gate!TimerHandler(c)
  <2> DEFINE wr == IF conn[c].wr = "pending" THEN "cut" ELSE conn[c].wr
  <2>1. PICK r : /\ Gate!Becomes(c, r)
                 /\ \/ r = [conn[c] EXCEPT !.tm = "none"]
                    \/ r = [conn[c] EXCEPT !.tm = "none", !.sock = "closed", !.wr = wr]
    BY <1>5 DEF Gate!TimerHandler, Gate!DeadlinePassed, Gate!DeadlineCancelled
  <2>2. r \in Shape /\ r.rd = conn[c].rd
    <3>1. wr \in {"none", "pending", "whole", "cut"}
      BY <1>0 DEF Shape
    <3> HIDE DEF wr
    <3>2. CASE r = [conn[c] EXCEPT !.tm = "none"]
      BY <1>0, <3>2 DEF Shape
    <3>3. CASE r = [conn[c] EXCEPT !.tm = "none", !.sock = "closed", !.wr = wr]
      BY <1>0, <3>1, <3>3 DEF Shape
    <3> QED BY <2>1, <3>2, <3>3 DEF wr
  <2> QED BY <1>1, <2>1, <2>2, BecomesHandling DEF Handling
<1> QED BY <1>2, <1>3, <1>4, <1>5

LEMMA OneHandlerInit == GatewayInit => Shaped /\ OneHandler
<1> SUFFICES ASSUME GatewayInit PROVE Shaped /\ OneHandler
  OBVIOUS
<1>1. PICK c \in Conns : conn = [d \in Conns |-> IF d = c THEN Gate!Listening ELSE Gate!Gone]
  BY DEF GatewayInit, Gate!Init
<1>2. Shaped /\ \A d \in Conns : ~Handling(d)
  BY <1>1, GoneShape DEF Shaped, Handling
<1>3. Idle
  BY DEF GatewayInit, Init, NoRequest, Idle
<1> QED BY <1>2, <1>3 DEF OneHandler, Handling

LEMMA OneHandlerStep == Shaped /\ OneHandler /\ [GatewayNext]_gatewayVars => Shaped' /\ OneHandler'
<1> SUFFICES ASSUME Shaped, OneHandler, [GatewayNext]_gatewayVars PROVE Shaped' /\ OneHandler'
  OBVIOUS
<1>1. /\ Idle <=> \A c \in Conns : ~Handling(c)
      /\ \A c, d \in Conns : Handling(c) /\ Handling(d) => c = d
  BY DEF OneHandler, Handling
<1>2. SUFFICES /\ Shaped'
               /\ Idle' <=> \A c \in Conns : ~Handling(c)'
               /\ \A c, d \in Conns : Handling(c)' /\ Handling(d)' => c = d
  BY DEF OneHandler, Handling
<1>3. CASE Outside
  <2>1. Idle' <=> Idle
    BY <1>3 DEF Outside, vars, Environment, CodeExpires, UserAppears,
                Idle
  <2>2. Shaped' /\ \A c \in Conns : Handling(c)' <=> Handling(c)
    <3>1. CASE UNCHANGED gateVars
      BY <3>1 DEF gateVars, Shaped, Handling
    <3> QED BY <1>3, <3>1, OutsideHandling DEF Outside
  <2> QED BY <1>1, <2>1, <2>2
<1>4. ASSUME NEW c \in Conns, Callback(c) \/ RejectPost(c)
      PROVE  /\ Shaped'
             /\ Idle' /\ \A d \in Conns : ~Handling(d)'
  <2>1. Shaped' /\ \A d \in Conns : ~Handling(d) /\ ~Handling(d)'
    BY <1>4, CallbackHandling DEF Callback, RejectPost
  <2>2. UNCHANGED req
    BY <1>4 DEF Callback, RejectPost, RejectBody, vars
  <2> QED BY <1>1, <2>1, <2>2 DEF Idle
<1>5. ASSUME NEW c \in Conns, StartPost(c)
      PROVE  /\ Shaped' /\ ~Idle'
             /\ \A d \in Conns : Handling(d)' <=> d = c
  <2>1. /\ \A d \in Conns : ~Handling(d)
        /\ Gate!Becomes(c, [conn[c] EXCEPT !.rd = "handling"])
    BY <1>5 DEF StartPost, Gate!CallBackend, Gate!Polling, Handling
  <2>2. /\ [conn[c] EXCEPT !.rd = "handling"] \in Shape
        /\ [conn[c] EXCEPT !.rd = "handling"].rd = "handling"
    <3>1. conn[c] \in Shape
      BY DEF Shaped
    <3> QED BY <3>1 DEF Shape
  <2>3. Shaped' /\ \A d \in Conns : Handling(d)' <=> d = c
    BY <2>1, <2>2, BecomesHandling
  <2>4. ~Idle'
    BY <1>5 DEF StartPost, Receive, Idle
  <2> QED BY <2>3, <2>4
<1>6. ASSUME NEW c \in Conns, HandlerStep(c)
      PROVE  /\ Shaped'
             /\ Idle' => \A d \in Conns : ~Handling(d)'
             /\ ~Idle' => \A d \in Conns : Handling(d)' <=> d = c
  <2>1. Handling(c) /\ \A d \in Conns : Handling(d) <=> d = c
    BY <1>1, <1>6 DEF HandlerStep, InHandler, Handling
  <2>2. CASE Idle'
    <3>1. Gate!Respond(c) \/ Gate!Abandon(c)
      BY <1>6, <2>2 DEF HandlerStep, Returns
    <3> QED BY <2>1, <2>2, <3>1, EndsHandling
  <2>3. CASE ~Idle'
    BY <1>6, <2>1, <2>3 DEF HandlerStep, gateVars, Shaped, Handling
  <2> QED BY <2>2, <2>3
<1>7. CASE SignalHandler
  <2>1. /\ \A c \in Conns : ~Handling(c)
        /\ conn' = [c \in Conns |-> Gate!Gone] /\ UNCHANGED req
    BY <1>7 DEF SignalHandler, Gate!SignalHandler, Gate!Polling, Handling, vars
  <2> QED BY <1>1, <2>1, GoneShape DEF Shaped, Handling, Idle
<1>8. CASE Exited \/ UNCHANGED gatewayVars
  <2>1. UNCHANGED <<conn, req>>
    BY <1>8 DEF Exited, Gate!Exited, Gate!vars, gatewayVars, gateVars, vars
  <2> QED BY <1>1, <2>1 DEF Shaped, Handling, Idle
<1> QED BY <1>3, <1>4, <1>5, <1>6, <1>7, <1>8 DEF GatewayNext

\* LogicSystem runs one request at a time, for any number of connections.
THEOREM OneHandlerAtATime == GatewaySpec => []OneHandler
<1>1. GatewaySpec => [](Shaped /\ OneHandler)
  BY OneHandlerInit, OneHandlerStep, PTL DEF GatewaySpec
<1> QED BY <1>1, PTL
-------------------------------------------------------------------------------
(* The pool: a command has put its connection back when the handler goes   *)
(* on, whatever the command met.                                           *)

PoolWhole ==
    /\ pool \in Seq({"good", "broken"})
    /\ built \in 1..PoolSize => Len(pool) = built

LEMMA CommandKeepsPool ==
    ASSUME PoolWhole, Connected, UNCHANGED built,
           NEW outcome \in Outcomes, GiveBack(outcome)
    PROVE  PoolWhole'
<1> DEFINE state == IF outcome = "null" THEN "broken" ELSE Head(pool)
<1>1. /\ pool \in Seq({"good", "broken"}) /\ pool # <<>>
      /\ pool' = Append(Tail(pool), state)
  BY DEF PoolWhole, Connected, GiveBack
<1>2. state \in {"good", "broken"}
  BY <1>1
<1> HIDE DEF state
<1>3. pool' \in Seq({"good", "broken"}) /\ Len(pool') = Len(pool)
  BY <1>1, <1>2
<1> QED BY <1>3 DEF PoolWhole

LEMMA PoolStep == PoolWhole /\ [Next]_vars => PoolWhole'
<1> SUFFICES ASSUME PoolWhole, [Next]_vars PROVE PoolWhole'
  OBVIOUS
<1>1. CASE UNCHANGED <<built, pool>>
  BY <1>1 DEF PoolWhole
<1>2. CASE Handle
  <2>1. CASE GetVerifyCode \/ Report
    BY <1>1, <2>1 DEF GetVerifyCode, Report
  <2>2. CASE BuildPool
    <3>1. PICK n \in 0..PoolSize : built' = n /\ pool' = [i \in 1..n |-> "good"]
      BY <2>2 DEF BuildPool
    <3>2. pool' \in Seq({"good", "broken"}) /\ Len(pool') = n
      BY <3>1
    <3> QED BY <3>1, <3>2 DEF PoolWhole
  <2>3. CASE Get \/ ExistsKey
    BY <2>3, CommandKeepsPool DEF Get, ExistsKey
  <2> QED BY <1>2, <2>1, <2>2, <2>3 DEF Handle
<1>3. Handle \/ UNCHANGED <<built, pool>>
  BY DEF Next, Environment, CodeExpires, UserAppears, RejectBody, Receive, vars
<1> QED BY <1>1, <1>2, <1>3

\* The only thread never waits for a connection that it would have to return.
THEOREM NoSelfWait == GatewaySpec => []NeverWaitsForItself
<1>1. Init => PoolWhole
  <2> SUFFICES ASSUME Init PROVE PoolWhole
    OBVIOUS
  <2>1. pool = <<>> /\ built \notin 1..PoolSize
    BY PoolSizeNat DEF Init, Unbuilt
  <2> QED BY <2>1 DEF PoolWhole
<1>2. PoolWhole => NeverWaitsForItself
  BY DEF PoolWhole, NeverWaitsForItself
<1> QED BY <1>1, <1>2, PoolStep, GatewayImplementsLogicSystem, PTL DEF Spec
-------------------------------------------------------------------------------
(* The event loop in the whole server: what is proved of GateServer holds  *)
(* there, by the refinement.                                               *)

\* GateServer again, with the theorems proved about it.
GateProofs == INSTANCE GateServerProofs

\* The two instances of GateServer start and go on alike.
LEMMA SameGateInit == Gate!Init => GateProofs!Init
  BY DEF Gate!Init, GateProofs!Init, Gate!Listening, GateProofs!Listening, Gate!Gone, GateProofs!Gone

LEMMA SameEvents ==
    /\ \A c \in Conns : Gate!Event(c) => GateProofs!Event(c)
    /\ Gate!Tick => GateProofs!Tick
    /\ Gate!RaiseSignal => GateProofs!RaiseSignal
<1> USE DEF Gate!Gone, GateProofs!Gone, Gate!Outstanding,
            GateProofs!Outstanding, Gate!Settle, GateProofs!Settle,
            Gate!Becomes, GateProofs!Becomes, Gate!Alive, GateProofs!Alive,
            Gate!Free, GateProofs!Free
<1>1. ASSUME NEW c \in Conns, Gate!Event(c) PROVE GateProofs!Event(c)
  BY <1>1 DEF Gate!Event, GateProofs!Event, Gate!AcceptCompletes,
         GateProofs!AcceptCompletes, Gate!ReadCompletes,
         GateProofs!ReadCompletes, Gate!WriteCompletes,
         GateProofs!WriteCompletes, Gate!TimerExpires, GateProofs!TimerExpires
<1>2. Gate!Tick => GateProofs!Tick
  BY DEF Gate!Tick, GateProofs!Tick, Gate!Grow, GateProofs!Grow
<1>3. Gate!RaiseSignal => GateProofs!RaiseSignal
  BY DEF Gate!RaiseSignal, GateProofs!RaiseSignal
<1> QED BY <1>1, <1>2, <1>3

LEMMA SameHandlers ==
    ASSUME NEW c \in Conns, Gate!Handler(c) \/ Gate!BackendReturns(c)
    PROVE  GateProofs!Handler(c) \/ GateProofs!BackendReturns(c)
<1> USE DEF Gate!Gone, GateProofs!Gone, Gate!Listening, GateProofs!Listening,
            Gate!Outstanding, GateProofs!Outstanding, Gate!Settle,
            GateProofs!Settle, Gate!Becomes, GateProofs!Becomes, Gate!Alive,
            GateProofs!Alive, Gate!Free, GateProofs!Free, Gate!Polling,
            GateProofs!Polling, Gate!Respond, GateProofs!Respond, Gate!Abandon,
            GateProofs!Abandon, Gate!CheckDeadline, GateProofs!CheckDeadline,
            Gate!WriteResponse, GateProofs!WriteResponse
<1>1. Gate!AcceptHandler(c) => GateProofs!AcceptHandler(c)
  BY DEF Gate!AcceptHandler, GateProofs!AcceptHandler, Gate!Accepted,
         GateProofs!Accepted, Gate!AcceptFailed, GateProofs!AcceptFailed
<1>2. Gate!ReadHandler(c) => GateProofs!ReadHandler(c)
  BY DEF Gate!ReadHandler, GateProofs!ReadHandler, Gate!ReadFailed,
         GateProofs!ReadFailed, Gate!HandleReq, GateProofs!HandleReq,
         Gate!IgnoreReq, GateProofs!IgnoreReq, Gate!HandleReqThrows,
         GateProofs!HandleReqThrows, Gate!CallBackend, GateProofs!CallBackend
<1>3. Gate!Written(c) => GateProofs!Written(c)
  BY DEF Gate!Written, GateProofs!Written
<1>4. Gate!TimerHandler(c) => GateProofs!TimerHandler(c)
  BY DEF Gate!TimerHandler, GateProofs!TimerHandler, Gate!DeadlinePassed,
         GateProofs!DeadlinePassed, Gate!DeadlineCancelled,
         GateProofs!DeadlineCancelled
<1>5. Gate!BackendReturns(c) => GateProofs!BackendReturns(c)
  BY DEF Gate!BackendReturns, GateProofs!BackendReturns
<1> QED BY <1>1, <1>2, <1>3, <1>4, <1>5 DEF Gate!Handler, GateProofs!Handler

LEMMA SameGate == [Gate!Next]_(Gate!vars) => [GateProofs!Next]_(GateProofs!vars)
<1>1. Gate!SignalHandler => GateProofs!SignalHandler
  BY DEF Gate!SignalHandler, GateProofs!SignalHandler, Gate!Polling,
         GateProofs!Polling, Gate!Gone, GateProofs!Gone
<1>2. Gate!Exited => GateProofs!Exited
  BY DEF Gate!Exited, GateProofs!Exited, Gate!vars, GateProofs!vars
<1> QED BY <1>1, <1>2, SameEvents, SameHandlers DEF Gate!Next, GateProofs!Next, Gate!vars, GateProofs!vars

\* In the whole server, whatever the handlers do: there is exactly one accept,
\* a pending write has its deadline on the way, no answered connection is kept
\* by its timer, a socket is closed only at the deadline, and connections are
\* the short connections that are promised.
THEOREM EventLoopInTheServer ==
    GatewaySpec => /\ []GateProofs!OneAccept
                   /\ []GateProofs!StalledWriteIsGuarded
                   /\ []GateProofs!AnsweredIsReleased
                   /\ []GateProofs!ClosedOnlyAtDeadline
                   /\ GateProofs!ImplementsShortConnection
<1>1. GatewaySpec => GateProofs!Spec
  BY SameGateInit, SameGate, GatewayImplementsGateServer, PTL
     DEF ImplementsGateServer, Gate!Spec, GateProofs!Spec
<1>2. GateProofs!Spec => []GateProofs!OneAccept
  BY DeadlinePositive, GateProofs!AlwaysOneAccept
<1>3. GateProofs!Spec => []GateProofs!StalledWriteIsGuarded
  BY DeadlinePositive, GateProofs!StalledWritesGuarded
<1>4. GateProofs!Spec => []GateProofs!ClosedOnlyAtDeadline
  BY DeadlinePositive, GateProofs!SocketsClosedAtDeadline
<1>5. GateProofs!Spec => GateProofs!ImplementsShortConnection
  BY DeadlinePositive, GateProofs!ServerImplementsShortConnection
<1>6. GateProofs!Spec => []GateProofs!AnsweredIsReleased
  BY DeadlinePositive, GateProofs!AnsweredConnectionsReleased
<1> QED BY <1>1, <1>2, <1>3, <1>4, <1>5, <1>6
===============================================================================
