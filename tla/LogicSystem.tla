------------------------------ MODULE LogicSystem ------------------------------
(***************************************************************************)
(* The two POST handlers of LogicSystem, /get_verifycode and               *)
(* /user_register, with the calls they make: RedisMgr::Get and ExistsKey   *)
(* on a pool of connections, and VerifyGrpcClient::GetVerifyCode.  The     *)
(* only thread runs one handler at a time; while it is between two calls,  *)
(* the verify server, the expiry of keys and other users of Redis go on.   *)
(*                                                                         *)
(* The pool is RedisConPool seen by its single caller: a queue of which    *)
(* only the health of each context matters.  A context on which an I/O     *)
(* error happened keeps its error (hiredis), and RedisMgr puts it back.    *)
(***************************************************************************)
EXTENDS Naturals, Sequences

CONSTANTS
    Emails, Users, Codes,
    NoCode,     \* the key code_<email> does not exist
    PoolSize    \* the connections RedisMgr's constructor asks for

ASSUME NoCodeNotCode == NoCode \notin Codes
ASSUME PoolSizeNat == PoolSize \in Nat

VARIABLES
    codes,      \* Redis: codes[e] is the value of the key code_<e>
    users,      \* Redis: the users that have a key
    built,      \* contexts the pool was built with, Unbuilt before that
    pool,       \* the queue of contexts: "good" or "broken"
    req,        \* the request being handled
    answer      \* what the handler put in the response that the last step ended

vars == <<codes, users, built, pool, req, answer>>

Unbuilt == PoolSize + 1

\* The first member of the JSON body after email whose asString throws;
\* "passwd" stands for confirm too.
BadMembers == {"none", "verifycode", "user", "passwd"}

\* No handler is running.
NoRequest == [step |-> "idle"]

\* A handler: the call it is about to make, the members of the body it uses,
\* and for /get_verifycode what the error of rsp stands for.
Verifying == [step : {"rpc", "report"}, email : Emails, rsp : {"Success", "refused", "RPCFailed"}]

Registering ==
    [step : {"get", "exists"}, email : Emails, user : Users, code : Codes,
     bad : BadMembers]

\* ErrorCodes, and the end of a handler by an exception: no response.
Answers == {"Success", "Error_Json", "VerifyExpired", "VerifyCodeErr", "UserExist",
            "abandoned", "none"}

Init ==
    /\ codes \in [Emails -> Codes \cup {NoCode}]
    /\ users \in SUBSET Users
    /\ built = Unbuilt
    /\ pool = <<>>
    /\ req = NoRequest
    /\ answer = "none"

-------------------------------------------------------------------------------
(* Outside the program.                                                    *)

\* The key of a verification code expires.
CodeExpires ==
    /\ \E e \in Emails : codes' = [codes EXCEPT ![e] = NoCode]
    /\ answer' = "none"
    /\ UNCHANGED <<users, built, pool, req>>

\* Another program stores a user in Redis.
UserAppears ==
    /\ \E u \in Users : users' = users \cup {u}
    /\ answer' = "none"
    /\ UNCHANGED <<codes, built, pool, req>>

-------------------------------------------------------------------------------
Idle == req.step = "idle"

\* The handler ends with result a.
Finish(a) == req' = NoRequest /\ answer' = a

\* The handler goes on with its next call.
GoOn(step) == req' = [req EXCEPT !.step = step] /\ answer' = "none"

\* reader.parse fails, or the asString of email throws.
RejectBody ==
    /\ Idle
    /\ answer' \in {"Error_Json", "abandoned"}
    /\ UNCHANGED <<codes, users, built, pool, req>>

\* A request arrives whose body is JSON: its email can be read.
Receive ==
    /\ Idle
    /\ \/ req' \in Verifying /\ req'.step = "rpc" /\ req'.rsp = "Success"
       \/ req' \in Registering /\ req'.step = "get"
    /\ answer' = "none"
    /\ UNCHANGED <<codes, users, built, pool>>

-------------------------------------------------------------------------------
(* /get_verifycode                                                         *)

\* The verify server has stored a code for the email, or has not.
VerifyServer(stored) ==
    IF stored THEN \E c \in Codes : codes' = [codes EXCEPT ![req.email] = c]
              ELSE UNCHANGED codes

\* The call is answered without an error, the server reports an error, or the
\* call fails, before or after the server did its work.
GetVerifyCode ==
    /\ req.step = "rpc"
    /\ \E rsp \in {"Success", "refused", "RPCFailed"}, stored \in BOOLEAN :
          /\ rsp = "Success" => stored
          /\ rsp = "refused" => ~stored
          /\ VerifyServer(stored)
          /\ req' = [req EXCEPT !.step = "report", !.rsp = rsp]
    /\ answer' = "none"
    /\ UNCHANGED <<users, built, pool>>

\* root["error"] = rsp.error() and, in the next line, root["error"] = 0.
Report ==
    /\ req.step = "report"
    /\ Finish("Success")
    /\ UNCHANGED <<codes, users, built, pool>>

-------------------------------------------------------------------------------
(* RedisMgr                                                                *)

\* The first GetInstance builds the pool from the connections that succeed.
BuildPool ==
    /\ req.step = "get" /\ built = Unbuilt
    /\ built' \in 0..PoolSize
    /\ pool' = [i \in 1..built' |-> "good"]
    /\ answer' = "none"
    /\ UNCHANGED <<codes, users, req>>

\* getConnection returns the front of the queue: with an empty queue the only
\* thread waits in there for ever.
Connected == pool # <<>>

\* What redisCommand can do on the front connection: a reply, an error reply
\* of the server, or NULL, always on a connection that is already broken.
Outcomes == IF Head(pool) = "broken" THEN {"null"} ELSE {"reply", "error", "null"}

\* Mutated form of GiveBack: a connection without a reply is not returned.
GiveBackOnReply(outcome) ==
    pool' = IF outcome = "null" THEN Tail(pool) ELSE Append(Tail(pool), Head(pool))

\* Mutated form of GiveBack: an error reply returns the connection on its own
\* path and again at the end.
GiveBackTwice(outcome) ==
    pool' = CASE outcome = "null"  -> Append(Tail(pool), "broken")
              [] outcome = "error" -> pool \o <<Head(pool)>>
              [] OTHER             -> Append(Tail(pool), Head(pool))

\* returnConnection, on every path of the command, whatever the outcome.
GiveBack(outcome) ==
    pool' = Append(Tail(pool), IF outcome = "null" THEN "broken" ELSE Head(pool))

\* RedisMgr::Get: the value, or NoCode for false: no reply, an error or nil.
GetReply(outcome) == IF outcome = "reply" THEN codes[req.email] ELSE NoCode

\* Mutated form of ExistsReply: a failed command counts as an existing key.
ExistsOrFailed(outcome) == outcome = "reply" => req.user \in users

\* RedisMgr::ExistsKey: false also when the command failed.
ExistsReply(outcome) == outcome = "reply" /\ req.user \in users

-------------------------------------------------------------------------------
(* /user_register                                                          *)

\* Mutated form of AfterGet: the code is compared with no code at all.
AfterGetUnchecked(verify_code) ==
    \/ verify_code = NoCode /\ Finish("VerifyExpired")
    \/ verify_code # NoCode /\ GoOn("exists")

\* The code is missing, cannot be compared, differs, or is right.
AfterGet(verify_code) ==
    \/ verify_code = NoCode /\ Finish("VerifyExpired")
    \/ /\ verify_code # NoCode
       /\ \/ req.bad = "verifycode" /\ Finish("abandoned")
          \/ req.bad # "verifycode" /\ verify_code # req.code /\ Finish("VerifyCodeErr")
          \/ /\ req.bad # "verifycode" /\ verify_code = req.code
             /\ IF req.bad = "user" THEN Finish("abandoned") ELSE GoOn("exists")

Get ==
    /\ req.step = "get" /\ built # Unbuilt /\ Connected
    /\ \E outcome \in Outcomes :
          /\ GiveBack(outcome)
          /\ AfterGet(GetReply(outcome))
    /\ UNCHANGED <<codes, users, built>>

\* The user exists, or the registration is answered with success: nothing is
\* stored, the comment "look in the database" stands alone.
AfterExists(b_usr_exist) ==
    \/ b_usr_exist /\ Finish("UserExist")
    \/ ~b_usr_exist /\ req.bad = "passwd" /\ Finish("abandoned")
    \/ ~b_usr_exist /\ req.bad # "passwd" /\ Finish("Success")

ExistsKey ==
    /\ req.step = "exists" /\ Connected
    /\ \E outcome \in Outcomes :
          /\ GiveBack(outcome)
          /\ AfterExists(ExistsReply(outcome))
    /\ UNCHANGED <<codes, users, built>>

-------------------------------------------------------------------------------
Environment == CodeExpires \/ UserAppears

Handle == GetVerifyCode \/ Report \/ BuildPool \/ Get \/ ExistsKey

Next == Environment \/ RejectBody \/ Receive \/ Handle

Spec == Init /\ [][Next]_vars

(***************************************************************************)
(* Fairness: every call to Redis or the verify server ends (with a reply   *)
(* or an error), so a handler that is not waiting for a connection goes on.*)
(***************************************************************************)
FairSpec == Spec /\ WF_vars(Handle)
-------------------------------------------------------------------------------
(* Properties                                                              *)

\* Every variable has a value it can have in the program.
TypeOK ==
    /\ codes \in [Emails -> Codes \cup {NoCode}]
    /\ users \in SUBSET Users
    /\ built \in 0..Unbuilt
    /\ pool \in Seq({"good", "broken"}) /\ Len(pool) <= PoolSize
    /\ req \in {NoRequest} \cup Verifying \cup Registering
    /\ answer \in Answers

\* The step of the behaviour that ends the handler of a url with result a.
VerifyingEnds(a)   == req \in Verifying /\ req' = NoRequest /\ answer' = a
RegisteringEnds(a) == req \in Registering /\ req' = NoRequest /\ answer' = a

\* A registration succeeds only after its own code was found in Redis under
\* its own email, whatever expires or is sent again in the meantime.
RegisteredWithItsCode ==
    [][/\ (req'.step = "exists" /\ req.step # "exists") => codes[req.email] = req.code
       /\ RegisteringEnds("Success") => req.step = "exists"]_vars

\* A refusal names its reason: the user really has a key when UserExist is
\* answered, and a different code is stored when VerifyCodeErr is.
RefusalsTruthful ==
    [][/\ RegisteringEnds("UserExist") => req.user \in users
       /\ RegisteringEnds("VerifyCodeErr") => codes[req.email] \notin {NoCode, req.code}]_vars

\* Every handler ends although commands fail and connections break, unless
\* the pool was built without a single connection.
HandlersEnd == ~Idle ~> (Idle \/ built = 0)

\* What "RPCFailed" (global.h) is for: an error of the verify server or of
\* the call to it is not reported to the client as success.
RpcFailureReported == [][VerifyingEnds("Success") => req.rsp = "Success"]_vars

\* What LogicSystem says before it answers success: "the user does not exist".
SuccessMeansNoSuchUser == [][RegisteringEnds("Success") => req.user \notin users]_vars
===============================================================================
