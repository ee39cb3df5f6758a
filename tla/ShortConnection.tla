---------------------------- MODULE ShortConnection ----------------------------
(***************************************************************************)
(* What the server promises about its connections, whatever callbacks and  *)
(* timers it is made of: there is always one connection waiting to be      *)
(* accepted, a connection reads one request and is answered at most once,  *)
(* and after that it can only end ("short connection" in the words of      *)
(* HttpConnection::HandleReq).  GateServer is shown to implement it.       *)
(***************************************************************************)
CONSTANT Conns

VARIABLES
    phase,      \* [Conns -> Phases]
    up          \* the server has not been stopped

shortVars == <<phase, up>>

Phases == {"free", "listening", "reading", "answering", "ending"}

ShortInit ==
    /\ up = TRUE
    /\ \E c \in Conns :
          phase = [d \in Conns |-> IF d = c THEN "listening" ELSE "free"]

Moves(c, from, to) ==
    /\ up
    /\ phase[c] = from
    /\ phase' = [phase EXCEPT ![c] = to]
    /\ UNCHANGED up

\* A connection is accepted, or the attempt fails, and another one listens.
HandOver(c, d) ==
    /\ up
    /\ phase[c] = "listening" /\ phase[d] = "free"
    /\ \E to \in {"reading", "free"} :
          phase' = [phase EXCEPT ![c] = to, ![d] = "listening"]
    /\ UNCHANGED up

Answer(c)    == Moves(c, "reading", "answering")
Ignore(c)    == Moves(c, "reading", "ending")
Drop(c)      == Moves(c, "reading", "free")
FinishReply(c) == Moves(c, "answering", "ending")
End(c)       == Moves(c, "ending", "free")

GoDown ==
    /\ up
    /\ up' = FALSE
    /\ phase' = [c \in Conns |-> "free"]

ShortNext ==
    \/ \E c, d \in Conns : HandOver(c, d)
    \/ \E c \in Conns : Answer(c) \/ Ignore(c) \/ Drop(c) \/ FinishReply(c) \/ End(c)
    \/ GoDown

ShortSpec == ShortInit /\ [][ShortNext]_shortVars
===============================================================================
