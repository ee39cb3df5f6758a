---------------------------- MODULE ConnectionLease ----------------------------
(***************************************************************************)
(* What a pool of connections promises to the threads that borrow from it, *)
(* whatever queue, lock and condition variable it is built from: a         *)
(* connection is lent to one thread at a time, comes back to the pool      *)
(* while the pool is open, and is released exactly once, when it comes     *)
(* back after the pool was closed or was idle at that moment.              *)
(* RedisConPool is shown to implement this specification.                  *)
(***************************************************************************)
CONSTANTS
    Threads,    \* the borrowers
    Contexts,   \* the connections that may ever be opened
    NoCtx       \* "no connection"

VARIABLES
    idle,       \* the connections waiting in the pool
    lease,      \* lease[t]: the connection thread t has borrowed, or NoCtx
    released,   \* the connections closed for good
    open        \* the pool still lends and takes back

leaseVars == <<idle, lease, released, open>>

Leased == {lease[t] : t \in Threads} \ {NoCtx}

Unopened == Contexts \ (idle \cup Leased \cup released)

LeaseInit ==
    /\ idle = {}
    /\ lease = [t \in Threads |-> NoCtx]
    /\ released = {}
    /\ open = TRUE

\* A connection is opened and put into the pool.
Open(c) ==
    /\ c \in Unopened
    /\ open
    /\ idle' = idle \cup {c}
    /\ UNCHANGED <<lease, released, open>>

\* A connection is opened, found unusable and closed at once.
Discard(c) ==
    /\ c \in Unopened
    /\ released' = released \cup {c}
    /\ UNCHANGED <<idle, lease, open>>

Borrow(t, c) ==
    /\ open
    /\ lease[t] = NoCtx
    /\ c \in idle
    /\ idle' = idle \ {c}
    /\ lease' = [lease EXCEPT ![t] = c]
    /\ UNCHANGED <<released, open>>

GiveBack(t) ==
    /\ lease[t] # NoCtx
    /\ lease[t] \notin idle \cup released
    /\ lease' = [lease EXCEPT ![t] = NoCtx]
    /\ idle' = IF open THEN idle \cup {lease[t]} ELSE idle
    /\ released' = IF open THEN released ELSE released \cup {lease[t]}
    /\ UNCHANGED open

Shut ==
    /\ open' = FALSE
    /\ idle' = {}
    /\ released' = released \cup idle
    /\ idle \cap released = {}
    /\ UNCHANGED lease

LeaseNext ==
    \/ \E c \in Contexts : Open(c) \/ Discard(c)
    \/ \E t \in Threads : GiveBack(t) \/ \E c \in Contexts : Borrow(t, c)
    \/ Shut

LeaseSpec == LeaseInit /\ [][LeaseNext]_leaseVars
===============================================================================
