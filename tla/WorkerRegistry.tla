----------------------------- MODULE WorkerRegistry -----------------------------
(***************************************************************************)
(* What reg_worker_node promises its callers: a registration happens at    *)
(* one moment during the call or not at all, replaces an earlier one of    *)
(* the same worker, and the caller is told which, unless its connection is *)
(* lost.  ChatDb is shown to implement this.                               *)
(***************************************************************************)
CONSTANTS Sessions, Workers, Hosts

VARIABLES
    registered,     \* registered[w]: the host of worker w, {} if none
    asked,          \* asked[s]: the registration session s waits for, or <<>>
    told            \* told[s]: the outcome of its last call

registryVars == <<registered, asked, told>>

RegistryInit ==
    /\ registered = [w \in Workers |-> {}]
    /\ asked = [s \in Sessions |-> <<>>]
    /\ told = [s \in Sessions |-> "none"]

Ask(s) ==
    /\ asked[s] = <<>>
    /\ \E w \in Workers, h \in Hosts : asked' = [asked EXCEPT ![s] = <<w, h>>]
    /\ told' = [told EXCEPT ![s] = "none"]
    /\ UNCHANGED registered

Ends(s, outcome) ==
    /\ asked' = [asked EXCEPT ![s] = <<>>]
    /\ told' = [told EXCEPT ![s] = outcome]

Register(s) ==
    /\ asked[s] # <<>>
    /\ registered' = [registered EXCEPT ![asked[s][1]] = {asked[s][2]}]
    /\ Ends(s, "1") \/ Ends(s, "lost")

Refuse(s) ==
    /\ asked[s] # <<>>
    /\ Ends(s, "-1") \/ Ends(s, "lost")
    /\ UNCHANGED registered

RegistrySpec ==
    RegistryInit /\ [][\E s \in Sessions : Ask(s) \/ Register(s) \/ Refuse(s)]_registryVars
===============================================================================
