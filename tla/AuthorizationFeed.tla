--------------------------- MODULE AuthorizationFeed ---------------------------
(***************************************************************************)
(* What the panel and its nodes promise about access, without saying how:  *)
(* the panel issues one set of credentials after the other, and a node     *)
(* serves one of the sets that were issued, never a mixture of two and     *)
(* never an older one than it has served before.  A node may skip sets,    *)
(* may stop serving, and starts over when it is replaced.                  *)
(*                                                                         *)
(* Configuration.tla implements this specification.                        *)
(***************************************************************************)
EXTENDS Naturals, Sequences

CONSTANTS
    Machines,     \* nodes
    Credentials   \* a user together with a generation of the user's passwords

VARIABLES
    issued,  \* the sets of credentials issued so far
    served,  \* the number of the set each node serves or served last; 0: none
    open     \* the credentials each node lets in

vars == <<issued, served, open>>

Init ==
    /\ issued \in Seq(SUBSET Credentials) /\ Len(issued) = 1
    /\ served = [m \in Machines |-> 0]
    /\ open = [m \in Machines |-> {}]

Issue ==
    /\ \E granted \in SUBSET Credentials : issued' = Append(issued, granted)
    /\ UNCHANGED <<served, open>>

\* The node moves to a set that is not older, or lets nobody in.
Serve(m) ==
    \E n \in served[m] .. Len(issued) :
        /\ n > 0
        /\ served' = [served EXCEPT ![m] = n]
        /\ open' = [open EXCEPT ![m] = issued[n]]
        /\ UNCHANGED issued

Stop(m) ==
    /\ open' = [open EXCEPT ![m] = {}]
    /\ UNCHANGED <<issued, served>>

Replace(m) ==
    /\ served' = [served EXCEPT ![m] = 0]
    /\ open' = [open EXCEPT ![m] = {}]
    /\ UNCHANGED issued

Next == Issue \/ \E m \in Machines : Serve(m) \/ Stop(m) \/ Replace(m)

Spec == Init /\ [][Next]_vars
================================================================================
