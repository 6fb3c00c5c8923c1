----------------------------- MODULE Transfers -----------------------------
(***************************************************************************)
(* What the bridge promises its users, in either direction: what is        *)
(* released on one side has been locked on the other before, each transfer *)
(* is released at most once, and then exactly its worth, in one step.      *)
(***************************************************************************)
EXTENDS Integers

CONSTANTS Transfer,   \* what users lock on one side
          Worth       \* how much each transfer locks

VARIABLES locked,     \* the transfers locked for good
          released    \* how much has been released on the other side for each

Init == /\ locked = {}
        /\ released = [t \in Transfer |-> 0]

\* Transfers are locked, several of them if they are in one block.
Lock == /\ locked \subseteq locked'
        /\ locked' \subseteq Transfer
        /\ UNCHANGED released

\* A transfer that was locked is released on the other side.
Release(t) == /\ t \in locked
              /\ released[t] = 0
              /\ released' = [released EXCEPT ![t] = Worth[t]]
              /\ UNCHANGED locked

Next == Lock \/ \E t \in Transfer : Release(t)

Spec == Init /\ [][Next]_<<locked, released>>
=============================================================================
