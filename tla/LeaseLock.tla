------------------------------ MODULE LeaseLock ------------------------------
(***************************************************************************)
(* What a distributed mutex with a timeout promises: at any time at most   *)
(* one client owns the lock, and ownership is given up, by an unlock, a    *)
(* crash or the end of the lease, before another client gets it.           *)
(***************************************************************************)
CONSTANTS
  Clients,   \* those who compete for the lock
  Nobody     \* the owner of a free lock, not a client

VARIABLE owner

Init == owner = Nobody

Acquire(c) == owner = Nobody /\ owner' = c

GiveUp == owner # Nobody /\ owner' = Nobody

Next == GiveUp \/ \E c \in Clients : Acquire(c)

Spec == Init /\ [][Next]_owner
=============================================================================
