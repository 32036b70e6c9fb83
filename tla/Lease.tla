------------------------------- MODULE Lease --------------------------------
(***************************************************************************)
(* What the pool of BIRD connections promises to the tasks that call it:   *)
(* an item is lent to one user at a time and passes from one to the next   *)
(* only by way of nobody; while it is lent, its connection changes only    *)
(* because its user renews it, or because everything is being closed.  The *)
(* list, the channel, the marks, the lock and the steps by which an item   *)
(* is found, dialled and given back are left out.                          *)
(* BirdPool implements it; BirdQuery, which takes the pool for granted,    *)
(* keeps to it.                                                            *)
(***************************************************************************)
CONSTANTS Users, Items, None

VARIABLES
  lease,    \* the item each user has been given, or None
  state,    \* the connection of each item: nil, open, or closed
  closing   \* the pool is being closed

leaseVars == <<lease, state, closing>>

Free(e) == \A c \in Users : lease[c] # e

LeaseInit ==
  /\ lease = [c \in Users |-> None]
  /\ state = [e \in Items |-> "none"]
  /\ closing = FALSE

(* An item from the channel comes as it is: its connection may have been   *)
(* dropped meanwhile.  A new one comes with an open connection.            *)
Borrow(c, e) ==
  /\ lease[c] = None
  /\ Free(e)
  /\ lease' = [lease EXCEPT ![c] = e]
  /\ \/ UNCHANGED state
     \/ state[e] # "open" /\ state' = [state EXCEPT ![e] = "open"]
  /\ UNCHANGED closing

Renew(c) ==
  /\ lease[c] # None
  /\ state' = [state EXCEPT ![lease[c]] = "open"]
  /\ UNCHANGED <<lease, closing>>

(* What is given back late is closed at once.                              *)
Return(c) ==
  /\ lease[c] # None
  /\ lease' = [lease EXCEPT ![c] = None]
  /\ \/ UNCHANGED state
     \/ closing /\ \E as \in {"none", "closed"} : state' = [state EXCEPT ![lease[c]] = as]
  /\ UNCHANGED closing

Stock(e) ==
  /\ ~ closing
  /\ Free(e)
  /\ state[e] # "open"
  /\ state' = [state EXCEPT ![e] = "open"]
  /\ UNCHANGED <<lease, closing>>

Trim(dropped) ==
  /\ \A e \in dropped : Free(e)
  /\ state' = [e \in Items |-> IF e \in dropped THEN "none" ELSE state[e]]
  /\ UNCHANGED <<lease, closing>>

(* From the shutdown on connections are closed, lent or not.               *)
Shut(dropped, as) ==
  /\ closing' = TRUE
  /\ state' = [e \in Items |-> IF e \in dropped THEN as ELSE state[e]]
  /\ UNCHANGED lease

(* A late return panics, and with the process all users are gone.          *)
Panic ==
  /\ closing
  /\ lease' = [c \in Users |-> None]
  /\ UNCHANGED <<state, closing>>

LeaseNext ==
  \/ \E c \in Users : Renew(c) \/ Return(c) \/ \E e \in Items : Borrow(c, e)
  \/ \E e \in Items : Stock(e)
  \/ \E dropped \in SUBSET Items : Trim(dropped) \/ \E as \in {"none", "closed"} : Shut(dropped, as)
  \/ Panic

LeaseSpec == LeaseInit /\ [][LeaseNext]_leaseVars
=============================================================================
