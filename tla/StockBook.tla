------------------------------ MODULE StockBook ------------------------------
(***************************************************************************)
(* What guild storage promises its users, without requests, snapshots or   *)
(* retries: under one key an actor's request takes effect at most once, in *)
(* one step, computed from the stock of that moment, and never overdraws.  *)
(***************************************************************************)
EXTENDS Integers

CONSTANTS
  Items,
  NoLine  \* what a request's lines hold for an item it does not name

VARIABLES
  stock,  \* quantity of every item
  booked  \* the bookings made so far

\* The quantity a request of this type leaves of an item that has q.
After(type, amount, q) ==
  CASE type = "intake"     -> q + amount
    [] type = "distribute" -> q - amount
    [] type = "adjust"     -> amount

\* Book request b.req of an actor under a key: every item it names changes, and
\* the booking records by how much.
Book(b) ==
  /\ \A old \in booked : old.actor # b.actor \/ old.key # b.key
  /\ stock' = [i \in Items |-> IF b.req.lines[i] = NoLine
                                 THEN stock[i]
                                 ELSE After(b.req.type, b.req.lines[i], stock[i])]
  /\ b.delta = [i \in Items |-> stock'[i] - stock[i]]
  /\ \A i \in Items : stock'[i] >= 0
  /\ booked' = booked \cup {b}

Init == stock = [i \in Items |-> 0] /\ booked = {}

\* A step either books exactly one request or changes nothing.
Next == \E b \in booked' : Book(b)

Spec == Init /\ [][Next]_<<stock, booked>>
==============================================================================
