------------------------------ MODULE Inventory ------------------------------
(***************************************************************************)
(* What TicketTypesService promises about the soldQuantity column of the   *)
(* ticket types: an order reserves all of its lines or none of them, never *)
(* beyond totalQuantity, and gives all of them back or none, never below   *)
(* zero.  Rows, locks, transactions and calls are absent: the module       *)
(* Orders implements this specification.                                   *)
(***************************************************************************)
EXTENDS Integers

CONSTANTS
  TicketTypes,  \* the ticket types of one event
  Total,        \* totalQuantity of each ticket type
  Base,         \* soldQuantity of each ticket type at the start
  Baskets       \* what one order may ask for: a quantity of each ticket type

VARIABLE sold   \* soldQuantity of each ticket type

Init == sold = Base

Reserve(b) ==
  /\ \A t \in TicketTypes : sold[t] + b[t] <= Total[t]
  /\ sold' = [t \in TicketTypes |-> sold[t] + b[t]]

Release(b) ==
  /\ \A t \in TicketTypes : sold[t] - b[t] >= 0
  /\ sold' = [t \in TicketTypes |-> sold[t] - b[t]]

Next == \E b \in Baskets : Reserve(b) \/ Release(b)

Spec == Init /\ [][Next]_sold
==============================================================================
