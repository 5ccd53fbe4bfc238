-------------------------- MODULE KitchenRefinement --------------------------
(* The server implements the promise: a request takes effect at the moment   *)
(* its transaction commits, and a client that never heard whether it did     *)
(* still has a request that did or did not.                                  *)
EXTENDS Kitchen

verdictOf ==
  [r \in Requests |->
     IF r \in committed THEN "done"
     ELSE IF answer[r] = "none" THEN "pending"
     ELSE answer[r]]

Ledger == INSTANCE KitchenLedger
            WITH db <- disk, asked <- op, verdict <- verdictOf

\* Transactions, loops, locks, backups and crashes of the server are invisible:
\* what clients see is a ledger of requests that happen one by one and whole.
ImplementsLedger == Ledger!Spec
=============================================================================
