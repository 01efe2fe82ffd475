----------------------------- MODULE MCDacEscrow -----------------------------
(* DacEscrow on small instances *)
EXTENDS DacEscrow

CONSTANTS s, r, a

(* The first account can pay for an escrow and its arbiter. *)
SenderPays == [x \in Accounts |-> IF x = s THEN 3 ELSE 0]

=============================================================================
