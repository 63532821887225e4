----------------------------- MODULE MCPayments -----------------------------
(***************************************************************************)
(* An instance of Payments for TLC; the bounds are in the cfg file.        *)
(***************************************************************************)
EXTENDS Payments

Says(kind, exact, pay, order) == [kind |-> kind, exact |-> exact, pay |-> pay, order |-> order]

\* A capture as it should be; under a name that promises too much; without a payment; with
\* other terms; an authorization; a closure with the frozen terms and with amount_paid 0.
MCPayloads == {
  Says("paid", TRUE, "captured", TRUE),
  Says("paid", TRUE, "authorized", TRUE),
  Says("paid", TRUE, "none", TRUE),
  Says("paid", FALSE, "captured", TRUE),
  Says("authorized", TRUE, "authorized", TRUE),
  Says("expired", TRUE, "none", FALSE),
  Says("expired", FALSE, "none", FALSE),
  Says("cancelled", TRUE, "none", FALSE)}
=============================================================================
