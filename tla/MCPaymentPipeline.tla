--------------------------- MODULE MCPaymentPipeline ---------------------------
(* Small instances of PaymentPipeline for TLC. *)
EXTENDS PaymentPipeline, TLC

CONSTANTS payment1

\* One payment that every event is about.
AboutOnePayment == [e \in Events |-> payment1]

Interchangeable == Permutations(Workers) \cup Permutations(RefundEvents)
===============================================================================
