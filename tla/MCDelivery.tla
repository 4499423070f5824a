----------------------------- MODULE MCDelivery -----------------------------
(* Two workers, one cycle key and one account with one channel.            *)
EXTENDS Delivery
=============================================================================
