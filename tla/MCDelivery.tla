------------------------------ MODULE MCDelivery ------------------------------
(* One delivery whose invocations may outlive the lock of their job.         *)
EXTENDS Delivery

MCChannelOf == [d \in Deliveries |-> "ops"]
=============================================================================
