-------------------------- MODULE MCWebhookDelivery --------------------------
(***************************************************************************)
(* Small instances of WebhookDelivery.                                     *)
(***************************************************************************)
EXTENDS WebhookDelivery, TLC

WorkerSymmetry == Permutations(Workers)
OneHook    == [d \in Deliveries |-> "h1"]
TwoDelays  == <<0, 1>>
ThreeDelays == <<0, 1, 2>>
=============================================================================
