--------------------------- MODULE OrderLifecycle ---------------------------
(***************************************************************************)
(* The states an order slot of the OrderManager goes through and the table *)
(* of transitions the code permits (execution/order_manager.hpp, enum      *)
(* OrderState; execution/order_manager.cpp, is_valid_transition).          *)
(***************************************************************************)

OrderStates ==
  {"NEW", "PENDING", "SUBMITTED", "ACKNOWLEDGED", "PARTIALLY_FILLED",
   "FILLED", "CANCELED", "REJECTED"}

Terminal == {"FILLED", "CANCELED", "REJECTED"}

(* States in which place_new may leave an order once the REST answer is in. *)
InFlight == {"PENDING", "SUBMITTED"}

(* Successors(s): the states is_valid_transition accepts from s. *)
Successors(s) ==
  CASE s = "NEW"              -> {"PENDING"}
    [] s = "PENDING"          -> {"SUBMITTED", "REJECTED"}
    [] s = "SUBMITTED"        -> {"ACKNOWLEDGED", "REJECTED", "CANCELED"}
    [] s = "ACKNOWLEDGED"     -> {"PARTIALLY_FILLED", "FILLED", "CANCELED", "REJECTED"}
    [] s = "PARTIALLY_FILLED" -> {"FILLED", "CANCELED"}
    [] s \in Terminal         -> {}

(* OrderManager::transition: an invalid transition is logged and ignored. *)
Transition(from, to) == IF to \in Successors(from) THEN to ELSE from

=============================================================================
