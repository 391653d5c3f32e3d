---------------------------- MODULE OrderStates -----------------------------
(* The state machine of an order: the enums of loom-java/VirtualServer.java. *)

OrderStatus == {"PENDING", "ORDERED", "PAID", "PROCESSING", "SHIPPED",
                "DELIVERED", "COMPLETED", "CANCELED", "REFUNDED"}

OrderEvent == {"PAY", "PROCESS", "SHIP", "DELIVER", "CANCEL", "REFUND",
               "COMPLETE"}

canTransitionTo(s, next) ==
  CASE s = "PENDING"    -> next \in {"COMPLETED", "CANCELED"}
    [] s = "ORDERED"    -> next \in {"PAID", "CANCELED"}
    [] s = "PAID"       -> next \in {"PROCESSING", "CANCELED"}
    [] s = "PROCESSING" -> next = "SHIPPED"
    [] s = "SHIPPED"    -> next = "DELIVERED"
    [] s = "CANCELED"   -> next = "REFUNDED"
    [] OTHER            -> FALSE

targetStatus(e) ==
  CASE e = "PAY"      -> "PAID"
    [] e = "PROCESS"  -> "PROCESSING"
    [] e = "SHIP"     -> "SHIPPED"
    [] e = "DELIVER"  -> "DELIVERED"
    [] e = "CANCEL"   -> "CANCELED"
    [] e = "REFUND"   -> "REFUNDED"
    [] e = "COMPLETE" -> "COMPLETED"

Verdicts == {"COMPLETED", "CANCELED"}
=============================================================================
