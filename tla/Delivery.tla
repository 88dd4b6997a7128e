------------------------------ MODULE Delivery ------------------------------
(***************************************************************************)
(* The two ways an authorised action reaches the thing it acts on          *)
(* (execution_modes.py).  Brokered: an adapter calls the provider with a   *)
(* credential (AdapterCalls).  Resource-owned: the action's proof travels  *)
(* to the resource, whose own boundary decides (Boundary).  A deployment   *)
(* uses one or the other, and what it does not use stands still.           *)
(***************************************************************************)
EXTENDS AdapterCalls, Boundary

VARIABLE mode   \* how actions are executed

deliveryVars == <<mode, adapterVars, boundaryVars>>

DeliveryTypeOK ==
    /\ mode \in {"brokered", "resource_owned"}
    /\ AdapterTypeOK
    /\ BoundaryTypeOK

DeliveryInit ==
    /\ mode \in {"brokered", "resource_owned"}
    /\ AdapterInit
    /\ mode = "resource_owned" => adapter = CHOOSE c \in Adapters : Constructible(c)
    /\ BoundaryInit

DeliveryNext ==
    \/ mode = "brokered" /\ AdapterNext /\ UNCHANGED <<mode, boundaryVars>>
    \/ mode = "resource_owned" /\ BoundaryNext /\ UNCHANGED <<mode, adapterVars>>

DeliverySpec == DeliveryInit /\ [][DeliveryNext]_deliveryVars /\ AdapterFairness
=============================================================================
