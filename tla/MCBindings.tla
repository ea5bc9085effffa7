----------------------------- MODULE MCBindings -----------------------------
(* A controller in a controller of the same name, a button in both, and a   *)
(* second name whose methods stop the event.                                *)
EXTENDS Bindings

CONSTANTS routing, catalog

PageParent == <<0, 1, 2>>
PageControllers == <<{routing}, {routing}, {}>>
PageActions == <<<<routing>>, <<>>, <<routing, catalog>>>>
PageTargets == <<{routing}, {routing}, {routing, catalog}>>
SomeControllers == SUBSET {routing, catalog}
SomeActions == {<<>>, <<routing>>, <<routing, catalog>>, <<catalog, routing>>, <<routing, routing>>}
=============================================================================
