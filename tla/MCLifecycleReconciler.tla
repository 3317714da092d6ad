----------------------- MODULE MCLifecycleReconciler -----------------------
(* Instances of LifecycleReconciler for TLC.                                *)
EXTENDS LifecycleReconciler
=============================================================================
