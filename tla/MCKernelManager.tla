---------------------------- MODULE MCKernelManager ----------------------------
(* KernelManager for the model checker; the configurations give the bounds *)
(* and say how strictly a dialog blocks the windows under it.              *)
EXTENDS KernelManager
===============================================================================
