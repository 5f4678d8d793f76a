------------------------------ MODULE MCDevPod ------------------------------
(* Small instances of DevPod.                                              *)
EXTENDS DevPod
=============================================================================
