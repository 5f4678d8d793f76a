---------------------------- MODULE MCUploadLoop ----------------------------
(* Small instances of UploadLoop.                                          *)
EXTENDS UploadLoop
=============================================================================
