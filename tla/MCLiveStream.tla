---------------------------- MODULE MCLiveStream ----------------------------
(* LiveStream with the sources as model values.                                 *)
EXTENDS LiveStream
=============================================================================
