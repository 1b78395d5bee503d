---------------------------- MODULE MCRingBuffer ----------------------------
(* TLC instance of RingBufferSpec: every call sequence on a small buffer. *)
EXTENDS RingBufferSpec
=============================================================================
