----------------------------- MODULE MCPublisher -----------------------------
(* The publisher's runs need no definitions of their own.                   *)
EXTENDS StatePublisher
=============================================================================
