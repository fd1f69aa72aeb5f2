------------------------------ MODULE MCDialer ------------------------------
(* Instances of Dialer for TLC. *)
EXTENDS Dialer
=============================================================================
