----------------------------- MODULE MCDNSProxy ----------------------------
(***************************************************************************)
(* A connection to the DNS proxy, for TLC.                                 *)
(***************************************************************************)
EXTENDS DNSProxy

MCByte == 0 .. MaxBytes
=============================================================================
