----------------------------- MODULE MCPortPool -----------------------------
(***************************************************************************)
(* PortPool with a handful of threads and ports for TLC.                   *)
(***************************************************************************)
EXTENDS PortPool, TLC

CONSTANTS ctrl, ppp, sms   (* gsmd's control, PPP and (CONFIG_SMS) SMS threads *)

ThreePerms == Permutations({ctrl, sms})
=============================================================================
