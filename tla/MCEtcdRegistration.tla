------------------------- MODULE MCEtcdRegistration --------------------------
(* Small instances of EtcdRegistration for TLC: MCEtcd.cfg and MCEtcdStalled.cfg. *)
EXTENDS EtcdRegistration
=============================================================================
