---------------------------- MODULE RegistryCalls ----------------------------
(* The calls of register and deregister that one process makes to a provider *)
(* (LocalRegistry, NacosRegistry).                                           *)
EXTENDS Feeds

CONSTANTS
    Registers,    \* one-shot calls of register
    Deregs        \* one-shot calls of deregister

ASSUME CallsAssumption == None \notin Ids /\ Registers \cap Deregs = {}
=============================================================================
