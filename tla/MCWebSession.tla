---------------------------- MODULE MCWebSession ----------------------------
(***************************************************************************)
(* An instance of WebSession for TLC: two browsers behind one address.     *)
(***************************************************************************)
EXTENDS WebSession

CONSTANTS c1, c2, ip1

Addresses == [c \in Client |-> ip1]
Limits == [k \in Key |-> 2]
=============================================================================
