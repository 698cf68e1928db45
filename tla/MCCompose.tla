------------------------------ MODULE MCCompose ------------------------------
(***************************************************************************)
(* An instance of Compose for TLC.                                         *)
(***************************************************************************)
EXTENDS Compose, TLC

CONSTANTS w1, alice, bob, ext, list, self

\* A list of an account and a remote address, and an alias that leads nowhere.
AliasTable == (list :> <<bob, ext>>) @@ (self :> <<self>>)

\* An account named twice, directly and through the list; an alias loop.
Envelopes == {<<list, bob, list>>, <<self>>}
=============================================================================
