------------------------------ MODULE MCKeychain ------------------------------
(***************************************************************************)
(* Instances of Keychain for TLC: a service users choose, and one that     *)
(* every draw may hit again.                                               *)
(***************************************************************************)
EXTENDS Keychain

CONSTANTS c1, c2, chosen, drawn, p, q

TwoCallers   == {c1, c2}
OneService   == {chosen}
OneName      == {drawn}
TwoPasswords == {p, q}
=============================================================================
