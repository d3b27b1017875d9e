--------------------------- MODULE MCSettingsReload ---------------------------
(***************************************************************************)
(* Instances of SettingsReload for TLC: whole, truncated and broken files. *)
(***************************************************************************)
EXTENDS SettingsReload

CONSTANTS r1, r2, e1

TwoReaders == {r1, r2}
OneEditor  == {e1}
FewShapes  == {<< >>, <<"good", "bad">>, <<"good", "good">>}
=============================================================================
