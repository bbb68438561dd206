---------------------------- MODULE MCClientLink ----------------------------
(***************************************************************************)
(* Instance of ClientLink: every kind of transport, requests of two forms, *)
(* two transaction ids, so that an id comes round within three requests,   *)
(* and a deadline two ticks away.                                          *)
(***************************************************************************)
EXTENDS ClientLink

CONSTANTS f1, f2

TwoForms == {f1, f2}

=============================================================================
