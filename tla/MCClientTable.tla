--------------------------- MODULE MCClientTable ---------------------------
(* ClientTable for TLC: the values of its constants.                       *)
EXTENDS ClientTable
CONSTANTS d1, d2, f1, f2, none
TwoDevices == {d1, d2}
TwoFds == {f1, f2}
=============================================================================
