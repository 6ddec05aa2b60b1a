--------------------------- MODULE MCChannelLink ---------------------------
(* ChannelLink for TLC: the values of its constants.                       *)
EXTENDS ChannelLink
CONSTANTS c1, c2
Both == {c1, c2}
One == {c1}
=============================================================================
