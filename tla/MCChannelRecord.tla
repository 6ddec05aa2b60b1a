-------------------------- MODULE MCChannelRecord --------------------------
(* ChannelRecord for TLC.                                                  *)
EXTENDS ChannelRecord
=============================================================================
