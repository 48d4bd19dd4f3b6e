---------------------------- MODULE MCChannelTable ----------------------------
(* Instances of ChannelTable for TLC. *)
EXTENDS ChannelTable
=============================================================================
