---------------------------- MODULE MCChatPanel ----------------------------
(***************************************************************************)
(* Instances of ChatPanel for TLC: two chats.                               *)
(***************************************************************************)
EXTENDS ChatPanel

CONSTANTS chat1, chat2

=============================================================================
