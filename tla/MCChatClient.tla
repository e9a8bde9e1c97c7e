----------------------------- MODULE MCChatClient -----------------------------
(* Instances of ChatClient for TLC.                                          *)
EXTENDS ChatClient, TLC

MCSymmetry == Permutations(CliConversations) \cup Permutations(CliCards)

=============================================================================
