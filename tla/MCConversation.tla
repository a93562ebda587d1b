-------------------------- MODULE MCConversation --------------------------
(* An instance of Conversation for TLC.                                    *)
EXTENDS Conversation

MCParamSets ==
  { {}, {"tools", "stream"}, Parameters \ {"temperature", "stream"}, {"temperature", "top_p", "max_tokens"} }
OnlyPlain == { {} }
=============================================================================
