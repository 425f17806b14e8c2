--------------------------- MODULE MCChatProvider ---------------------------
(* The services the two chat providers may talk to. *)
EXTENDS ChatProvider

Azure == [azure : {TRUE}, param : Params, json : BOOLEAN]
Anthropic == [azure |-> FALSE, param |-> "max_tokens", json |-> TRUE]
AllServices == Azure \cup {Anthropic}
=============================================================================
