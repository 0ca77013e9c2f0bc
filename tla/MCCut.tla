-------------------------------- MODULE MCCut --------------------------------
(***************************************************************************)
(* A Chat stream of two choices, one of which may be cut short.            *)
(***************************************************************************)
EXTENDS MCStream

MCTwoChoices == [openai |-> {Says(0, {"content"}, <<>>, NoFinish, FALSE), Says(0, {}, <<>>, "stop", FALSE),
                             Says(1, {"content"}, <<>>, NoFinish, FALSE), Says(1, {}, <<>>, "stop", FALSE)},
                 gemini |-> {}]
MCChatCall == {MCCall("openai", "chat", "force", FALSE)}
=============================================================================
