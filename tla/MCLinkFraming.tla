--------------------------- MODULE MCLinkFraming ----------------------------
(* LinkFraming with an empty payload and with ones that end in half a sync. *)
EXTENDS LinkFraming

MCPayloads == {<<>>, <<"A5">>, <<"data", "A5">>}
=============================================================================
