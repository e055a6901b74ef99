------------------------- MODULE MCModelCompletion --------------------------
(* Histories of blocks as the domain's builders make them, and one that    *)
(* holds a tool result alone; token counts that are right, left to be      *)
(* counted, and too low.  Conversations of other callers are any sequences *)
(* of up to three messages.                                                *)
EXTENDS ModelCompletion

CONSTANTS HistoryLimit, ConversationLimit, MessageCosts

Msg(role, tok) == [role |-> role, tok |-> tok]

Shapes ==
    {<<Msg("user", 1)>>, <<Msg("user", 3)>>, <<Msg("assistant", 1)>>,
     <<Msg("assistant", 1), Msg("tool", 2)>>,
     <<Msg("assistant", 1), Msg("tool", 1), Msg("tool", 3)>>,
     <<Msg("tool", 1)>>}

MCHistories ==
    BoundedSeq([messages : Shapes, stored : {0, 1}], HistoryLimit)

MCConversations ==
    BoundedSeq([role : {"user", "assistant", "tool"}, tok : MessageCosts], ConversationLimit)
=============================================================================
