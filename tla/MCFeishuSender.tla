--------------------------- MODULE MCFeishuSender ---------------------------
(* An instance of FeishuSender for TLC: one image of two pieces, which both   *)
(* callers may be asked for.                                                 *)
EXTENDS FeishuSender

MCImages == <<2>>
=============================================================================
