--------------------------- MODULE RecentHistory ---------------------------
(***************************************************************************)
(* What HotMemoryProtocol promises about the blocks of a session, whatever *)
(* the backend: the store holds the longest run of the newest blocks that  *)
(* is within its limits; an append moves that window by one block and a    *)
(* deletion empties it, each in one step.  The backends are shown to       *)
(* implement this specification.                                           *)
(***************************************************************************)
EXTENDS ContextBlocks

CONSTANT Sessions      \* the (logic_id, session_id) pairs of the store

VARIABLE recent       \* recent[s]: the window of session s

TypeOK == recent \in [Sessions -> Seq(Blocks)]

Init == recent = [s \in Sessions |-> <<>>]

AppendBlock(s, b) ==
    recent' = [recent EXCEPT ![s] = LongestFitting(Append(@, b))]

DeleteHistory(s) == recent' = [recent EXCEPT ![s] = <<>>]

Next == \E s \in Sessions :
            \/ \E b \in Blocks : AppendBlock(s, b)
            \/ DeleteHistory(s)

Spec == Init /\ [][Next]_recent
=============================================================================
