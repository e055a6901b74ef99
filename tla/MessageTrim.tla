---------------------------- MODULE MessageTrim -----------------------------
(***************************************************************************)
(* What a model is shown of a conversation: the token budget of a request  *)
(* and the two cuts it takes, by blocks in the session facade              *)
(* (src/model_provider/input_normalizer.py) and by messages in the client  *)
(* (src/model_provider/providers/litellm_adapter.py).  A message is its    *)
(* role and its number of tokens; litellm's counter is taken as additive.  *)
(* System messages, which are merged into one in front, are a number of    *)
(* tokens beside the conversation.                                         *)
(***************************************************************************)
EXTENDS Integers, SequencesExt

\* The message that asks a model to repair its answer has the role "user";
\* it has a name of its own here so that properties can tell it.
Roles == {"user", "assistant", "tool", "repair"}

SumOf(numbers) ==
    LET sum[n \in 0..Len(numbers)] == IF n = 0 THEN 0 ELSE sum[n - 1] + numbers[n]
    IN  sum[Len(numbers)]

\* The elements of q at the chosen places, in their order.
Picked(q, chosen) ==
    LET picked[n \in 0..Len(q)] ==
            IF n = 0 THEN <<>>
            ELSE IF n \in chosen THEN Append(picked[n - 1], q[n]) ELSE picked[n - 1]
    IN  picked[Len(q)]

Cost(q) == SumOf([i \in 1..Len(q) |-> q[i].tok])

\* The share of the window for input (trim_ratio 0.75), without the reserve.
BuildContextBudget(window, reserved) ==
    LET input == (3 * window) \div 4 - reserved
    IN  IF input > 0 THEN input ELSE 0
-----------------------------------------------------------------------------
(* By blocks.  A block carries its messages and the token count its author *)
(* gave it; 0 asks for counting.                                           *)

BlockCost(b) == IF b.stored > 0 THEN b.stored ELSE Cost(b.messages)

NewestBlocks(blocks, n) == SubSeq(blocks, Len(blocks) - n + 1, Len(blocks))

BlocksCost(blocks) == SumOf([i \in 1..Len(blocks) |-> BlockCost(blocks[i])])

\* Variant: the budget is given to the history alone.
TrimContextBlocksUnreserved(blocks, mandatory, budget) ==
    NewestBlocks(blocks,
        Max({n \in 0..Len(blocks) : BlocksCost(NewestBlocks(blocks, n)) <= budget}))

\* The newest blocks that fit beside the mandatory messages, up to the
\* first that does not.
TrimContextBlocks(blocks, mandatory, budget) ==
    NewestBlocks(blocks,
        Max({n \in 0..Len(blocks) :
            mandatory + BlocksCost(NewestBlocks(blocks, n)) <= budget}))

FlattenBlocks(blocks) ==
    LET flat[n \in 0..Len(blocks)] ==
            IF n = 0 THEN <<>> ELSE flat[n - 1] \o blocks[n].messages
    IN  flat[Len(blocks)]
-----------------------------------------------------------------------------
(* By messages.                                                            *)

\* Where the group that ends at i begins: a tool message takes the tool
\* messages before it and the message before those, if there is one.
GroupStart(q, i) ==
    LET before == {j \in 1..i : q[j].role # "tool"}
    IN  IF before = {} THEN 1 ELSE Max(before)

\* Tool messages that no assistant message precedes are orphans; the
\* message found in its place goes with them.
Orphaned(group) == Last(group).role = "tool" /\ Head(group).role # "assistant"

\* Variant: a group that does not fit is skipped and the scan goes on.
TrimMessagesSkipping(system, q, budget) ==
    LET kept[i \in 0..Len(q)] == [spent \in 0..budget |->
            IF i = 0 THEN <<>>
            ELSE LET start == GroupStart(q, i)
                     group == SubSeq(q, start, i)
                     cost  == spent + Cost(group)
                 IN  IF Orphaned(group) \/ cost > budget
                     THEN kept[start - 1][spent]
                     ELSE kept[start - 1][cost] \o group]
    IN  kept[Len(q)][system]

\* Variant: the system message is not counted.
TrimMessagesFree(system, q, budget) ==
    LET kept[i \in 0..Len(q)] == [spent \in 0..budget |->
            IF i = 0 THEN <<>>
            ELSE LET start == GroupStart(q, i)
                     group == SubSeq(q, start, i)
                     cost  == spent + Cost(group)
                 IN  IF Orphaned(group) THEN kept[start - 1][spent]
                     ELSE IF cost <= budget THEN kept[start - 1][cost] \o group
                     ELSE <<>>]
    IN  kept[Len(q)][0]

\* The backward pass of trim_messages, which stops at the first group that
\* does not fit.  kept[i][spent] is what it keeps of the first i messages.
TrimMessages(system, q, budget) ==
    LET kept[i \in 0..Len(q)] == [spent \in 0..budget |->
            IF i = 0 THEN <<>>
            ELSE LET start == GroupStart(q, i)
                     group == SubSeq(q, start, i)
                     cost  == spent + Cost(group)
                 IN  IF Orphaned(group) THEN kept[start - 1][spent]
                     ELSE IF cost <= budget THEN kept[start - 1][cost] \o group
                     ELSE <<>>]
    IN  kept[Len(q)][system]
-----------------------------------------------------------------------------
(* What a model should be shown, said without the pass.                    *)

\* The conversation without its incomplete tool interactions.
Complete(q) ==
    LET Incomplete(i) == \E t \in DOMAIN q :
            /\ q[t].role = "tool" /\ GroupStart(q, t) = GroupStart(q, i)
            /\ q[GroupStart(q, t)].role # "assistant"
    IN  Picked(q, {i \in 1..Len(q) : ~Incomplete(i)})

NoOrphan(q) ==
    \A i \in DOMAIN q : q[i].role = "tool" =>
        i > 1 /\ q[i - 1].role \in {"assistant", "tool"}

\* The longest end of the complete conversation that begins with no tool
\* message and fits.
LongestComplete(system, q, budget) ==
    LET ends == {w \in Suffixes(Complete(q)) :
                    NoOrphan(w) /\ system + Cost(w) <= budget}
    IN  CHOOSE w \in ends : \A v \in ends : Len(v) <= Len(w)
=============================================================================
