----------------------------- MODULE MCApproval -----------------------------
(* Instances of Approval for TLC: the kinds of tool each run registers.    *)
EXTENDS Approval

CONSTANTS c1, c2, t1, t2, t3

Kind(adapter, primitive) == [adapter |-> adapter, primitive |-> primitive]

\* A handler and a decorated method that use either way of guarding, next to
\* a tool of the SDK.
MCAllTools == {Kind("handler", "secure"), Kind("handler", "accessor"),
               Kind("instance", "secure"), Kind("function", "accessor")}

\* What agent.pytool and agent.primitives give a user of the SDK.
MCSdkTools == {Kind("function", "accessor")}
=============================================================================
