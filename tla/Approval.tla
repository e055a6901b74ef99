------------------------------ MODULE Approval ------------------------------
(***************************************************************************)
(* Tool calls under the security policy: QFASessionContext.call_pytool,    *)
(* RegisteredCapabilityHub.invoke, with_security_policy, the secure action *)
(* a tool runs, and the in-memory TicketStore with its time to live        *)
(* (src/skill_hub, src/qfaos/internal, src/qfaos/runtime).                 *)
(*                                                                         *)
(* A call is a coroutine; the loop may run another one whenever an action  *)
(* awaits, so two calls of one handler interleave.  What a policy decides  *)
(* is an input: the patterns and command lists are left out.               *)
(***************************************************************************)
EXTENDS Integers

CONSTANTS Calls,        \* call_pytool coroutines that may be under way
          Tools,        \* kinds of tool in use, a subset of ToolKind
          Tickets,      \* ticket identifiers, enough for one behaviour
          NoTicket,     \* no ticket is carried
          Ttl,          \* ttl_seconds, in ticks of the clock
          ClockLimit    \* bound on the clock

\* How a tool is registered: the SDK's FunctionPyTool, a decorated method of
\* a registered instance, or a handler given to register_capability; and what
\* guards its actions: agent.primitives, or ToolSecurityPrimitive.
ToolKind == [adapter   : {"function", "instance", "handler"},
             primitive : {"accessor", "secure"}]

ASSUME ApprovalAssumption ==
    /\ Tools \subseteq ToolKind
    /\ NoTicket \notin Tickets
    /\ Ttl \in Nat /\ ClockLimit \in Nat

VARIABLES
    now,        \* time.time()
    store,      \* _global_ticket_store._tickets: ticket -> expiry
    issued,     \* history: when each ticket ever generated was generated
    reported,   \* tickets a handler was given in a QFAToolResult
    spent,      \* history: tickets of calls that succeeded
    pc,         \* idle, tool (between actions) or acting
    tool,       \* the kind of tool a call runs
    ticket,     \* the ticket_id a call carries
    result      \* error code of the last result of a call, "none" or "ok"

vars == <<now, store, issued, reported, spent, pc, tool, ticket, result>>

Results == {"none", "ok", "requires_user_approval", "security_policy_violation",
            "tool_execution_error", "capability_execution_failed"}

TypeOK ==
    /\ now \in 0..ClockLimit
    /\ DOMAIN issued \subseteq Tickets
    /\ \A t \in DOMAIN issued : issued[t] \in 0..ClockLimit
    /\ DOMAIN store \subseteq DOMAIN issued
    /\ \A t \in DOMAIN store : store[t] \in Ttl..ClockLimit + Ttl
    /\ reported \subseteq DOMAIN issued
    /\ spent \subseteq reported
    /\ pc \in [Calls -> {"idle", "tool", "acting"}]
    /\ tool \in [Calls -> Tools]
    /\ ticket \in [Calls -> Tickets \cup {NoTicket}]
    /\ result \in [Calls -> Results]

NoEntries == [t \in {} |-> 0]

Init ==
    /\ now = 0
    /\ store = NoEntries
    /\ issued = NoEntries
    /\ reported = {}
    /\ spent = {}
    /\ pc = [c \in Calls |-> "idle"]
    /\ tool \in [Calls -> Tools]
    /\ ticket = [c \in Calls |-> NoTicket]
    /\ result = [c \in Calls |-> "none"]
-----------------------------------------------------------------------------
(* TicketStore                                                             *)

Without(times, gone) == [t \in DOMAIN times \ gone |-> times[t]]

With(times, t, time) ==
    [u \in DOMAIN times \cup {t} |-> IF u = t THEN time ELSE times[u]]

\* Variant: a ticket expires one tick early.
LiveEarly == Without(store, {t \in DOMAIN store : now >= store[t]})

\* _gc
Live == Without(store, {t \in DOMAIN store : now > store[t]})

\* generate, after _gc
Generated(t) == With(Live, t, now + Ttl)

\* Variant: the ticket is left in the store.
ConsumedNever(t) == store

\* consume, called for a result that is a success and carries a ticket
Consumed(t) == Without(store, {t})

\* The approved_ticket_id a secure action is called with.  agent.primitives
\* reads the context variable call_pytool sets; a ToolSecurityPrimitive gets
\* what the tool passes, and only a handler is shown the request's ticket.
TicketSeen(c) ==
    IF tool[c].primitive = "accessor" \/ tool[c].adapter = "handler"
    THEN ticket[c] ELSE NoTicket
-----------------------------------------------------------------------------
(* What becomes of an exception raised by a secure action or by a tool.    *)

PolicyCode == [denied   |-> "security_policy_violation",
               approval |-> "requires_user_approval"]

\* build_secure_primitive turns the policy's exceptions into errors of the
\* SDK; FunctionPyTool.invoke catches all; with_security_policy knows the two
\* security exceptions only; hub.invoke catches the rest.
\* A primitive of the SDK raises errors of the SDK in place of those that
\* with_security_policy knows.
Known(c) == IF tool[c].primitive = "secure" THEN DOMAIN PolicyCode ELSE {}

ErrorCode(c, exception) ==
    IF tool[c].adapter = "function" THEN "tool_execution_error"
    ELSE IF exception \in Known(c) THEN PolicyCode[exception]
    ELSE "capability_execution_failed"

\* The call returns its result, and the context variable is reset.
Answer(c, code) ==
    /\ pc' = [pc EXCEPT ![c] = "idle"]
    /\ ticket' = [ticket EXCEPT ![c] = NoTicket]
    /\ result' = [result EXCEPT ![c] = code]
    /\ UNCHANGED tool
-----------------------------------------------------------------------------
\* call_pytool up to the tool's body: the ticket is one the handler was given
\* by an earlier result.
CallPytool(c) ==
    /\ pc[c] = "idle"
    /\ pc' = [pc EXCEPT ![c] = "tool"]
    /\ tool' \in {[tool EXCEPT ![c] = k] : k \in Tools}
    /\ ticket' \in {[ticket EXCEPT ![c] = t] : t \in reported \cup {NoTicket}}
    /\ result' = [result EXCEPT ![c] = "none"]
    /\ UNCHANGED <<now, store, issued, reported, spent>>

\* PolicyDecision.ALLOW: the action starts.
Allow(c) ==
    /\ pc[c] = "tool"
    /\ pc' = [pc EXCEPT ![c] = "acting"]
    /\ UNCHANGED <<now, store, issued, reported, spent, tool, ticket, result>>

\* PolicyDecision.DENY: SecurityError.
Deny(c) ==
    /\ pc[c] = "tool"
    /\ Answer(c, ErrorCode(c, "denied"))
    /\ UNCHANGED <<now, store, issued, reported, spent>>

\* REQUIRE_TICKET with a valid ticket: the action starts.  The ticket stays,
\* so that one call may hit several guarded actions.
Admit(c) ==
    /\ pc[c] = "tool"
    /\ TicketSeen(c) \in DOMAIN Live
    /\ store' = Live
    /\ pc' = [pc EXCEPT ![c] = "acting"]
    /\ UNCHANGED <<now, issued, reported, spent, tool, ticket, result>>

\* REQUIRE_TICKET otherwise: a new ticket, SecurityApprovalRequiredError, and
\* a result that asks the user for approval if the exception gets that far.
Ask(c) ==
    /\ pc[c] = "tool"
    /\ TicketSeen(c) \notin DOMAIN Live
    /\ \E t \in Tickets \ DOMAIN issued :
          /\ store' = Generated(t)
          /\ issued' = With(issued, t, now)
          /\ reported' = IF ErrorCode(c, "approval") = "requires_user_approval"
                         THEN reported \cup {t} ELSE reported
    /\ Answer(c, ErrorCode(c, "approval"))
    /\ UNCHANGED <<now, spent>>

\* The action is done and the tool goes on.
ActionDone(c) ==
    /\ pc[c] = "acting"
    /\ pc' = [pc EXCEPT ![c] = "tool"]
    /\ UNCHANGED <<now, store, issued, reported, spent, tool, ticket, result>>

\* The tool or its action raises an exception of its own, or the tool's
\* result does not validate: the ticket is not consumed.
ToolRaises(c) ==
    /\ pc[c] \in {"tool", "acting"}
    /\ Answer(c, ErrorCode(c, "other"))
    /\ UNCHANGED <<now, store, issued, reported, spent>>

\* The tool returns: with_security_policy consumes the request's ticket.
ToolReturns(c) ==
    /\ pc[c] = "tool"
    /\ store' = Consumed(ticket[c])
    /\ spent' = spent \cup ({ticket[c]} \ {NoTicket})
    /\ Answer(c, "ok")
    /\ UNCHANGED <<now, issued, reported>>

Tick ==
    /\ now < ClockLimit
    /\ now' = now + 1
    /\ UNCHANGED <<store, issued, reported, spent, pc, tool, ticket, result>>

Next ==
    \/ Tick
    \/ \E c \in Calls : \/ CallPytool(c) \/ Allow(c) \/ Deny(c) \/ Admit(c) \/ Ask(c)
                        \/ ActionDone(c) \/ ToolRaises(c) \/ ToolReturns(c)

Spec == Init /\ [][Next]_vars
-----------------------------------------------------------------------------
(* A ticket is not used again: once a call that carries it has succeeded,  *)
(* no guarded action of another call starts on it, not even of a call that *)
(* was under way with the same ticket.                                     *)
SpentNeverAdmits == [][\A c \in Calls : Admit(c) => TicketSeen(c) \notin spent]_vars

(* An approval the user gave counts: a guarded action that is shown a      *)
(* ticket is asked for approval again only when that ticket has expired or *)
(* a call has succeeded on it, whatever other calls asked for, failed or   *)
(* were denied meanwhile.  In particular a call that failed may be         *)
(* repeated with its ticket.  (An action that is shown none, TicketSeen    *)
(* says which, is asked every time, also when its call carries a ticket.)  *)
AskIsAnswerable ==
    [][\A c \in Calls : Ask(c) =>
          \/ TicketSeen(c) \in spent \cup {NoTicket}
          \/ now > issued[TicketSeen(c)] + Ttl]_vars

(* When an action needs approval the handler is told so: every ticket ever *)
(* generated was reported in a result that asks for approval.              *)
ApprovalReachesHandler == DOMAIN issued \subseteq reported
=============================================================================
