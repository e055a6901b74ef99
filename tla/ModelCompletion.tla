-------------------------- MODULE ModelCompletion ---------------------------
(***************************************************************************)
(* A completion of a model, from the session facade (model_ask) or a       *)
(* caller of the model.completion capability through ModelRouter           *)
(* (src/model_provider/routing/router.py) and the MiniMax client to the    *)
(* provider, and back through build_model_response: an answer that cannot  *)
(* be parsed is asked for again, with a message that says what was wrong   *)
(* with it.  The provider answers anything, or its call raises.            *)
(***************************************************************************)
EXTENDS MessageTrim

CONSTANTS Histories,        \* sequences of blocks a session may hold
          Conversations,    \* sequences of messages other callers send
          SystemCosts,      \* tokens of the merged system message, 0: none
          PromptCosts,      \* tokens of the current prompt, 0: none
          RepairCosts,      \* tokens of a repair message
          DefaultWindow,    \* context window of a model litellm does not know
          ModelWindow,      \* context window the client registers
          Reserves,         \* max_tokens of a request
          DefaultReserve,   \* max_tokens of model_ask
          Retries,          \* max_retries of a request
          DefaultRetries    \* max_retries of model_ask

Messages == [role : Roles, tok : Nat]

ASSUME CompletionAssumption ==
    /\ SystemCosts \cup PromptCosts \cup RepairCosts \subseteq Nat
    /\ {DefaultWindow, ModelWindow} \cup Reserves \cup {DefaultReserve} \subseteq Nat \ {0}
    /\ Retries \cup {DefaultRetries} \subseteq Nat
    /\ Histories \subseteq Seq([messages : Seq(Messages), stored : Nat])
    /\ Conversations \subseteq Seq(Messages)

VARIABLES
    available,   \* the client has litellm, a key and a model name
    window,      \* the context window litellm knows for the model
    pc,          \* where the completion is
    request,     \* current_request and output_schema
    attempts,    \* local attempts of completion
    sent,        \* the messages of the last call of the provider
    response,    \* the last response and whether there is a repair_error
    result,      \* how the completion ended
    exact        \* history: model_ask counted as the client will

vars == <<available, window, pc, request, attempts, sent, response, result, exact>>

Schemas == {"none", "model", "mapping"}

\* convert_litellm_tool_calls: one call that is malformed, of a tool the
\* request does not offer, or with arguments that are no object of the tool's
\* schema spoils them all.
ToolAnswers == {"tools", "bad_tools"}

\* parse_message_content: content that parses (to null, perhaps) or does not.
ContentAnswers == {"parsed", "null", "unparsed"}

\* What build_model_response tells apart about an answer: no choices, content
\* that is no string, tool calls, or else content or none at all.
Answers == ToolAnswers \cup ContentAnswers \cup {"no_choices", "not_a_string", "empty"}

NoResponse == [success |-> FALSE, repairable |-> FALSE, cause |-> "none"]

TypeOK ==
    /\ available \in BOOLEAN /\ window \in {DefaultWindow, ModelWindow}
    /\ pc \in {"idle", "call", "provider", "answered", "done"}
    /\ request \in [system : Nat, messages : Seq(Messages), schema : Schemas,
                    reserved : Nat, maxRetries : Nat]
    /\ attempts \in 0..request.maxRetries
    /\ sent \in Seq(Messages)
    /\ response \in [success : BOOLEAN, repairable : BOOLEAN,
                     cause : Answers \cup {"none", "unavailable", "token_limit"}]
    /\ result \in {"none", "success", "exhausted", "error", "overflow"}
    /\ exact \in BOOLEAN

\* The request that model_ask makes, without its messages.
Blank == [system |-> 0, messages |-> <<>>, schema |-> "none",
          reserved |-> DefaultReserve, maxRetries |-> DefaultRetries]

Init ==
    /\ available \in BOOLEAN
    /\ window = DefaultWindow
    /\ pc = "idle"
    /\ request = Blank /\ attempts = 0 /\ sent = <<>> /\ response = NoResponse
    /\ result = "none" /\ exact = FALSE

Budget == BuildContextBudget(window, request.reserved)
-----------------------------------------------------------------------------
(* Two ways in.                                                            *)

Honest(b) == b.stored \in {0, Cost(b.messages)} /\ NoOrphan(b.messages)

\* The facade cuts the history to the budget beside the system message and
\* the prompt, or raises when those alone exceed it.
ModelAsk ==
    /\ pc = "idle"
    /\ \E blocks \in Histories, sys \in SystemCosts, prompt \in PromptCosts :
        LET budget  == BuildContextBudget(window, DefaultReserve)
            history == FlattenBlocks(TrimContextBlocks(blocks, sys + prompt, budget))
            asked   == IF prompt = 0 THEN <<>> ELSE <<[role |-> "user", tok |-> prompt]>>
        IN  IF sys + prompt > budget
            THEN /\ pc' = "done" /\ result' = "overflow"
                 /\ UNCHANGED <<request, exact>>
            ELSE /\ pc' = "call"
                 /\ request' = [Blank EXCEPT !.system = sys, !.messages = history \o asked]
                 /\ exact' = (window = ModelWindow /\ \A i \in DOMAIN blocks : Honest(blocks[i]))
                 /\ UNCHANGED result
    /\ UNCHANGED <<available, window, attempts, sent, response>>

CallerAsks ==
    /\ pc = "idle"
    /\ request' \in [system : SystemCosts, messages : Conversations, schema : Schemas,
                     reserved : Reserves, maxRetries : Retries]
    /\ pc' = "call"
    /\ UNCHANGED <<available, window, attempts, sent, response, result, exact>>
-----------------------------------------------------------------------------
(* The client.                                                             *)

Failure(cause) == [success |-> FALSE, repairable |-> TRUE, cause |-> cause]

ClientUnavailable ==
    /\ pc = "call" /\ ~available
    /\ response' = Failure("unavailable")
    /\ pc' = "answered"
    /\ UNCHANGED <<available, window, request, attempts, sent, result, exact>>

\* The client registers the window, then cuts the messages to it.
TokenLimitExceeded ==
    /\ pc = "call" /\ available
    /\ window' = ModelWindow
    /\ request.system > BuildContextBudget(window', request.reserved)
    /\ response' = Failure("token_limit")
    /\ pc' = "answered"
    /\ UNCHANGED <<available, request, attempts, sent, result, exact>>

Send ==
    /\ pc = "call" /\ available
    /\ window' = ModelWindow
    /\ LET budget == BuildContextBudget(window', request.reserved) IN
        /\ request.system <= budget
        /\ sent' = TrimMessages(request.system, request.messages, budget)
    /\ pc' = "provider"
    /\ UNCHANGED <<available, request, attempts, response, result, exact>>
-----------------------------------------------------------------------------
(* The answer.                                                             *)

\* Variant: content is accepted before the schema is asked.
BuildModelResponseLenient(answer) ==
    LET success == \/ answer = "tools"
                   \/ answer \in {"parsed", "null", "unparsed"}
    IN  [success |-> success, repairable |-> ~success, cause |-> answer]

\* Content may be anything without a schema, and must parse with one; JSON
\* null parses for a mapping, but counts as nothing parsed, with no error.
BuildModelResponse(answer) ==
    LET success ==
            \/ answer = "tools"
            \/ answer = "parsed"
            \/ answer \in {"null", "unparsed"} /\ request.schema = "none"
    IN  [success    |-> success,
         repairable |-> ~success /\ ~(answer = "null" /\ request.schema = "mapping"),
         cause      |-> answer]

Answer ==
    /\ pc = "provider"
    /\ \E answer \in Answers \ {"not_a_string"} : response' = BuildModelResponse(answer)
    /\ pc' = "answered"
    /\ UNCHANGED <<available, window, request, attempts, sent, result, exact>>

\* An exception of the provider's call or of build_model_response.
CallRaises ==
    /\ pc = "provider"
    /\ pc' = "done" /\ result' = "error"
    /\ UNCHANGED <<available, window, request, attempts, sent, response, exact>>
-----------------------------------------------------------------------------
(* The loop of completion.                                                 *)

ReturnResponse ==
    /\ pc = "answered" /\ response.success
    /\ pc' = "done" /\ result' = "success"
    /\ UNCHANGED <<available, window, request, attempts, sent, response, exact>>

Repair(tok) == [role |-> "repair", tok |-> tok]

GiveUp ==
    /\ pc = "answered" /\ ~response.success
    /\ attempts >= request.maxRetries
    /\ pc' = "done" /\ result' = "exhausted"
    /\ UNCHANGED <<available, window, request, attempts, sent, response, exact>>

\* Variant: the same request is sent again, and not counted.
RetryInPlace ==
    /\ pc = "answered" /\ ~response.success /\ response.repairable
    /\ attempts < request.maxRetries
    /\ pc' = "call"
    /\ UNCHANGED <<available, window, request, attempts, sent, response, result, exact>>

\* Variant: the new request is built without the system message.
RetryWithoutSystem ==
    /\ pc = "answered" /\ ~response.success /\ response.repairable
    /\ attempts < request.maxRetries
    /\ attempts' = attempts + 1
    /\ \E tok \in RepairCosts :
        request' = [request EXCEPT !.system = 0, !.messages = Append(@, Repair(tok))]
    /\ pc' = "call"
    /\ UNCHANGED <<available, window, sent, response, result, exact>>

\* The request grows by the repair message and is sent again.
Retry ==
    /\ pc = "answered" /\ ~response.success /\ response.repairable
    /\ attempts < request.maxRetries
    /\ attempts' = attempts + 1
    /\ \E tok \in RepairCosts :
        request' = [request EXCEPT !.messages = Append(@, Repair(tok))]
    /\ pc' = "call"
    /\ UNCHANGED <<available, window, sent, response, result, exact>>

\* No repair_error: completion raises (an UnboundLocalError, as exc and
\* format_user_facing_error are not bound there).
RaiseUnrepairable ==
    /\ pc = "answered" /\ ~response.success /\ ~response.repairable
    /\ attempts < request.maxRetries
    /\ attempts' = attempts + 1
    /\ pc' = "done" /\ result' = "error"
    /\ UNCHANGED <<available, window, request, sent, response, exact>>

\* The caller has its result.
Return ==
    /\ pc = "done"
    /\ pc' = "idle"
    /\ request' = Blank /\ attempts' = 0 /\ sent' = <<>> /\ response' = NoResponse
    /\ result' = "none" /\ exact' = FALSE
    /\ UNCHANGED <<available, window>>

Completion ==
    \/ ClientUnavailable \/ TokenLimitExceeded \/ Send \/ Answer \/ CallRaises
    \/ ReturnResponse \/ GiveUp \/ Retry \/ RaiseUnrepairable \/ Return

Next == ModelAsk \/ CallerAsks \/ Completion

Spec == Init /\ [][Next]_vars

\* litellm ends a call with a timeout, and the rest is one thread.
FairSpec == Spec /\ WF_vars(Completion)
-----------------------------------------------------------------------------
(* The provider gets the longest end of the conversation that is made of   *)
(* whole tool interactions and fits: the backward pass neither stops early *)
(* nor at a message an interaction needs, nor skips one in between.        *)
(* Whatever token counts authors put on their blocks and however repair    *)
(* messages grow the request, no call exceeds the budget of the window,    *)
(* and no call has a tool result without its tool call.  (Types included.) *)
SentIsLongestComplete ==
    /\ TypeOK
    /\ pc = "provider" =>
        /\ sent = LongestComplete(request.system, request.messages, Budget)
        /\ request.system + Cost(sent) <= Budget
        /\ NoOrphan(sent)

(* Blocks that were counted rightly, against the window the client uses,   *)
(* are not cut a second time: the facade and the client agree.             *)
KeptBlocksAreSent ==
    pc = "provider" /\ exact /\ attempts = 0 => sent = request.messages

Unrepaired(q) == Picked(q, {i \in 1..Len(q) : q[i].role # "repair"})

(* A retry shows the model what is wrong, and forgets from the old end     *)
(* only: the repair message is the newest that is sent, and no part of the *)
(* conversation comes back that an earlier call had left out.              *)
RetryOnlyForgets ==
    [][pc' = "provider" /\ attempts > 0 =>
        /\ sent' # <<>> => Last(sent').role = "repair"
        /\ IsSuffix(Unrepaired(sent'), Unrepaired(sent))]_vars

(* A completion that succeeds carries an answer its caller can use, and    *)
(* one that gives up has asked as often as max_retries allows.             *)
ResultIsDeserved ==
    /\ result = "success" => \/ response.cause \in {"tools", "parsed"}
                             \/ request.schema = "none" /\ response.cause \in {"null", "unparsed"}
    /\ result = "exhausted" => attempts = request.maxRetries

(* Every completion comes to an end, whatever the provider answers.        *)
CompletionEnds == pc # "idle" ~> pc = "idle"
=============================================================================
