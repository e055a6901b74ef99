----------------------------- MODULE BillAgent ------------------------------
(* The bill agent (src/agents/bill_management_agent.py), a handler built on   *)
(* the SDK: one turn per event, one event at a time.  A turn renews the       *)
(* system prompt when the date says so, and then runs a command, or reads an  *)
(* image, or asks the model in rounds and calls the tools it wants.  Commands *)
(* and tools are operations of BillLedger, where the agent is one client of   *)
(* several.                                                                  *)
(*                                                                          *)
(* The markers of the prompt live in the process, the prompt and the history  *)
(* in the session memory, the bills in the database.  The session of one user *)
(* is modelled: the ids of users are kept in memory only, so a process that   *)
(* starts again gives the user another id, and with it a new session.         *)
(* history is what was appended to the session; how much of it the store      *)
(* keeps is the subject of JsonlHotMemory.  A message that is sent arrives or *)
(* is lost without an error: the facade drops the result of the sender.  A    *)
(* turn ends with the process when the memory raises, as nothing catches it   *)
(* up to the consumer loop.                                                  *)
(***************************************************************************)
EXTENDS BillLedger, Sequences

CONSTANTS Agent,      \* the process of the agent, one of Clients
          MaxRound,   \* MAX_ROUND
          MaxCalls,   \* tool calls of one answer, a bound of the model
          MaxTurns,   \* events, a bound of the model
          MaxDay,     \* the last day, a bound of the model
          MaxDeaths,  \* ends of the process, a bound of the model
          MaxForeign  \* operations of the other clients, a bound of the model

ASSUME AgentAssumption ==
  /\ Agent \in Clients
  /\ {MaxRound, MaxCalls, MaxTurns, MaxDay, MaxDeaths, MaxForeign} \subseteq Nat
  /\ MaxDay # 0

VARIABLES
  today,    \* the date
  markers,  \* has_inject_system_prompt_sessions, system_prompt_date_by_session
  stored,   \* the session: the day in its prompt (0: none), what was appended
  turn,     \* the event being handled
  told,     \* answers that reached the user in this session since its last /clear
  budget    \* turns, deaths and foreign operations so far

agentVars == <<today, markers, stored, turn, told, budget>>
vars      == <<ledgerVars, agentVars>>

Kinds  == {"text", "image", "clear", "command", "report"}
Stages == {"idle", "prompt", "writing", "marking", "dispatch", "ocr", "ask", "calls",
           "calling", "answer", "send", "over"}
Block  == [kind : {"user", "answer", "tool"}, calls : 0 .. MaxCalls, results : 0 .. MaxCalls]
Said(kind) == [kind |-> kind, calls |-> 0, results |-> 0]

\* seen: the day in the prompt text; check: the day the marker will get, 0 for
\* the day it is then; open: changes of the database not yet accounted for.
NoTurn == [stage |-> "idle", kind |-> "text", seen |-> 0, check |-> 0, rounds |-> 0,
           want |-> 0, got |-> 0, open |-> 0, replies |-> 0]
Turn   == [stage : Stages, kind : Kinds, seen : 0 .. MaxDay, check : 0 .. MaxDay,
           rounds : 0 .. MaxRound, want : 0 .. MaxCalls, got : 0 .. MaxCalls,
           open : 0 .. MaxCalls, replies : 0 .. 2]

TypeOK ==
  /\ LedgerTypeOK
  /\ today \in 1 .. MaxDay
  /\ markers \in [injected : BOOLEAN, day : 0 .. MaxDay, slipped : BOOLEAN]
  /\ stored \in [prompt : 0 .. MaxDay, history : Seq(Block)]
  /\ turn \in Turn
  /\ told \in 0 .. MaxTurns
  /\ budget \in [turns : 0 .. MaxTurns, deaths : 0 .. MaxDeaths, foreign : 0 .. MaxForeign]

NewSession == [prompt |-> 0, history |-> << >>]
NoMarkers == [injected |-> FALSE, day |-> 0, slipped |-> FALSE]

Init ==
  /\ LedgerInit
  /\ today = 1
  /\ markers = NoMarkers
  /\ stored = NewSession
  /\ turn = NoTurn
  /\ told = 0
  /\ budget = [turns |-> 0, deaths |-> 0, foreign |-> 0]

At(stage) == turn.stage = stage
Goto(stage) == turn' = [turn EXCEPT !.stage = stage]
\* The message that ends a turn.
Reply == turn' = [turn EXCEPT !.stage = "over", !.replies = @ + 1]
Remember(block) == stored' = [stored EXCEPT !.history = Append(@, block)]

----------------------------------------------------------------------------
(* execute: the system prompt.                                              *)

\* The text of the prompt is made first, with the date of this moment.
Receive(kind) ==
  /\ At("idle") /\ budget.turns < MaxTurns
  /\ turn' = [NoTurn EXCEPT !.stage = "prompt", !.kind = kind, !.seen = today]
  /\ budget' = [budget EXCEPT !.turns = @ + 1]
  /\ UNCHANGED <<ledgerVars, today, markers, stored, told>>

\* A session without a marker, or one marked on another day, gets the prompt.
CheckPrompt ==
  /\ At("prompt")
  /\ turn' = IF markers.injected /\ markers.day = today
             THEN [turn EXCEPT !.stage = "dispatch"]
             ELSE [turn EXCEPT !.stage = "writing", !.check = IF markers.injected THEN today ELSE 0]
  /\ UNCHANGED <<ledgerVars, today, markers, stored, told, budget>>

\* set_system_prompt: the part of this source is replaced.
SetSystemPrompt ==
  /\ At("writing")
  /\ stored' = [stored EXCEPT !.prompt = turn.seen]
  /\ Goto("marking")
  /\ UNCHANGED <<ledgerVars, today, markers, told, budget>>

\* A new session is marked with the day it is after the await.  Midnight may
\* have passed since the text was made: slipped keeps that.
Mark ==
  /\ At("marking")
  /\ LET day == IF turn.check = 0 THEN today ELSE turn.check IN
       markers' = [injected |-> TRUE, day |-> day, slipped |-> day # turn.seen]
  /\ Goto("dispatch")
  /\ UNCHANGED <<ledgerVars, today, stored, told, budget>>

----------------------------------------------------------------------------
(* _do_execute: images and commands.                                        *)

\* The notice that the image is being looked at is not the reply; then the
\* download, which raises when it fails.
DownloadImage ==
  /\ At("dispatch") /\ turn.kind = "image"
  /\ Goto("ocr") \/ Reply
  /\ UNCHANGED <<ledgerVars, today, markers, stored, told, budget>>

\* recognize_text: the words of the image or an error message.  With no token
\* of its own it raises.
Recognized == {"words", "error"}

\* The words become those of the user; otherwise the user is told.
RecognizeText ==
  /\ At("ocr")
  /\ \E r \in Recognized :
       IF r = "words" THEN Remember(Said("user")) /\ Goto("ask")
                      ELSE Reply /\ UNCHANGED stored
  /\ UNCHANGED <<ledgerVars, today, markers, told, budget>>

\* Variant: /clear leaves the markers of the prompt.
ClearHistoryKeepsMarkers ==
  /\ At("dispatch") /\ turn.kind = "clear"
  /\ stored' = NewSession
  /\ told' = 0
  /\ Reply
  /\ UNCHANGED <<ledgerVars, today, markers, budget>>

\* /clear: history and prompt go, and with them the markers.  The manager
\* swallows a deletion that fails: both may stay, or the prompt alone.
ClearHistory ==
  /\ At("dispatch") /\ turn.kind = "clear"
  /\ \/ stored' = NewSession
     \/ stored' = [stored EXCEPT !.history = << >>]
     \/ UNCHANGED stored
  /\ markers' = NoMarkers
  /\ told' = 0
  /\ Reply
  /\ UNCHANGED <<ledgerVars, today, budget>>

\* /help, lists, queries, statistics and unknown commands only answer.
Report ==
  /\ At("dispatch") /\ turn.kind = "report"
  /\ Reply
  /\ UNCHANGED <<ledgerVars, today, markers, stored, told, budget>>

\* A command that changes the database, without an await until it is done.
Command ==
  /\ At("dispatch") /\ turn.kind = "command"
  /\ \E a \in Requests : Start(Agent, a)
  /\ Goto("calling")
  /\ UNCHANGED <<today, markers, stored, told, budget>>

\* A result or an exception, the user hears of it.
CommandDone ==
  /\ At("calling") /\ turn.kind = "command"
  /\ Take(Agent)
  /\ Reply
  /\ UNCHANGED <<today, markers, stored, told, budget>>

----------------------------------------------------------------------------
(* _do_execute: asking the model.                                           *)

\* The words of the user are recorded first.
RecordUser ==
  /\ At("dispatch") /\ turn.kind = "text"
  /\ Remember(Said("user"))
  /\ Goto("ask")
  /\ UNCHANGED <<ledgerVars, today, markers, told, budget>>

\* model_ask: a failure ends the turn with a message, an answer or some tool
\* calls are taken up.
ModelAsk ==
  /\ At("ask") /\ turn.rounds < MaxRound
  /\ \/ Reply
     \/ Goto("answer")
     \/ \E n \in 1 .. MaxCalls : turn' = [turn EXCEPT !.stage = "calls", !.want = n, !.got = 0]
  /\ UNCHANGED <<ledgerVars, today, markers, stored, told, budget>>

\* Variant: the model is asked again after the last round.
ExhaustedAsksAgain ==
  /\ At("ask") /\ turn.rounds = MaxRound
  /\ UNCHANGED vars

\* The else of the for loop.
Exhausted ==
  /\ At("ask") /\ turn.rounds = MaxRound
  /\ Reply
  /\ UNCHANGED <<ledgerVars, today, markers, stored, told, budget>>

\* The tools that change the database; categories change by commands only.
Tools == {"add_bill", "update_bill", "delete_bill"}

\* The calls of one answer are made one after another.
CallPytool ==
  /\ At("calls") /\ turn.got < turn.want
  /\ \E a \in Requests : a.op \in Tools /\ Start(Agent, a)
  /\ Goto("calling")
  /\ UNCHANGED <<today, markers, stored, told, budget>>

\* The tools that only read or send cards change nothing, and give a result
\* whatever happens in them.
CallReader ==
  /\ At("calls") /\ turn.got < turn.want
  /\ turn' = [turn EXCEPT !.got = @ + 1]
  /\ UNCHANGED <<ledgerVars, today, markers, stored, told, budget>>

\* call_pytool raises before the tool has started: the turn is over.
CallFails ==
  /\ At("calls") /\ turn.got < turn.want
  /\ turn' = [turn EXCEPT !.stage = "over", !.replies = @ + 1, !.open = 0]
  /\ UNCHANGED <<ledgerVars, today, markers, stored, told, budget>>

Succeeded == IF call[Agent].stage = "true" THEN 1 ELSE 0

\* The result, good or bad, is a message of the block to come.
ToolResult ==
  /\ At("calling") /\ turn.kind # "command"
  /\ Take(Agent)
  /\ turn' = [turn EXCEPT !.stage = "calls", !.got = @ + 1, !.open = @ + Succeeded]
  /\ UNCHANGED <<today, markers, stored, told, budget>>

\* Variant: an exception of a tool is only recorded.
ToolRaisesUntold ==
  /\ At("calling") /\ turn.kind # "command"
  /\ Take(Agent)
  /\ turn' = [turn EXCEPT !.stage = "over", !.replies = @ + 1, !.open = @ + Succeeded]
  /\ UNCHANGED <<today, markers, stored, told, budget>>

\* call_pytool raises, after whatever the tool did: the user is told, and the
\* interaction is not recorded.
ToolRaises ==
  /\ At("calling") /\ turn.kind # "command"
  /\ Take(Agent)
  /\ turn' = [turn EXCEPT !.stage = "over", !.replies = @ + 1, !.open = 0]
  /\ UNCHANGED <<today, markers, stored, told, budget>>

\* One block for the call and all its results, then the next round.  A response
\* that is a success always has the message the block is made of: the adapter
\* gives none without it.
RecordTools ==
  /\ At("calls") /\ turn.got = turn.want
  /\ Remember([kind |-> "tool", calls |-> turn.want, results |-> turn.got])
  /\ turn' = [turn EXCEPT !.stage = "ask", !.rounds = @ + 1, !.open = 0]
  /\ UNCHANGED <<ledgerVars, today, markers, told, budget>>

\* Variant: the answer is sent without being recorded.
RecordNoAnswer ==
  /\ At("answer")
  /\ Goto("send")
  /\ UNCHANGED <<ledgerVars, today, markers, told, stored, budget>>

\* The answer is recorded before it is sent; it has a message for the same
\* reason.
RecordAnswer ==
  /\ At("answer")
  /\ Remember(Said("answer"))
  /\ Goto("send")
  /\ UNCHANGED <<ledgerVars, today, markers, told, budget>>

\* send_message: the answer arrives or not, the agent does not know.
SendAnswer ==
  /\ At("send")
  /\ Reply
  /\ told' \in {told, told + 1}
  /\ UNCHANGED <<ledgerVars, today, markers, stored, budget>>

\* The turn is over and the next event may come.
EndTurn ==
  /\ At("over")
  /\ turn' = NoTurn
  /\ UNCHANGED <<ledgerVars, today, markers, stored, told, budget>>

----------------------------------------------------------------------------
(* What happens around the agent.                                           *)

\* The operation of the agent goes on, without an await of the agent.
AgentLedger ==
  /\ CategoryExists(Agent) \/ Statement(Agent) \/ DatabaseFails(Agent)
  /\ UNCHANGED agentVars

OtherClient(c) ==
  /\ c # Agent
  /\ \/ /\ budget.foreign < MaxForeign
        /\ \E a \in Requests : Start(c, a)
        /\ budget' = [budget EXCEPT !.foreign = @ + 1]
     \/ (CategoryExists(c) \/ Statement(c) \/ DatabaseFails(c) \/ Take(c)) /\ UNCHANGED budget
  /\ UNCHANGED <<today, markers, stored, turn, told>>

Midnight ==
  /\ today < MaxDay
  /\ today' = today + 1
  /\ UNCHANGED <<ledgerVars, markers, stored, turn, told, budget>>

\* The process ends, killed or by an exception of the memory, and starts
\* again without markers and without the event.  The user comes back under
\* another id: to a new session, but to the same bills.
Die ==
  /\ budget.deaths < MaxDeaths
  /\ Reopen(Agent)
  /\ markers' = NoMarkers
  /\ stored' = NewSession
  /\ turn' = NoTurn
  /\ told' = 0
  /\ budget' = [budget EXCEPT !.deaths = @ + 1]
  /\ UNCHANGED today

\* Every event has been handled.
Quiet ==
  /\ At("idle") /\ budget.turns = MaxTurns
  /\ \A c \in Clients : call[c].stage = "idle"
  /\ UNCHANGED vars

Handle == \/ CheckPrompt \/ SetSystemPrompt \/ Mark
          \/ DownloadImage \/ ClearHistory \/ Report \/ Command \/ CommandDone
          \/ RecordUser \/ ModelAsk \/ Exhausted \/ CallPytool \/ CallReader \/ CallFails
          \/ ToolResult \/ ToolRaises
          \/ RecordTools \/ RecordAnswer \/ SendAnswer \/ EndTurn \/ AgentLedger

Next == \/ \E kind \in Kinds : Receive(kind)
        \/ Handle \/ RecognizeText
        \/ \E c \in Clients : OtherClient(c)
        \/ Midnight \/ Die \/ Quiet

\* The consumer loop runs; model, database and messages come back, if only with
\* a timeout.  The request for the recognition has none.
Spec == Init /\ [][Next]_vars /\ WF_vars(Handle)

----------------------------------------------------------------------------
\* The model is asked with a prompt, and with one not older than the turn,
\* over /clear, restarts and changes of the date - unless midnight fell
\* between making the text and marking the session.
AskedWithTodaysPrompt ==
  At("ask") => stored.prompt # 0 /\ (stored.prompt >= turn.seen \/ markers.slipped)

\* The places of the answers in the history.
Answers == {i \in 1 .. Len(stored.history) : stored.history[i].kind = "answer"}

\* An answer the user has seen has been appended to the session it was given
\* in: whatever rounds of tools, failures and /clear came before, no answer
\* reaches the user that the session was not told of first.
SeenIsRemembered == told <= Cardinality(Answers)

\* Every tool call in the history has its result next to it.
ToolBlocksComplete == \A i \in 1 .. Len(stored.history) :
  stored.history[i].calls = stored.history[i].results

\* A change the model made to the bills is in its history or the user was told
\* that the turn failed, unless the process ended.
ChangesAreAccounted == At("over") => turn.open = 0

\* A turn ends with exactly one reply, whichever way it goes.
OneReply == At("over") => turn.replies = 1

\* A tool that raises between others, a round that is not recorded and all
\* rounds used up leave nothing half done: neither a call without its result,
\* nor a change nobody hears of, nor a turn without its reply.
NothingHalfDone == ToolBlocksComplete /\ ChangesAreAccounted /\ OneReply

\* Every turn ends, except that the recognition of an image may never answer.
TurnEnds == ~ At("idle") ~> At("idle") \/ At("ocr")
=============================================================================
