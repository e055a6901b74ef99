--------------------------- MODULE EventPipeline ---------------------------
(***************************************************************************)
(* The path of a message through a running QFAOS (src/qfaos/qfaos.py, run, *)
(* with the Feishu long connection of src/channel_gateway):                *)
(*                                                                         *)
(*   platform --> child process: dedup, identity map --> mp.Queue (feeder  *)
(*   buffer, pipe) --> consumer loop of the parent: load state, handler,   *)
(*   persist state                                                         *)
(*                                                                         *)
(* The platform may deliver a message more than once and in any order; the *)
(* wall clock may jump; the child may die; the handler may raise; the      *)
(* write of the state may fail; the program may be started again.  A       *)
(* state dictionary is modelled by the messages whose handling it has      *)
(* recorded, oldest first.                                                 *)
(***************************************************************************)
EXTENDS Integers, SequencesExt

CONSTANTS Users, Messages,
          Sender,          \* Sender[m]: the user message m comes from
          Window,          \* deduplication_window_ms
          MaxTime,         \* bound on the clock
          DeliveryLimit,   \* bound on the deliveries of one behaviour
          StartLimit,      \* bound on the starts of the program
          ClockMayStepBack, ChildMayDie, HandlerMayRaise, PersistMayFail,
          Durable          \* the store survives the process: redis or jsonl

ASSUME PipelineAssumption ==
    /\ IsFiniteSet(Users)
    /\ Sender \in [Messages -> Users]
    /\ Window \in Nat /\ MaxTime \in Nat
    /\ DeliveryLimit \in Nat /\ StartLimit \in Nat \ {0}
    /\ {ClockMayStepBack, ChildMayDie, HandlerMayRaise} \subseteq BOOLEAN
    /\ {PersistMayFail, Durable} \subseteq BOOLEAN

VARIABLES
    now,         \* time.time() of the machine
    seen,        \* child: _processed_messages
    uid,         \* child: _id_mapping
    buffer,      \* child: events the feeder thread of the queue has not sent
    childUp,     \* the child process is alive
    pipe,        \* events in the pipe of the queue
    pc,          \* where the consumer loop is
    cur,         \* the event it is working on
    state,       \* ctx.state of that event
    stored,      \* runtime state of every session
    starts,      \* how many times the program has been started
    uids,        \* history: number of logical ids handed out
    accepted,    \* history: events put into the queue since the last start
    handled,     \* history: events whose handler has returned since the last start
    unwritten,   \* history: the places in handled whose state could not be written
    deliveries   \* history: number of deliveries

gateway  == <<seen, uid, buffer, childUp>>
consumer == <<pc, cur, state>>
ghosts   == <<uids, accepted, handled, unwritten, deliveries>>
vars     == <<now, gateway, pipe, consumer, stored, starts, ghosts>>

Never == -1          \* no timestamp is recorded for a message
NoSession == 0       \* no logical id is recorded for a user
Sessions == 1..(StartLimit * Cardinality(Users))

Events == [msg : Messages, session : Sessions, at : 0..MaxTime]
NoEvent == [msg |-> "none", session |-> NoSession, at |-> Never]

TypeOK ==
    /\ now \in 0..MaxTime
    /\ seen \in [Messages -> 0..MaxTime \cup {Never}]
    /\ uid \in [Users -> Sessions \cup {NoSession}]
    /\ buffer \in Seq(Events) /\ pipe \in Seq(Events)
    /\ childUp \in BOOLEAN
    /\ pc \in {"get", "load", "handle", "persist", "stopped"}
    /\ cur \in Events \cup {NoEvent}
    /\ state \in Seq(Messages)
    /\ stored \in [Sessions -> Seq(Messages)]
    /\ starts \in 1..StartLimit /\ uids \in 0..Cardinality(Users) * starts
    /\ accepted \in Seq(Events) /\ handled \in Seq(Events)
    /\ unwritten \subseteq Nat
    /\ deliveries \in 0..DeliveryLimit

Init ==
    /\ now = 0
    /\ seen = [m \in Messages |-> Never]
    /\ uid = [u \in Users |-> NoSession]
    /\ buffer = <<>> /\ childUp = TRUE /\ pipe = <<>>
    /\ pc = "get" /\ cur = NoEvent /\ state = <<>>
    /\ stored = [s \in Sessions |-> <<>>]
    /\ starts = 1 /\ uids = 0
    /\ accepted = <<>> /\ handled = <<>> /\ unwritten = {} /\ deliveries = 0
-----------------------------------------------------------------------------
(* The child process.                                                      *)

\* Variant: a record that is exactly as old as the window is dropped.
PurgedEarly == [m \in Messages |-> IF seen[m] <= now - Window THEN Never ELSE seen[m]]

\* is_duplicate, first phase: drop the records older than the window.
Purged == [m \in Messages |-> IF seen[m] < now - Window THEN Never ELSE seen[m]]

\* Variant: logical ids are numbered from one at every start.
DeliverNumbered(m) ==
    LET u == Sender[m]
        duplicate == Purged[m] # Never
        session == IF uid[u] = NoSession
                   THEN Cardinality({v \in Users : uid[v] # NoSession}) + 1
                   ELSE uid[u]
        event == [msg |-> m, session |-> session, at |-> now]
    IN
    /\ childUp
    /\ deliveries < DeliveryLimit
    /\ deliveries' = deliveries + 1
    /\ ~duplicate
    /\ seen' = [Purged EXCEPT ![m] = now]
    /\ uid' = [uid EXCEPT ![u] = session]
    /\ buffer' = Append(buffer, event)
    /\ accepted' = Append(accepted, event)
    /\ UNCHANGED <<now, childUp, pipe, consumer, stored, starts, handled, unwritten, uids>>

\* _event_handler: the second phase of is_duplicate drops a message whose
\* record survived, otherwise records it; get_logical_uuid finds or makes the
\* user's id; the event goes into the queue.
Deliver(m) ==
    LET u == Sender[m]
        duplicate == Purged[m] # Never
        session == IF uid[u] = NoSession THEN uids + 1 ELSE uid[u]
        event == [msg |-> m, session |-> session, at |-> now]
    IN
    /\ childUp
    /\ deliveries < DeliveryLimit
    /\ deliveries' = deliveries + 1
    /\ \/ /\ duplicate
          /\ seen' = Purged
          /\ UNCHANGED <<uid, uids, buffer, accepted>>
       \/ /\ ~duplicate
          /\ seen' = [Purged EXCEPT ![m] = now]
          /\ uid' = [uid EXCEPT ![u] = session]
          /\ uids' = IF session > uids THEN session ELSE uids
          /\ buffer' = Append(buffer, event)
          /\ accepted' = Append(accepted, event)
    /\ UNCHANGED <<now, childUp, pipe, consumer, stored, starts, handled, unwritten>>

\* The feeder thread of multiprocessing.Queue writes to the pipe.
Feed ==
    /\ childUp
    /\ buffer # <<>>
    /\ pipe' = Append(pipe, Head(buffer))
    /\ buffer' = Tail(buffer)
    /\ UNCHANGED <<now, seen, uid, childUp, consumer, stored, starts, ghosts>>

\* What the feeder had not written is lost.  Nobody restarts the child.
ChildDies ==
    /\ ChildMayDie
    /\ childUp
    /\ childUp' = FALSE
    /\ buffer' = <<>>
    /\ UNCHANGED <<now, seen, uid, pipe, consumer, stored, starts, ghosts>>

ClockMoves ==
    /\ now' \in (IF ClockMayStepBack THEN 0 ELSE now)..MaxTime
    /\ UNCHANGED <<gateway, pipe, consumer, stored, starts, ghosts>>
-----------------------------------------------------------------------------
(* The consumer loop of the parent, _consume.                              *)

\* Variant: the newest event of the pipe is taken.
GetNewest ==
    /\ pc = "get"
    /\ pipe # <<>>
    /\ cur' = Last(pipe)
    /\ pipe' = Front(pipe)
    /\ pc' = "load"
    /\ UNCHANGED <<now, gateway, state, stored, starts, ghosts>>

\* Variant: the loop waits for a child that is alive.
GetWhileChildUp ==
    /\ pc = "get"
    /\ childUp
    /\ pipe # <<>>
    /\ cur' = Head(pipe)
    /\ pipe' = Tail(pipe)
    /\ pc' = "load"
    /\ UNCHANGED <<now, gateway, state, stored, starts, ghosts>>

Get ==
    /\ pc = "get"
    /\ pipe # <<>>
    /\ cur' = Head(pipe)
    /\ pipe' = Tail(pipe)
    /\ pc' = "load"
    /\ UNCHANGED <<now, gateway, state, stored, starts, ghosts>>

\* Variant: the turn starts from an empty state.
InitializeContextEmpty ==
    /\ pc = "load"
    /\ state' = <<>>
    /\ pc' = "handle"
    /\ UNCHANGED <<now, gateway, pipe, cur, stored, starts, ghosts>>

InitializeContext ==
    /\ pc = "load"
    /\ state' = stored[cur.session]
    /\ pc' = "handle"
    /\ UNCHANGED <<now, gateway, pipe, cur, stored, starts, ghosts>>

\* orchestrator.execute and update_context: the handler has changed ctx.state
\* and returns.
HandlerReturns ==
    /\ pc = "handle"
    /\ state' = Append(state, cur.msg)
    /\ handled' = Append(handled, cur)
    /\ pc' = "persist"
    /\ UNCHANGED <<now, gateway, pipe, cur, stored, starts, uids, accepted, unwritten, deliveries>>

\* initialize_context raises what a storage read raised; orchestrator.execute
\* records the handler's error and raises it again: either way _consume and
\* run end, and run's finally clause terminates the child.
TurnRaises ==
    /\ HandlerMayRaise
    /\ pc \in {"load", "handle"}
    /\ pc' = "stopped"
    /\ childUp' = FALSE
    /\ buffer' = <<>>
    /\ UNCHANGED <<now, seen, uid, pipe, cur, state, stored, starts, ghosts>>

\* persist_context: a failed write is logged and the loop goes on.
Persist ==
    /\ pc = "persist"
    /\ \/ /\ stored' = [stored EXCEPT ![cur.session] = state]
          /\ UNCHANGED unwritten
       \/ /\ PersistMayFail
          /\ unwritten' = unwritten \cup {Len(handled)}
          /\ UNCHANGED stored
    /\ pc' = "get"
    /\ cur' = NoEvent
    /\ state' = <<>>
    /\ UNCHANGED <<now, gateway, pipe, starts, uids, accepted, handled, deliveries>>

\* The operator starts a program that has stopped, or stops and starts a
\* running one: everything in memory is new.
Restart ==
    /\ starts < StartLimit
    /\ starts' = starts + 1
    /\ seen' = [m \in Messages |-> Never]
    /\ uid' = [u \in Users |-> NoSession]
    /\ buffer' = <<>> /\ childUp' = TRUE /\ pipe' = <<>>
    /\ pc' = "get" /\ cur' = NoEvent /\ state' = <<>>
    /\ stored' = IF Durable THEN stored ELSE [s \in Sessions |-> <<>>]
    /\ accepted' = <<>> /\ handled' = <<>> /\ unwritten' = {}
    /\ UNCHANGED <<now, uids, deliveries>>

Next ==
    \/ \E m \in Messages : Deliver(m)
    \/ Feed \/ ChildDies \/ ClockMoves
    \/ Get \/ InitializeContext \/ HandlerReturns \/ TurnRaises \/ Persist
    \/ Restart

Consume == Get \/ InitializeContext \/ HandlerReturns \/ TurnRaises \/ Persist

Spec == Init /\ [][Next]_vars

\* The feeder thread and the event loop keep running; deliveries, deaths,
\* clock jumps and restarts are up to the environment.
FairSpec == Spec /\ WF_vars(Feed) /\ WF_vars(Consume)
-----------------------------------------------------------------------------
InWork == IF pc \in {"load", "handle", "stopped"} /\ cur # NoEvent THEN <<cur>> ELSE <<>>

(* While the child lives, no event is lost, duplicated or reordered between*)
(* the deduplication and the end of its handler: the events accepted since *)
(* the start are, in this order, those handled, the one in work, those in  *)
(* the pipe and those in the feeder's buffer.  When the child has died,    *)
(* only the newest can be missing: a handled event is never preceded by a  *)
(* lost one.  (Types included.)                                            *)
NothingLostInBetween ==
    /\ TypeOK
    /\ childUp => accepted = handled \o InWork \o pipe \o buffer
    /\ IsPrefix(handled \o InWork \o pipe, accepted)

(* One program start accepts a message twice only when its two deliveries  *)
(* are further apart than the window, whatever is delivered in between.    *)
(* (For a clock that never steps back: time.time() may, and then a record  *)
(* purged at the later time lets the message in again.)                    *)
DeduplicatedWithinWindow ==
    ~ClockMayStepBack => \A i, j \in 1..Len(accepted) :
        i < j /\ accepted[i].msg = accepted[j].msg =>
            accepted[j].at - accepted[i].at > Window

\* The messages of the events of session s in h, in order, without those at
\* the places in w.
Effects(h, w, s) ==
    LET upTo[n \in 0..Len(h)] ==
            IF n = 0 THEN <<>>
            ELSE IF h[n].session = s /\ n \notin w
                 THEN Append(upTo[n - 1], h[n].msg)
                 ELSE upTo[n - 1]
    IN  upTo[Len(h)]

Recorded(s) == Effects(handled, unwritten, s)

(* The persisted state of a session holds the effect of every handler run  *)
(* of this session whose write succeeded, once and in the order of         *)
(* acceptance, and nothing of another user's: a failed write loses one     *)
(* turn and no other.  (For the sessions of this start: a restart gives    *)
(* every user a new session.)                                              *)
StateReflectsHandling ==
    \A s \in {uid[u] : u \in Users} \ {NoSession} :
        IF pc = "persist" /\ cur.session = s
        THEN state = Recorded(s) /\ stored[s] = Front(Recorded(s))
        ELSE stored[s] = Recorded(s)

(* No session is ever shared: two users never have the same logical id,    *)
(* and the state of a session holds only messages of one user, also when   *)
(* the store outlives the program and the identity map does not.           *)
SessionsNotShared ==
    \A s \in Sessions : \A i, j \in 1..Len(stored[s]) :
        Sender[stored[s][i]] = Sender[stored[s][j]]

(* Every event that reached the pipe is handled, or the loop has stopped,  *)
(* or the program is started anew: the death of the child does not keep    *)
(* the parent from finishing what it has.                                  *)
PipeIsDrained ==
    \A n \in 1..DeliveryLimit, r \in 1..StartLimit :
        starts = r /\ Len(handled \o InWork \o pipe) >= n
            ~> starts # r \/ Len(handled) >= n \/ pc = "stopped"

(* Every accepted event is handled, as long as the child lives.            *)
AcceptedIsHandled ==
    \A n \in 1..DeliveryLimit, r \in 1..StartLimit :
        starts = r /\ Len(accepted) >= n
            ~> starts # r \/ Len(handled) >= n \/ ~childUp

(* Deaths, raising handlers and restarts aside, nothing is left behind: not *)
(* in the parent when the child has died, nor on the way while it lives.    *)
EventsAreHandled == PipeIsDrained /\ AcceptedIsHandled
=============================================================================
