--------------------------- MODULE ApprovalProofs ---------------------------
(***************************************************************************)
(* Theorems about Approval, for every set of calls, kinds of tool, tickets *)
(* and every time to live: a spent ticket admits nothing, and an action    *)
(* that is shown a ticket is asked again only when it expired or is spent. *)
(***************************************************************************)
EXTENDS Approval, TLAPS

-----------------------------------------------------------------------------
(* Init establishes the types.                                             *)
LEMMA InitType == Init => TypeOK
BY ApprovalAssumption DEF Init, TypeOK, NoEntries, Results

(* Answering keeps the types of the call's own state.                      *)
LEMMA AnswerType ==
    ASSUME TypeOK, NEW c \in Calls, NEW code \in Results, Answer(c, code)
    PROVE  /\ pc' \in [Calls -> {"idle", "tool", "acting"}]
           /\ tool' \in [Calls -> Tools]
           /\ ticket' \in [Calls -> Tickets \cup {NoTicket}]
           /\ result' \in [Calls -> Results]
BY DEF TypeOK, Answer

(* Every exception is reported under one of the error codes.               *)
LEMMA ErrorCodeType ==
    ASSUME NEW c \in Calls, NEW exception
    PROVE  ErrorCode(c, exception) \in Results
BY DEF ErrorCode, Known, PolicyCode, Results

(* The garbage collector keeps exactly the unexpired tickets.              *)
LEMMA LiveTickets ==
    /\ DOMAIN Live = {t \in DOMAIN store : ~(now > store[t])}
    /\ \A t \in DOMAIN Live : Live[t] = store[t]
BY DEF Live, Without

(* A ticket is only ever used by a call that was given it in a result.     *)
CarriedIsReported == \A c \in Calls : ticket[c] \in reported \cup {NoTicket}

\* The store knows every ticket of a handler until it expires or is spent,
\* and no ticket that was spent.
StoreInv ==
    /\ spent \cap DOMAIN store = {}
    /\ \A t \in DOMAIN store : store[t] = issued[t] + Ttl
    /\ \A t \in reported \ spent : now <= issued[t] + Ttl => t \in DOMAIN store

Inv == TypeOK /\ CarriedIsReported /\ StoreInv

(* Inv holds initially.                                                    *)
LEMMA InitInv == Init => Inv
BY InitType DEF Inv, Init, CarriedIsReported, StoreInv, NoEntries

(* Steps that leave the store and the tickets alone keep Inv.              *)
LEMMA QuietStep ==
    ASSUME Inv, UNCHANGED <<now, store, issued, reported, spent>>,
           pc' \in [Calls -> {"idle", "tool", "acting"}],
           tool' \in [Calls -> Tools],
           ticket' \in [Calls -> Tickets \cup {NoTicket}],
           result' \in [Calls -> Results],
           \A c \in Calls : ticket'[c] \in reported \cup {NoTicket}
    PROVE  Inv'
BY DEF Inv, TypeOK, CarriedIsReported, StoreInv

(* Answering leaves every call with a reported ticket or none.             *)
LEMMA AnswerCarried ==
    ASSUME Inv, NEW c \in Calls, NEW code, Answer(c, code)
    PROVE  \A d \in Calls : ticket'[d] \in reported \cup {NoTicket}
BY DEF Inv, TypeOK, CarriedIsReported, Answer

(* An admission drops expired tickets only.                                *)
LEMMA AdmitStep ==
    ASSUME Inv, NEW c \in Calls, Admit(c)
    PROVE  Inv'
<1>1. /\ store' = Live
      /\ UNCHANGED <<now, issued, reported, spent, tool, ticket, result>>
      /\ pc' = [pc EXCEPT ![c] = "acting"]
  BY DEF Admit
<1>2. DOMAIN store' \subseteq DOMAIN store /\ \A t \in DOMAIN store' : store'[t] = store[t]
  BY <1>1, LiveTickets
<1>3. TypeOK' /\ CarriedIsReported'
  BY <1>1, <1>2 DEF Inv, TypeOK, CarriedIsReported
<1>4. ASSUME NEW t \in reported \ spent, now <= issued[t] + Ttl
      PROVE  t \in DOMAIN store'
  <2>1. t \in DOMAIN store /\ store[t] = issued[t] + Ttl
    BY <1>4 DEF Inv, StoreInv
  <2>2. store[t] \in Int /\ now \in Int
    BY <2>1, ApprovalAssumption DEF Inv, TypeOK
  <2>3. ~(now > store[t])
    BY <1>4, <2>1, <2>2
  <2> QED
    BY <1>1, <2>1, <2>3, LiveTickets
<1>5. StoreInv'
  BY <1>1, <1>2, <1>4 DEF Inv, StoreInv
<1> QED
  BY <1>3, <1>5 DEF Inv

(* A refusal stores one new ticket and drops expired ones.                 *)
LEMMA AskStep ==
    ASSUME Inv, NEW c \in Calls, Ask(c)
    PROVE  Inv'
<1>1. PICK t \in Tickets \ DOMAIN issued :
          /\ store' = Generated(t)
          /\ issued' = With(issued, t, now)
          /\ reported' \in {reported, reported \cup {t}}
  BY DEF Ask
<1>2. UNCHANGED <<now, spent>> /\ Answer(c, ErrorCode(c, "approval"))
  BY DEF Ask
<1>3. /\ DOMAIN issued' = DOMAIN issued \cup {t} /\ issued'[t] = now
      /\ \A u \in DOMAIN issued : issued'[u] = issued[u]
  BY <1>1 DEF With
<1>4. /\ DOMAIN store' = DOMAIN Live \cup {t} /\ store'[t] = now + Ttl
      /\ \A u \in DOMAIN Live : u # t => store'[u] = store[u]
  BY <1>1, LiveTickets DEF Generated, With
<1>5. DOMAIN Live \subseteq DOMAIN store /\ DOMAIN store \subseteq DOMAIN issued
  BY LiveTickets DEF Inv, TypeOK
<1>6. now \in 0..ClockLimit /\ ClockLimit \in Nat /\ Ttl \in Nat
  BY ApprovalAssumption DEF Inv, TypeOK
<1>7. /\ DOMAIN issued' \subseteq Tickets
      /\ \A u \in DOMAIN issued' : issued'[u] \in 0..ClockLimit
      /\ DOMAIN store' \subseteq DOMAIN issued'
      /\ reported' \subseteq DOMAIN issued' /\ spent' \subseteq reported'
  BY <1>1, <1>2, <1>3, <1>4, <1>5, <1>6 DEF Inv, TypeOK
<1>8. \A u \in DOMAIN store' : store'[u] \in Ttl..ClockLimit + Ttl
  <2> TAKE u \in DOMAIN store'
  <2>1. CASE u = t
    BY <1>4, <1>6, <2>1
  <2>2. CASE u # t
    BY <1>4, <1>5, <2>2 DEF Inv, TypeOK
  <2> QED
    BY <2>1, <2>2
<1>9. TypeOK'
  BY <1>2, <1>6, <1>7, <1>8, AnswerType, ErrorCodeType DEF Inv, TypeOK
<1>10. CarriedIsReported'
  BY <1>1, <1>2, AnswerCarried DEF CarriedIsReported
<1>11. spent' \cap DOMAIN store' = {}
  BY <1>1, <1>2, <1>4, <1>5 DEF Inv, TypeOK, StoreInv
<1>12. \A u \in DOMAIN store' : store'[u] = issued'[u] + Ttl
  <2> TAKE u \in DOMAIN store'
  <2>1. CASE u = t
    BY <1>3, <1>4, <2>1
  <2>2. CASE u # t
    BY <1>3, <1>4, <1>5, <2>2 DEF Inv, StoreInv
  <2> QED
    BY <2>1, <2>2
<1>13. ASSUME NEW u \in reported' \ spent', now' <= issued'[u] + Ttl
       PROVE  u \in DOMAIN store'
  <2>1. CASE u = t
    BY <1>4, <2>1
  <2>2. CASE u # t
    <3>1. u \in reported \ spent /\ u \in DOMAIN issued /\ now <= issued[u] + Ttl
      BY <1>1, <1>2, <1>3, <1>13, <2>2 DEF Inv, TypeOK
    <3>2. u \in DOMAIN store /\ store[u] = issued[u] + Ttl
      BY <3>1 DEF Inv, StoreInv
    <3>3. store[u] \in Int
      BY <1>6, <3>2 DEF Inv, TypeOK
    <3>4. ~(now > store[u])
      BY <1>6, <3>1, <3>2, <3>3
    <3> QED
      BY <1>4, <3>2, <3>4, LiveTickets
  <2> QED
    BY <2>1, <2>2
<1>14. StoreInv'
  BY <1>11, <1>12, <1>13 DEF StoreInv
<1> QED
  BY <1>9, <1>10, <1>14 DEF Inv

(* A success spends the ticket of its call.                                *)
LEMMA ReturnStep ==
    ASSUME Inv, NEW c \in Calls, ToolReturns(c)
    PROVE  Inv'
<1>1. /\ spent' = spent \cup ({ticket[c]} \ {NoTicket})
      /\ UNCHANGED <<now, issued, reported>> /\ Answer(c, "ok")
  BY DEF ToolReturns
<1>2. /\ DOMAIN store' = DOMAIN store \ {ticket[c]}
      /\ \A t \in DOMAIN store' : store'[t] = store[t]
  BY DEF ToolReturns, Consumed, Without
<1>3. ticket[c] \in reported \cup {NoTicket}
  BY DEF Inv, CarriedIsReported
<1>4. "ok" \in Results
  BY DEF Results
<1>5. NoTicket \notin DOMAIN store
  BY ApprovalAssumption DEF Inv, TypeOK
<1>6. TypeOK'
  BY <1>1, <1>2, <1>3, <1>4, AnswerType DEF Inv, TypeOK
<1>7. CarriedIsReported'
  BY <1>1, AnswerCarried DEF CarriedIsReported
<1>8. StoreInv'
  <2>1. spent' \cap DOMAIN store' = {}
    BY <1>1, <1>2, <1>5 DEF Inv, StoreInv
  <2>2. \A t \in DOMAIN store' : store'[t] = issued'[t] + Ttl
    BY <1>1, <1>2 DEF Inv, StoreInv
  <2>3. ASSUME NEW t \in reported' \ spent', now' <= issued'[t] + Ttl
        PROVE  t \in DOMAIN store'
    <3>1. t \in reported \ spent /\ now <= issued[t] + Ttl
      BY <1>1, <2>3
    <3>2. t \in DOMAIN store
      BY <3>1 DEF Inv, StoreInv
    <3>3. t # ticket[c]
      BY <1>1, <1>5, <2>3, <3>2
    <3> QED
      BY <1>2, <3>2, <3>3
  <2> QED
    BY <2>1, <2>2, <2>3 DEF StoreInv
<1> QED
  BY <1>6, <1>7, <1>8 DEF Inv

(* Time only lets tickets expire.                                          *)
LEMMA TickStep ==
    ASSUME Inv, Tick
    PROVE  Inv'
<1>1. TypeOK' /\ CarriedIsReported'
  BY ApprovalAssumption DEF Inv, TypeOK, CarriedIsReported, Tick
<1>2. ASSUME NEW t \in reported' \ spent', now' <= issued'[t] + Ttl
      PROVE  t \in DOMAIN store'
  <2>1. now \in Int /\ now' = now + 1 /\ issued' = issued /\ store' = store
    BY DEF Inv, TypeOK, Tick
  <2>2. t \in reported \ spent /\ issued[t] \in Int
    BY <1>2 DEF Inv, TypeOK, Tick
  <2>3. now <= issued[t] + Ttl
    BY <1>2, <2>1, <2>2, ApprovalAssumption
  <2> QED
    BY <2>1, <2>2, <2>3 DEF Inv, StoreInv
<1> QED
  BY <1>1, <1>2 DEF Inv, StoreInv, Tick
-----------------------------------------------------------------------------
(* Inv is inductive, with one step per action.                             *)
LEMMA NextKeepsInv == Inv /\ [Next]_vars => Inv'
<1> SUFFICES ASSUME Inv, [Next]_vars PROVE Inv'
  OBVIOUS
<1>1. CASE Tick
  BY <1>1, TickStep
<1>2. ASSUME NEW c \in Calls, CallPytool(c) PROVE Inv'
  <2>1. /\ pc' \in [Calls -> {"idle", "tool", "acting"}]
        /\ tool' \in [Calls -> Tools]
        /\ ticket' \in [Calls -> Tickets \cup {NoTicket}]
        /\ result' \in [Calls -> Results]
    BY <1>2 DEF Inv, TypeOK, CallPytool, Results
  <2>2. \A d \in Calls : ticket'[d] \in reported \cup {NoTicket}
    BY <1>2 DEF Inv, TypeOK, CarriedIsReported, CallPytool
  <2> QED
    BY <1>2, <2>1, <2>2, QuietStep DEF CallPytool
<1>3. ASSUME NEW c \in Calls, Allow(c) \/ ActionDone(c) PROVE Inv'
  BY <1>3 DEF Inv, TypeOK, CarriedIsReported, StoreInv, Allow, ActionDone
<1>4. ASSUME NEW c \in Calls, NEW exception, Answer(c, ErrorCode(c, exception)),
             UNCHANGED <<now, store, issued, reported, spent>>
      PROVE  Inv'
  BY <1>4, QuietStep, AnswerType, AnswerCarried, ErrorCodeType DEF Inv
<1>5. ASSUME NEW c \in Calls, Deny(c) \/ ToolRaises(c) PROVE Inv'
  BY <1>4, <1>5 DEF Deny, ToolRaises
<1>6. ASSUME NEW c \in Calls, Admit(c) PROVE Inv'
  BY <1>6, AdmitStep
<1>7. ASSUME NEW c \in Calls, Ask(c) PROVE Inv'
  BY <1>7, AskStep
<1>8. ASSUME NEW c \in Calls, ToolReturns(c) PROVE Inv'
  BY <1>8, ReturnStep
<1>9. CASE UNCHANGED vars
  BY <1>9 DEF Inv, TypeOK, CarriedIsReported, StoreInv, vars
<1> QED
  BY <1>1, <1>2, <1>3, <1>5, <1>6, <1>7, <1>8, <1>9 DEF Next

(* Every reachable state satisfies Inv, hence the type invariant.          *)
THEOREM Invariant == Spec => []Inv
<1>1. Init => Inv
  BY InitInv
<1> QED
  BY <1>1, NextKeepsInv, PTL DEF Spec

(* The types of the store, the calls and their results, for all instances. *)
THEOREM TypeCorrect == Spec => []TypeOK
BY Invariant, PTL DEF Inv

(* An action that is shown a ticket a handler was given is asked again     *)
(* only when the ticket has expired or is spent, whatever other calls ask  *)
(* for or fail meanwhile.                                                  *)
THEOREM AskedIsAnswerable == Spec => AskIsAnswerable
<1>1. ASSUME Inv, NEW c \in Calls, Ask(c)
      PROVE  \/ TicketSeen(c) \in spent \cup {NoTicket}
             \/ now > issued[TicketSeen(c)] + Ttl
  <2> SUFFICES ASSUME TicketSeen(c) \notin spent \cup {NoTicket},
                      ~(now > issued[TicketSeen(c)] + Ttl)
               PROVE  FALSE
    OBVIOUS
  <2>1. PICK t : t = TicketSeen(c) /\ t = ticket[c]
    BY DEF TicketSeen
  <2>2. t \in reported \ spent
    BY <1>1, <2>1 DEF Inv, CarriedIsReported
  <2>3. now \in Int /\ issued[t] \in Int /\ Ttl \in Nat
    BY <1>1, <2>2, ApprovalAssumption DEF Inv, TypeOK
  <2>4. now <= issued[t] + Ttl
    BY <2>1, <2>3
  <2>5. t \in DOMAIN store /\ store[t] = issued[t] + Ttl
    BY <1>1, <2>2, <2>4 DEF Inv, StoreInv
  <2>6. t \in DOMAIN Live
    BY <2>3, <2>4, <2>5, LiveTickets
  <2> QED
    BY <1>1, <2>1, <2>6 DEF Ask
<1>2. Inv /\ [Next]_vars
        => [\A c \in Calls : Ask(c) =>
              \/ TicketSeen(c) \in spent \cup {NoTicket}
              \/ now > issued[TicketSeen(c)] + Ttl]_vars
  BY <1>1
<1> QED
  BY <1>2, Invariant, PTL DEF Spec, AskIsAnswerable

(* No guarded action ever starts on a ticket on which a call has already   *)
(* succeeded, however many calls carry it.                                 *)
THEOREM SpentIsSpent == Spec => SpentNeverAdmits
<1>1. Inv => \A c \in Calls : Admit(c) => TicketSeen(c) \notin spent
  BY LiveTickets DEF Inv, StoreInv, Admit
<1>2. Inv /\ [Next]_vars => [\A c \in Calls : Admit(c) => TicketSeen(c) \notin spent]_vars
  BY <1>1
<1> QED
  BY <1>2, Invariant, PTL DEF Spec, SpentNeverAdmits
=============================================================================
