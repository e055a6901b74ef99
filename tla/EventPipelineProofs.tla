------------------------ MODULE EventPipelineProofs ------------------------
(***************************************************************************)
(* Theorems about EventPipeline, for any users, messages, window, numbers  *)
(* of deliveries and starts, with or without deaths, failures and clock    *)
(* jumps: no event is lost between deduplication and handler while the     *)
(* child lives, none is accepted twice within the window, no session is    *)
(* ever shared, and what a session stores is what its handlers did.        *)
(***************************************************************************)
EXTENDS EventPipeline, FiniteSetTheorems, SequenceTheorems, WellFoundedInduction, TLAPS

Card    == Cardinality(Users)
Known   == {u \in Users : uid[u] # NoSession}
Working == {"load", "handle", "persist", "stopped"}

\* From "load" on the loop has an event.
HasEvent == pc \in Working => cur \in Events

\* Ids are handed out in order, at most one per user in a start.
Numbered ==
    /\ uids <= Card * (starts - 1) + Cardinality(Known)
    /\ \A u \in Users : uid[u] <= uids

IdsInv == TypeOK /\ HasEvent /\ Numbered

Conserved ==
    /\ childUp => accepted = handled \o InWork \o pipe \o buffer
    /\ IsPrefix(handled \o InWork \o pipe, accepted)

LEMMA CardType == Card \in Nat
  BY PipelineAssumption, FS_CardinalityType DEF Card

LEMMA OneMoreUser ==
    ASSUME NEW F \in SUBSET Users, NEW u \in Users \ F
    PROVE  /\ Cardinality(F) \in Nat
           /\ Cardinality(F \cup {u}) = Cardinality(F) + 1
           /\ Cardinality(F \cup {u}) <= Card
<1>1. IsFiniteSet(F) /\ F \cup {u} \in SUBSET Users
  BY FS_Subset, PipelineAssumption
<1>2. Cardinality(F \cup {u}) <= Cardinality(Users)
  BY <1>1, FS_Subset, PipelineAssumption
<1>3. Cardinality(F \cup {u}) = Cardinality(F) + 1
  BY <1>1, FS_AddElement
<1> QED  BY <1>1, <1>2, <1>3, FS_CardinalityType DEF Card

LEMMA KnownType == Cardinality(Known) \in Nat /\ Cardinality(Known) <= Card
<1>1. Known \in SUBSET Users
  BY DEF Known
<1>2. IsFiniteSet(Known) /\ Cardinality(Known) <= Cardinality(Users)
  BY <1>1, FS_Subset, PipelineAssumption
<1> QED  BY <1>2, FS_CardinalityType DEF Card

LEMMA NobodyKnown ==
    ASSUME NEW f, \A u \in Users : f[u] = NoSession
    PROVE  Cardinality({u \in Users : f[u] # NoSession}) = 0
<1>1. {u \in Users : f[u] # NoSession} = {}
  OBVIOUS
<1> QED  BY <1>1, FS_EmptySet

LEMMA Products ==
    ASSUME NEW n \in Nat, NEW k \in Nat \ {0}
    PROVE  /\ n * k \in Nat /\ n * (k - 1) \in Nat /\ n * (k + 1) \in Nat
           /\ n * k = n * (k - 1) + n
           /\ n * (k + 1 - 1) = n * k
           /\ n * k <= n * (k + 1)
           /\ \A j \in Nat : k <= j => n * j \in Nat /\ n * k <= n * j
<1>1. n * k \in Nat /\ n * (k - 1) \in Nat /\ n * (k + 1) \in Nat
  OBVIOUS
<1>2. n * k = n * (k - 1) + n /\ n * (k + 1) = n * k + n
  OBVIOUS
<1>3. ASSUME NEW j \in Nat, k <= j PROVE n * j \in Nat /\ n * k <= n * j
  <2>1. PICK d \in Nat : j = k + d
    BY <1>3
  <2>2. n * j = n * k + n * d /\ n * d \in Nat
    BY <2>1
  <2> QED  BY <1>1, <2>2
<1> QED  BY <1>1, <1>2, <1>3

-----------------------------------------------------------------------------
(* Types, and the numbers of ids.                                          *)

LEMMA InitIds == ASSUME Init PROVE IdsInv
<1> USE PipelineAssumption DEF Init
<1>1. Card * 1 \in Nat /\ Card * (1 - 1) = 0
  BY CardType
<1>2. TypeOK
  <2>1. now \in 0..MaxTime /\ deliveries \in 0..DeliveryLimit /\ starts \in 1..StartLimit
    OBVIOUS
  <2>2. uids \in 0..Cardinality(Users) * starts
    BY <1>1 DEF Card
  <2>3. seen \in [Messages -> 0..MaxTime \cup {Never}] /\ uid \in [Users -> Sessions \cup {NoSession}]
    OBVIOUS
  <2>4. /\ buffer \in Seq(Events) /\ pipe \in Seq(Events) /\ accepted \in Seq(Events)
        /\ handled \in Seq(Events) /\ state \in Seq(Messages)
        /\ stored \in [Sessions -> Seq(Messages)]
    OBVIOUS
  <2>5. /\ pc \in {"get", "load", "handle", "persist", "stopped"}
        /\ cur \in Events \cup {NoEvent} /\ unwritten \subseteq Nat
    OBVIOUS
  <2>6. childUp \in BOOLEAN
    BY Zenon
  <2> QED  BY <2>1, <2>2, <2>3, <2>4, <2>5, <2>6 DEF TypeOK
<1>3. Cardinality(Known) = 0
  BY NobodyKnown DEF Known
<1>4. Numbered
  BY <1>1, <1>3 DEF Numbered, NoSession
<1> QED  BY <1>2, <1>4 DEF IdsInv, HasEvent, Working

\* What Deliver makes of a message that is no duplicate.
LEMMA DeliveredEvent ==
    ASSUME IdsInv, NEW m \in Messages, NEW session,
           session = IF uid[Sender[m]] = NoSession THEN uids + 1 ELSE uid[Sender[m]]
    PROVE  /\ session \in Sessions
           /\ [msg |-> m, session |-> session, at |-> now] \in Events
           /\ session # NoSession
<1> USE PipelineAssumption
<1>1. Sender[m] \in Users /\ now \in 0..MaxTime
  BY DEF IdsInv, TypeOK
<1>2. session \in Sessions
  <2>1. CASE uid[Sender[m]] # NoSession
    BY <1>1, <2>1 DEF IdsInv, TypeOK
  <2>2. CASE uid[Sender[m]] = NoSession
    <3>1. Known \in SUBSET Users /\ Sender[m] \in Users \ Known
      BY <1>1, <2>2 DEF Known
    <3>2. PICK h : h = Cardinality(Known \cup {Sender[m]})
      OBVIOUS
    <3>3. Cardinality(Known) + 1 <= Card /\ Cardinality(Known) \in Nat
      BY <3>1, <3>2, OneMoreUser
    <3>4. starts \in Nat \ {0} /\ starts <= StartLimit /\ uids \in Nat
      BY CardType, Products DEF IdsInv, TypeOK, Card
    <3>5. uids <= Card * (starts - 1) + Cardinality(Known)
      BY DEF IdsInv, Numbered
    <3>6. /\ Card * starts = Card * (starts - 1) + Card /\ Card * (starts - 1) \in Nat
          /\ Card * starts <= Card * StartLimit /\ Card * StartLimit \in Nat
      BY <3>4, CardType, Products
    <3>7. uids + 1 <= Card * StartLimit
      <4>1. PICK a \in Nat : a = Card * (starts - 1)
        BY <3>6
      <4>2. PICK b \in Nat : b = Card * StartLimit
        BY <3>6
      <4>3. a + Card <= b
        BY <3>6, <4>1, <4>2, CardType
      <4> QED  BY <3>3, <3>4, <3>5, <4>1, <4>2, <4>3, CardType
    <3>8. Card * StartLimit = StartLimit * Cardinality(Users)
      BY CardType DEF Card
    <3> QED  BY <2>2, <3>4, <3>6, <3>7, <3>8 DEF Sessions
  <2> QED  BY <2>1, <2>2
<1>3. [msg |-> m, session |-> session, at |-> now] \in Events
  BY <1>1, <1>2 DEF Events
<1>4. session # NoSession
  <2>1. \A s \in Sessions : s # 0
    BY CardType DEF Sessions, Card
  <2> QED  BY <1>2, <2>1 DEF NoSession
<1> QED  BY <1>2, <1>3, <1>4

LEMMA PurgedType ==
    ASSUME TypeOK
    PROVE  Purged \in [Messages -> 0..MaxTime \cup {Never}]
  BY DEF TypeOK, Purged

LEMMA DeliverIds == ASSUME IdsInv, NEW m \in Messages, Deliver(m) PROVE IdsInv'
<1> USE PipelineAssumption DEF IdsInv
<1>1. PICK session : session = IF uid[Sender[m]] = NoSession THEN uids + 1 ELSE uid[Sender[m]]
  OBVIOUS
<1>2. PICK event : event = [msg |-> m, session |-> session, at |-> now]
  OBVIOUS
<1>3. session \in Sessions /\ event \in Events /\ session # NoSession
  BY <1>1, <1>2, DeliveredEvent
<1>4. /\ UNCHANGED <<now, childUp, pipe, pc, cur, state, stored, starts, handled, unwritten>>
      /\ deliveries < DeliveryLimit /\ deliveries' = deliveries + 1
  BY DEF Deliver, consumer
<1>5. Sender[m] \in Users /\ now \in 0..MaxTime /\ Purged \in [Messages -> 0..MaxTime \cup {Never}]
  BY PurgedType DEF TypeOK
<1>5a. deliveries' \in 0..DeliveryLimit
  BY <1>4 DEF TypeOK
<1>6. CASE UNCHANGED <<uid, uids, buffer, accepted>> /\ seen' = Purged
  <2>1. seen' \in [Messages -> 0..MaxTime \cup {Never}]
    BY <1>5, <1>6
  <2>2. TypeOK'
    BY <1>4, <1>6, <1>5a, <2>1 DEF TypeOK
  <2>3. Numbered' /\ HasEvent'
    BY <1>4, <1>6 DEF HasEvent, Numbered, Known
  <2> QED  BY <2>2, <2>3
<1>7. CASE /\ seen' = [Purged EXCEPT ![m] = now]
           /\ uid' = [uid EXCEPT ![Sender[m]] = session]
           /\ uids' = IF session > uids THEN session ELSE uids
           /\ buffer' = Append(buffer, event) /\ accepted' = Append(accepted, event)
  <2>1. /\ seen' \in [Messages -> 0..MaxTime \cup {Never}]
        /\ uid' \in [Users -> Sessions \cup {NoSession}]
    BY <1>3, <1>5, <1>7 DEF TypeOK
  <2>2. buffer' \in Seq(Events) /\ accepted' \in Seq(Events)
    BY <1>3, <1>7 DEF TypeOK
  <2>3. /\ uids \in Nat /\ starts \in Nat \ {0}
        /\ Card * (starts - 1) \in Nat /\ Card * starts = Card * (starts - 1) + Card
    BY CardType, Products DEF TypeOK, Card
  <2>4. Cardinality(Known) \in Nat /\ Cardinality(Known) <= Card
    BY KnownType
  <2>5. CASE uid[Sender[m]] # NoSession
    <3>1. uid' = uid /\ Known' = Known
      BY <1>1, <1>5, <1>7, <2>5 DEF TypeOK, Known
    <3>2. uids' = uids
      <4>1. session = uid[Sender[m]]
        BY <1>1, <2>5
      <4>2. session <= uids
        BY <1>5, <4>1 DEF Numbered
      <4>3. session \in Nat /\ uids \in Nat
        BY <1>3, <2>3, CardType DEF Sessions, Card
      <4> QED  BY <1>7, <4>2, <4>3
    <3>3. TypeOK'
      BY <1>4, <1>5a, <2>1, <2>2, <3>1, <3>2 DEF TypeOK
    <3>4. HasEvent' /\ Numbered'
      BY <1>4, <3>1, <3>2 DEF HasEvent, Numbered
    <3> QED  BY <3>3, <3>4
  <2>6. CASE uid[Sender[m]] = NoSession
    <3>1. session = uids + 1 /\ uids' = uids + 1
      BY <1>1, <1>7, <2>3, <2>6
    <3>2. Known' = Known \cup {Sender[m]} /\ Sender[m] \notin Known
      BY <1>3, <1>5, <1>7, <2>6 DEF TypeOK, Known
    <3>3. Known \in SUBSET Users /\ Sender[m] \in Users \ Known
      BY <1>5, <3>2 DEF Known
    <3>4. Cardinality(Known') = Cardinality(Known) + 1 /\ Cardinality(Known') <= Card
      BY <3>2, <3>3, OneMoreUser
    <3>5. uids' <= Card * (starts - 1) + Cardinality(Known')
      <4>1. uids <= Card * (starts - 1) + Cardinality(Known)
        BY DEF Numbered
      <4> QED  BY <2>3, <2>4, <3>1, <3>4, <4>1
    <3>6. uids' \in 0..Card * starts
      BY <2>3, <2>4, <3>1, <3>4, <3>5, CardType
    <3>7. TypeOK'
      BY <1>4, <1>5a, <2>1, <2>2, <3>6 DEF TypeOK, Card
    <3>8. HasEvent' /\ Numbered'
      <4>1. \A u \in Users : uid'[u] <= uids'
        BY <1>1, <1>5, <1>7, <2>3, <2>6, <3>1, CardType DEF TypeOK, Numbered, Sessions, NoSession, Card
      <4> QED  BY <1>4, <3>5, <4>1 DEF HasEvent, Numbered
    <3> QED  BY <3>7, <3>8
  <2> QED  BY <2>5, <2>6
<1> QED  BY <1>1, <1>2, <1>6, <1>7 DEF Deliver

(* The other actions; a restart turns the users' ids into spent ones.       *)
LEMMA StepIds == ASSUME IdsInv, [Next]_vars PROVE IdsInv'
<1> USE PipelineAssumption DEF IdsInv
<1>0. \A e \in Events : e.msg \in Messages /\ e.session \in Sessions
  BY DEF Events
<1>1. ASSUME UNCHANGED <<uid, uids, starts>> PROVE Numbered'
  BY <1>1 DEF Numbered, Known
<1>2. ASSUME UNCHANGED <<now, seen, uid, starts, uids, deliveries, stored, accepted, unwritten>>,
             buffer' \in Seq(Events), pipe' \in Seq(Events), handled' \in Seq(Events),
             childUp' \in BOOLEAN, state' \in Seq(Messages),
             pc' \in {"get", "load", "handle", "persist", "stopped"},
             cur' \in Events \cup {NoEvent}
      PROVE  TypeOK'
  BY <1>2 DEF TypeOK
<1>3. CASE \E m \in Messages : Deliver(m)
  BY <1>3, DeliverIds
<1>4. CASE Feed
  <2>1. buffer' \in Seq(Events) /\ pipe' \in Seq(Events)
    BY <1>4, HeadTailProperties DEF Feed, TypeOK
  <2>2. TypeOK'
    BY <1>2, <1>4, <2>1 DEF Feed, consumer, ghosts, TypeOK
  <2> QED  BY <1>1, <1>4, <2>2 DEF Feed, consumer, ghosts, HasEvent
<1>5. CASE ChildDies
  <2>1. childUp' \in BOOLEAN
    BY <1>5 DEF ChildDies
  <2>2. TypeOK'
    BY <1>2, <1>5, <2>1 DEF ChildDies, consumer, ghosts, TypeOK
  <2> QED  BY <1>1, <1>5, <2>2 DEF ChildDies, consumer, ghosts, HasEvent
<1>6. CASE ClockMoves
  <2>1. now' \in 0..MaxTime
    <3>1. CASE now' \in 0..MaxTime
      BY <3>1
    <3>2. CASE now' \in now..MaxTime
      BY <3>2 DEF TypeOK
    <3> QED  BY <1>6, <3>1, <3>2 DEF ClockMoves
  <2>2. UNCHANGED <<seen, uid, buffer, childUp, pipe, pc, cur, state, stored, starts, uids,
                    accepted, handled, unwritten, deliveries>>
    BY <1>6 DEF ClockMoves, gateway, consumer, ghosts
  <2>3. TypeOK'
    BY <2>1, <2>2 DEF TypeOK
  <2> QED  BY <1>1, <2>2, <2>3 DEF HasEvent
<1>7. CASE Get
  <2>1. pipe' \in Seq(Events) /\ cur' \in Events
    BY <1>7, HeadTailProperties DEF Get, TypeOK
  <2>2. TypeOK'
    BY <1>2, <1>7, <2>1 DEF Get, gateway, ghosts, TypeOK
  <2> QED  BY <1>1, <1>7, <2>1, <2>2 DEF Get, gateway, ghosts, HasEvent
<1>8. CASE InitializeContext
  <2>1. cur \in Events
    BY <1>8 DEF InitializeContext, HasEvent, Working
  <2>2. state' \in Seq(Messages)
    BY <1>0, <1>8, <2>1 DEF InitializeContext, TypeOK
  <2>3. TypeOK'
    BY <1>2, <1>8, <2>2 DEF InitializeContext, gateway, ghosts, TypeOK
  <2> QED  BY <1>1, <1>8, <2>1, <2>3 DEF InitializeContext, gateway, ghosts, HasEvent
<1>9. CASE HandlerReturns
  <2>1. cur \in Events
    BY <1>9 DEF HandlerReturns, HasEvent, Working
  <2>2. state' \in Seq(Messages) /\ handled' \in Seq(Events)
    BY <1>0, <1>9, <2>1 DEF HandlerReturns, TypeOK
  <2>3. TypeOK'
    BY <1>2, <1>9, <2>2 DEF HandlerReturns, gateway, TypeOK
  <2> QED  BY <1>1, <1>9, <2>1, <2>3 DEF HandlerReturns, gateway, HasEvent
<1>10. CASE TurnRaises
  <2>1. childUp' \in BOOLEAN /\ cur \in Events
    BY <1>10 DEF TurnRaises, HasEvent, Working
  <2>2. TypeOK'
    BY <1>2, <1>10, <2>1 DEF TurnRaises, ghosts, TypeOK
  <2> QED  BY <1>1, <1>10, <2>1, <2>2 DEF TurnRaises, ghosts, HasEvent
<1>11. CASE Persist
  <2>1. cur \in Events
    BY <1>11 DEF Persist, HasEvent, Working
  <2>2. stored' \in [Sessions -> Seq(Messages)] /\ unwritten' \subseteq Nat
    <3>1. stored' \in [Sessions -> Seq(Messages)]
      BY <1>0, <1>11, <2>1 DEF Persist, TypeOK
    <3>2. Len(handled) \in Nat
      BY LenProperties DEF TypeOK
    <3> QED  BY <1>11, <3>1, <3>2 DEF Persist, TypeOK
  <2>3. /\ UNCHANGED <<now, seen, uid, buffer, childUp, pipe, starts, uids, accepted, handled,
                       deliveries>>
        /\ pc' = "get" /\ cur' = NoEvent /\ state' = <<>>
    BY <1>11 DEF Persist, gateway
  <2>4. TypeOK'
    BY <2>2, <2>3 DEF TypeOK
  <2> QED  BY <1>1, <2>3, <2>4 DEF HasEvent, Working
<1>12. CASE Restart
  <2>1. /\ starts < StartLimit /\ starts' = starts + 1 /\ UNCHANGED <<now, uids, deliveries>>
        /\ seen' = [m \in Messages |-> Never] /\ uid' = [u \in Users |-> NoSession]
        /\ buffer' = <<>> /\ childUp' = TRUE /\ pipe' = <<>>
        /\ pc' = "get" /\ cur' = NoEvent /\ state' = <<>>
        /\ accepted' = <<>> /\ handled' = <<>> /\ unwritten' = {}
    BY <1>12 DEF Restart
  <2>2. starts \in Nat \ {0} /\ starts' \in 1..StartLimit /\ uids \in Nat
    BY <2>1, CardType, Products DEF TypeOK, Card
  <2>3. uids <= Card * starts /\ Card * starts \in Nat /\ Card * starts <= Card * (starts + 1)
        /\ Card * (starts + 1) \in Nat /\ Card * (starts + 1 - 1) = Card * starts
    BY <2>2, CardType, Products DEF TypeOK, Card
  <2>4. uids' \in 0..Card * starts'
    BY <2>1, <2>2, <2>3
  <2>5. stored' \in [Sessions -> Seq(Messages)]
    <3>1. CASE stored' = stored
      BY <3>1 DEF TypeOK
    <3>2. CASE stored' = [s \in Sessions |-> <<>>]
      BY <3>2
    <3> QED  BY <1>12, <3>1, <3>2 DEF Restart
  <2>6. childUp' \in BOOLEAN
    BY <2>1
  <2>7. TypeOK'
    BY <2>1, <2>2, <2>4, <2>5, <2>6 DEF TypeOK, Card
  <2>8. Cardinality(Known') = 0
    BY <2>1, NobodyKnown DEF Known
  <2>9. Numbered'
    BY <2>1, <2>2, <2>3, <2>8 DEF Numbered, NoSession
  <2> QED  BY <2>1, <2>7, <2>9 DEF HasEvent, Working
<1>13. CASE UNCHANGED vars
  BY <1>13 DEF vars, gateway, consumer, ghosts, TypeOK, HasEvent, Numbered, Known
<1> QED  BY <1>3, <1>4, <1>5, <1>6, <1>7, <1>8, <1>9, <1>10, <1>11, <1>12, <1>13 DEF Next

-----------------------------------------------------------------------------
(* Nothing is lost on the way.                                             *)

LEMMA StartIsPrefix ==
    ASSUME NEW S, NEW s \in Seq(S), NEW t \in Seq(S),
           Len(s) <= Len(t), \A i \in 1..Len(s) : s[i] = t[i]
    PROVE  IsPrefix(s, t)
<1>1. Len(s) \in Nat /\ Len(t) \in Nat /\ SubSeq(s, 1, Len(s)) = s
  BY LenProperties, SubSeqFull
<1>2. \A i \in 1..Len(s) : t[i] \in S
  BY <1>1, LenProperties
<1>3. /\ SubSeq(t, 1, Len(s)) \in Seq(S) /\ Len(SubSeq(t, 1, Len(s))) = Len(s)
      /\ \A i \in 1..Len(s) : SubSeq(t, 1, Len(s))[i] = t[i]
  BY <1>1, <1>2, SubSeqProperties
<1>4. SubSeq(t, 1, Len(s)) = s
  BY <1>1, <1>3, SeqEqual
<1> QED  BY <1>1, <1>4 DEF IsPrefix

LEMMA PrefixIsStart ==
    ASSUME NEW S, NEW s \in Seq(S), NEW t \in Seq(S), IsPrefix(s, t)
    PROVE  Len(s) <= Len(t) /\ \A i \in 1..Len(s) : s[i] = t[i]
<1>1. Len(s) \in Nat /\ Len(t) \in Nat /\ SubSeq(s, 1, Len(s)) = s
  BY LenProperties, SubSeqFull
<1>2. Len(s) <= Len(t) /\ SubSeq(t, 1, Len(s)) = s
  BY <1>1 DEF IsPrefix
<1>3. \A i \in 1..Len(s) : t[i] \in S
  BY <1>1, <1>2, LenProperties
<1>4. \A i \in 1..Len(s) : SubSeq(t, 1, Len(s))[i] = t[i]
  BY <1>1, <1>3, SubSeqProperties
<1> QED  BY <1>2, <1>4

LEMMA PrefixOfConcat ==
    ASSUME NEW S, NEW s \in Seq(S), NEW t \in Seq(S)
    PROVE  IsPrefix(s, s \o t)
<1>1. Len(s) \in Nat /\ Len(t) \in Nat
  BY LenProperties
<1>2. s \o t \in Seq(S) /\ Len(s) <= Len(s \o t) /\ \A i \in 1..Len(s) : s[i] = (s \o t)[i]
  BY <1>1, ConcatProperties
<1> QED  BY <1>2, StartIsPrefix

LEMMA PrefixOfAppend ==
    ASSUME NEW S, NEW s \in Seq(S), NEW t \in Seq(S), NEW e \in S, IsPrefix(s, t)
    PROVE  IsPrefix(s, Append(t, e))
<1>1. Len(s) \in Nat /\ Len(t) \in Nat
  BY LenProperties
<1>2. Len(s) <= Len(t) /\ \A i \in 1..Len(s) : s[i] = t[i]
  BY PrefixIsStart
<1>3. /\ Append(t, e) \in Seq(S) /\ Len(Append(t, e)) = Len(t) + 1
      /\ \A i \in 1..Len(t) : Append(t, e)[i] = t[i]
  BY AppendProperties
<1>4. Len(s) <= Len(Append(t, e)) /\ \A i \in 1..Len(s) : s[i] = Append(t, e)[i]
  BY <1>1, <1>2, <1>3
<1> QED  BY <1>3, <1>4, StartIsPrefix

LEMMA HeadThenTail ==
    ASSUME NEW S, NEW s \in Seq(S), s # <<>>
    PROVE  Head(s) \in S /\ Tail(s) \in Seq(S) /\ s = <<Head(s)>> \o Tail(s)
<1>1. /\ Head(s) \in S /\ Tail(s) \in Seq(S) /\ Len(Tail(s)) = Len(s) - 1
      /\ \A i \in 1..Len(Tail(s)) : Tail(s)[i] = s[i + 1]
  BY HeadTailProperties
<1>2. Len(s) \in Nat \ {0} /\ Head(s) = s[1]
  BY EmptySeq
<1>3. PICK h : h = <<Head(s)>>
  OBVIOUS
<1>4. h \in Seq(S) /\ Len(h) = 1 /\ h[1] = s[1]
  BY <1>1, <1>2, <1>3
<1>5. /\ h \o Tail(s) \in Seq(S) /\ Len(h \o Tail(s)) = Len(s)
      /\ \A i \in 1..Len(s) : (h \o Tail(s))[i] = IF i <= 1 THEN h[i] ELSE Tail(s)[i - 1]
  <2>1. PICK t \in Seq(S) : t = Tail(s)
    BY <1>1
  <2>2. /\ h \o t \in Seq(S) /\ Len(h \o t) = Len(h) + Len(t)
        /\ \A i \in 1..Len(h) + Len(t) : (h \o t)[i] = IF i <= Len(h) THEN h[i] ELSE t[i - Len(h)]
    BY <1>4, ConcatProperties
  <2>3. Len(h) + Len(t) = Len(s)
    BY <1>1, <1>2, <1>4, <2>1
  <2>4. \A i \in 1..Len(s) : (h \o t)[i] = IF i <= 1 THEN h[i] ELSE t[i - 1]
    BY <1>4, <2>2, <2>3
  <2> QED  BY <2>1, <2>2, <2>3, <2>4
<1>6. \A i \in 1..Len(s) : s[i] = (h \o Tail(s))[i]
  <2>1. SUFFICES ASSUME NEW i \in 1..Len(s) PROVE s[i] = (h \o Tail(s))[i]
    OBVIOUS
  <2>2. CASE i = 1
    BY <1>4, <1>5, <2>2
  <2>3. CASE i # 1
    <3>1. i - 1 \in 1..Len(Tail(s)) /\ ~(i <= 1) /\ i - 1 + 1 = i
      BY <1>1, <1>2, <2>3
    <3> QED  BY <1>1, <1>5, <3>1
  <2> QED  BY <2>2, <2>3
<1> QED  BY <1>1, <1>3, <1>5, <1>6, SeqEqual

LEMMA InWorkType == ASSUME IdsInv PROVE InWork \in Seq(Events)
  BY DEF IdsInv, TypeOK, InWork

LEMMA InitConserved == ASSUME Init PROVE Conserved
<1>1. handled = <<>> /\ InWork = <<>> /\ pipe = <<>> /\ buffer = <<>> /\ accepted = <<>>
  BY DEF Init, InWork
<1>2. <<>> \in Seq(Events)
  OBVIOUS
<1>3. <<>> \o <<>> = <<>>
  BY <1>2, ConcatEmptySeq
<1>4. IsPrefix(<<>>, <<>>)
  BY <1>2, <1>3, PrefixOfConcat
<1> QED  BY <1>1, <1>3, <1>4 DEF Conserved

(* One step per action: an event moves on from one of the four places to   *)
(* the next, at the end where they meet.                                   *)
LEMMA StepConserved == ASSUME IdsInv, Conserved, [Next]_vars PROVE Conserved'
<1>a. /\ handled \in Seq(Events) /\ pipe \in Seq(Events) /\ buffer \in Seq(Events)
      /\ accepted \in Seq(Events) /\ InWork \in Seq(Events) /\ <<>> \in Seq(Events)
  BY InWorkType DEF IdsInv, TypeOK
<1>b. handled \o InWork \in Seq(Events)
  BY <1>a, ConcatProperties
<1>c. PICK past \in Seq(Events) : past = handled \o InWork \o pipe
  BY <1>a, <1>b, ConcatProperties
<1>d. (childUp => accepted = past \o buffer) /\ IsPrefix(past, accepted)
  BY <1>c DEF Conserved
\* Nothing moves, or the child and its buffer are gone.
<1>1. ASSUME handled' = handled, InWork' = InWork, pipe' = pipe, accepted' = accepted,
             ~childUp' \/ (childUp' = childUp /\ buffer' = buffer)
      PROVE  Conserved'
  <2>1. IsPrefix(handled' \o InWork' \o pipe', accepted')
    BY <1>1 DEF Conserved
  <2>2. CASE ~childUp'
    BY <2>1, <2>2 DEF Conserved
  <2>3. CASE childUp' = childUp /\ buffer' = buffer
    BY <1>1, <2>1, <2>3 DEF Conserved
  <2> QED  BY <1>1, <2>2, <2>3
\* An event moves within the parent.
<1>2. ASSUME handled' \o InWork' \o pipe' = past, UNCHANGED <<accepted, childUp, buffer>>
      PROVE  Conserved'
  BY <1>2, <1>d DEF Conserved
<1>3. ASSUME NEW m \in Messages, Deliver(m) PROVE Conserved'
  <2>1. PICK session : session = IF uid[Sender[m]] = NoSession THEN uids + 1 ELSE uid[Sender[m]]
    OBVIOUS
  <2>2. PICK event : event = [msg |-> m, session |-> session, at |-> now]
    OBVIOUS
  <2>3. event \in Events
    BY <2>1, <2>2, DeliveredEvent
  <2>4. /\ childUp /\ UNCHANGED <<handled, childUp, pipe, pc, cur>>
        /\ \/ UNCHANGED <<buffer, accepted>>
           \/ buffer' = Append(buffer, event) /\ accepted' = Append(accepted, event)
    BY <1>3, <2>1, <2>2 DEF Deliver, consumer
  <2>5. InWork' = InWork
    BY <2>4 DEF InWork
  <2>6. CASE UNCHANGED <<buffer, accepted>>
    BY <1>1, <2>4, <2>5, <2>6
  <2>7. CASE buffer' = Append(buffer, event) /\ accepted' = Append(accepted, event)
    <3>1. handled' \o InWork' \o pipe' = past
      BY <1>c, <2>4, <2>5
    <3>2. accepted' = past \o buffer'
      <4>1. <<event>> \in Seq(Events)
        BY <2>3
      <4>2. accepted' = accepted \o <<event>> /\ buffer' = buffer \o <<event>>
        BY <1>a, <2>3, <2>7, AppendIsConcat
      <4>3. (past \o buffer) \o <<event>> = past \o (buffer \o <<event>>)
        BY <1>a, <1>c, <4>1, ConcatAssociative
      <4> QED  BY <1>d, <2>4, <4>2, <4>3
    <3>3. IsPrefix(past, accepted')
      BY <1>a, <1>c, <1>d, <2>3, <2>7, PrefixOfAppend
    <3> QED  BY <3>1, <3>2, <3>3 DEF Conserved
  <2> QED  BY <2>4, <2>6, <2>7
<1>4. CASE Feed
  <2>1. /\ childUp /\ buffer # <<>> /\ pipe' = Append(pipe, Head(buffer)) /\ buffer' = Tail(buffer)
        /\ UNCHANGED <<childUp, pc, cur, accepted, handled>>
    BY <1>4 DEF Feed, consumer, ghosts
  <2>2. InWork' = InWork
    BY <2>1 DEF InWork
  <2>3. PICK e \in Events, rest \in Seq(Events) :
          e = Head(buffer) /\ rest = Tail(buffer) /\ buffer = <<e>> \o rest
    BY <1>a, <2>1, HeadThenTail
  <2>4. PICK next \in Seq(Events) : next = Append(past, e) /\ next = past \o <<e>>
    BY <1>c, AppendProperties, AppendIsConcat
  <2>5. handled' \o InWork' \o pipe' = next
    <3>1. pipe' = pipe \o <<e>>
      BY <1>a, <2>1, <2>3, AppendIsConcat
    <3>2. PICK front \in Seq(Events) : front = handled \o InWork
      BY <1>b
    <3>3. front \in Seq(Events) /\ pipe \in Seq(Events) /\ <<e>> \in Seq(Events)
      BY <1>a, <3>2
    <3>4. (front \o pipe) \o <<e>> = front \o (pipe \o <<e>>)
      BY <3>3, ConcatAssociative
    <3>5. handled' \o InWork' = front /\ past = front \o pipe
      BY <1>c, <2>1, <2>2, <3>2
    <3>6. next = front \o pipe'
      BY <2>4, <3>1, <3>4, <3>5
    <3> QED  BY <3>5, <3>6
  <2>6. <<e>> \in Seq(Events)
    OBVIOUS
  <2>7. next \o rest = past \o buffer
    <3>1. (past \o <<e>>) \o rest = past \o (<<e>> \o rest)
      BY <1>c, <2>3, <2>6, ConcatAssociative
    <3> QED  BY <2>3, <2>4, <3>1
  <2>8. accepted' = next \o buffer'
    BY <1>d, <2>1, <2>3, <2>7
  <2>9. IsPrefix(next, accepted')
    BY <2>1, <2>3, <2>8, PrefixOfConcat
  <2> QED  BY <2>5, <2>8, <2>9 DEF Conserved
<1>5. CASE ChildDies
  <2>1. ~childUp' /\ UNCHANGED <<handled, pipe, accepted, pc, cur>>
    BY <1>5 DEF ChildDies, consumer, ghosts
  <2> QED  BY <1>1, <2>1 DEF InWork
<1>6. CASE ClockMoves
  <2>1. UNCHANGED <<handled, pipe, accepted, pc, cur, childUp, buffer>>
    BY <1>6 DEF ClockMoves, consumer, ghosts, gateway
  <2> QED  BY <1>1, <2>1 DEF InWork
<1>7. CASE Get
  <2>1. /\ pc = "get" /\ pipe # <<>> /\ cur' = Head(pipe) /\ pipe' = Tail(pipe) /\ pc' = "load"
        /\ UNCHANGED <<accepted, handled, childUp, buffer>>
    BY <1>7 DEF Get, gateway, ghosts
  <2>2. PICK e \in Events, rest \in Seq(Events) :
          e = Head(pipe) /\ rest = Tail(pipe) /\ pipe = <<e>> \o rest
    BY <1>a, <2>1, HeadThenTail
  <2>3. e # NoEvent
    BY DEF Events, NoEvent, Never
  <2>4. InWork = <<>> /\ InWork' = <<e>> /\ <<e>> \in Seq(Events)
    BY <2>1, <2>2, <2>3 DEF InWork
  <2>5. past = handled \o (<<e>> \o rest)
    BY <1>a, <1>c, <2>2, <2>4, ConcatEmptySeq
  <2>6. handled' \o InWork' \o pipe' = past
    BY <1>a, <2>1, <2>2, <2>4, <2>5, ConcatAssociative
  <2> QED  BY <1>2, <2>1, <2>6
<1>8. CASE InitializeContext
  <2>1. /\ UNCHANGED <<handled, pipe, accepted, cur, childUp, buffer>>
        /\ pc = "load" /\ pc' = "handle"
    BY <1>8 DEF InitializeContext, ghosts, gateway
  <2> QED  BY <1>1, <2>1 DEF InWork
<1>9. CASE HandlerReturns
  <2>1. /\ pc = "handle" /\ pc' = "persist" /\ handled' = Append(handled, cur)
        /\ UNCHANGED <<pipe, accepted, cur, childUp, buffer>>
    BY <1>9 DEF HandlerReturns, gateway
  <2>2. cur \in Events /\ cur # NoEvent
    BY <2>1 DEF IdsInv, HasEvent, Working, Events, NoEvent, Never
  <2>3. InWork = <<cur>> /\ InWork' = <<>>
    BY <2>1, <2>2 DEF InWork
  <2>4. handled' = handled \o <<cur>> /\ handled' \in Seq(Events)
    BY <1>a, <2>1, <2>2, AppendIsConcat, AppendProperties
  <2>5. handled' \o InWork' = handled \o InWork
    BY <2>3, <2>4, ConcatEmptySeq
  <2> QED  BY <1>2, <1>c, <2>1, <2>5
<1>10. CASE TurnRaises
  <2>1. ~childUp' /\ pc \in {"load", "handle"} /\ pc' = "stopped"
    BY <1>10 DEF TurnRaises
  <2>2. UNCHANGED <<handled, pipe, accepted, cur>>
    BY <1>10 DEF TurnRaises, ghosts
  <2> QED  BY <1>1, <2>1, <2>2 DEF InWork
<1>11. CASE Persist
  <2>1. pc = "persist" /\ pc' = "get" /\ UNCHANGED <<handled, pipe, accepted, childUp, buffer>>
    BY <1>11 DEF Persist, gateway
  <2> QED  BY <1>1, <2>1 DEF InWork
<1>12. CASE Restart
  <2>1. /\ buffer' = <<>> /\ pipe' = <<>> /\ pc' = "get" /\ accepted' = <<>> /\ handled' = <<>>
    BY <1>12 DEF Restart
  <2>2. InWork' = <<>>
    BY <2>1 DEF InWork
  <2>3. <<>> \o <<>> = <<>>
    BY <1>a, ConcatEmptySeq
  <2>4. IsPrefix(<<>>, <<>>)
    BY <1>a, <2>3, PrefixOfConcat
  <2> QED  BY <2>1, <2>2, <2>3, <2>4 DEF Conserved
<1>13. CASE UNCHANGED vars
  BY <1>1, <1>13 DEF vars, gateway, consumer, ghosts, InWork
<1> QED  BY <1>3, <1>4, <1>5, <1>6, <1>7, <1>8, <1>9, <1>10, <1>11, <1>12, <1>13 DEF Next

-----------------------------------------------------------------------------
(* Nothing is accepted twice within the window.                            *)

\* An accepted event is on record, or it is already older than the window.
OnRecord ==
    ~ClockMayStepBack => \A i \in 1..Len(accepted) :
        /\ accepted[i].at <= now
        /\ \/ accepted[i].at <= seen[accepted[i].msg]
           \/ accepted[i].at < now - Window

DedupInv == IdsInv /\ OnRecord /\ DeduplicatedWithinWindow

LEMMA StepOnRecord ==
    ASSUME DedupInv, [Next]_vars PROVE OnRecord' /\ DeduplicatedWithinWindow'
<1> SUFFICES ASSUME ~ClockMayStepBack PROVE OnRecord' /\ DeduplicatedWithinWindow'
  BY DEF OnRecord, DeduplicatedWithinWindow
<1>a. /\ now \in 0..MaxTime /\ seen \in [Messages -> 0..MaxTime \cup {-1}]
      /\ accepted \in Seq(Events) /\ Len(accepted) \in Nat
      /\ \A i \in 1..Len(accepted) :
           accepted[i].msg \in Messages /\ accepted[i].at \in 0..MaxTime
  <2>1. now \in 0..MaxTime /\ seen \in [Messages -> 0..MaxTime \cup {-1}] /\ accepted \in Seq(Events)
    BY DEF DedupInv, IdsInv, TypeOK, Never
  <2>2. Len(accepted) \in Nat /\ \A i \in 1..Len(accepted) : accepted[i] \in Events
    BY <2>1, LenProperties, ElementOfSeq
  <2>3. \A e \in Events : e.msg \in Messages /\ e.at \in 0..MaxTime
    BY DEF Events
  <2> QED  BY <2>1, <2>2, <2>3
<1>b. \A i \in 1..Len(accepted) :
        /\ accepted[i].at <= now
        /\ accepted[i].at <= seen[accepted[i].msg] \/ accepted[i].at < now - Window
  BY DEF DedupInv, OnRecord
<1>c. \A i, j \in 1..Len(accepted) :
        i < j /\ accepted[i].msg = accepted[j].msg => accepted[j].at - accepted[i].at > Window
  BY DEF DedupInv, DeduplicatedWithinWindow
<1>d. Window \in Nat /\ MaxTime \in Nat
  BY PipelineAssumption
<1>e. \A i \in 1..Len(accepted) :
        accepted[i].at <= Purged[accepted[i].msg] \/ accepted[i].at < now - Window
  BY <1>a, <1>b, <1>d DEF Purged
\* Time may pass.
<1>1. ASSUME UNCHANGED <<seen, accepted>>, now' \in Int, now <= now'
      PROVE  OnRecord' /\ DeduplicatedWithinWindow'
  BY <1>1, <1>a, <1>b, <1>c, <1>d DEF OnRecord, DeduplicatedWithinWindow
<1>2. ASSUME accepted' = <<>> PROVE OnRecord' /\ DeduplicatedWithinWindow'
  BY <1>2 DEF OnRecord, DeduplicatedWithinWindow
<1>3. ASSUME NEW m \in Messages, Deliver(m) PROVE OnRecord' /\ DeduplicatedWithinWindow'
  <2>1. now' = now
    BY <1>3 DEF Deliver
  <2>2. CASE seen' = Purged /\ accepted' = accepted
    BY <1>a, <1>b, <1>c, <1>e, <2>1, <2>2 DEF OnRecord, DeduplicatedWithinWindow
  <2>3. ASSUME NEW event \in Events, event.msg = m, event.at = now, Purged[m] = -1,
               seen' = [Purged EXCEPT ![m] = now], accepted' = Append(accepted, event)
        PROVE  OnRecord' /\ DeduplicatedWithinWindow'
    <3>1. /\ Len(accepted') = Len(accepted) + 1 /\ accepted'[Len(accepted) + 1] = event
          /\ \A i \in 1..Len(accepted) : accepted'[i] = accepted[i]
      BY <1>a, <2>3, AppendProperties
    <3>2. seen'[m] = now /\ \A k \in Messages : k # m => seen'[k] = Purged[k]
      BY <2>3 DEF Purged
    <3>3. ASSUME NEW i \in 1..Len(accepted') PROVE
            /\ accepted'[i].at <= now'
            /\ accepted'[i].at <= seen'[accepted'[i].msg] \/ accepted'[i].at < now' - Window
      <4>1. CASE i = Len(accepted) + 1
        BY <1>a, <2>1, <2>3, <3>1, <3>2, <4>1
      <4>2. CASE i \in 1..Len(accepted)
        <5>1. CASE accepted[i].msg = m
          BY <1>a, <1>b, <2>1, <3>1, <3>2, <4>2, <5>1
        <5>2. CASE accepted[i].msg # m
          BY <1>a, <1>b, <1>e, <2>1, <3>1, <3>2, <4>2, <5>2
        <5> QED  BY <5>1, <5>2
      <4> QED  BY <1>a, <3>1, <4>1, <4>2
    <3>4. ASSUME NEW i \in 1..Len(accepted'), NEW j \in 1..Len(accepted'),
                 i < j, accepted'[i].msg = accepted'[j].msg
          PROVE  accepted'[j].at - accepted'[i].at > Window
      <4>1. i \in 1..Len(accepted)
        BY <1>a, <3>1, <3>4
      <4>2. CASE j \in 1..Len(accepted)
        BY <1>c, <3>1, <3>4, <4>1, <4>2
      <4>3. CASE j = Len(accepted) + 1
        <5>1. accepted[i].msg = m /\ accepted'[i] = accepted[i] /\ accepted'[j].at = now
          BY <2>3, <3>1, <3>4, <4>1, <4>3
        <5>2. accepted[i].at < now - Window
          BY <1>a, <1>e, <2>3, <4>1, <5>1
        <5> QED  BY <1>a, <1>d, <4>1, <5>1, <5>2
      <4> QED  BY <1>a, <3>1, <4>2, <4>3
    <3> QED  BY <3>3, <3>4 DEF OnRecord, DeduplicatedWithinWindow
  <2>4. PICK session : session = IF uid[Sender[m]] = NoSession THEN uids + 1 ELSE uid[Sender[m]]
    OBVIOUS
  <2>5. PICK event : event = [msg |-> m, session |-> session, at |-> now]
    OBVIOUS
  <2>6. event \in Events /\ event.msg = m /\ event.at = now
    BY <2>4, <2>5, DeliveredEvent DEF DedupInv
  <2>7. \/ seen' = Purged /\ accepted' = accepted
        \/ /\ Purged[m] = -1 /\ seen' = [Purged EXCEPT ![m] = now]
           /\ accepted' = Append(accepted, event)
    BY <1>3, <2>4, <2>5 DEF Deliver, Never
  <2> QED  BY <2>2, <2>3, <2>6, <2>7
<1>4. CASE ClockMoves
  <2>1. now' \in now..MaxTime /\ UNCHANGED <<seen, accepted>>
    BY <1>4 DEF ClockMoves, gateway, ghosts
  <2> QED  BY <1>1, <1>a, <1>d, <2>1
<1>5. CASE Feed \/ ChildDies \/ Get \/ InitializeContext \/ HandlerReturns \/ TurnRaises
           \/ Persist \/ UNCHANGED vars
  <2>1. UNCHANGED <<now, seen, accepted>>
    BY <1>5 DEF Feed, ChildDies, Get, InitializeContext, HandlerReturns, TurnRaises, Persist,
               vars, gateway, ghosts
  <2> QED  BY <1>1, <1>a, <2>1
<1>6. CASE Restart
  BY <1>2, <1>6 DEF Restart
<1> QED  BY <1>3, <1>4, <1>5, <1>6 DEF Next

-----------------------------------------------------------------------------
(* Sessions are not shared.                                                *)

\* An id belongs to one user, and ids that are not handed out are unused.
Distinct == \A u, v \in Users : uid[u] = uid[v] /\ u # v => uid[u] = NoSession
Unused   == \A s \in Sessions : s > uids => stored[s] = <<>>

\* Every event on its way carries the id its sender has now.
Own(e) == e.session = uid[Sender[e.msg]]
Addressed ==
    /\ \A i \in 1..Len(pipe) : Own(pipe[i])
    /\ \A i \in 1..Len(buffer) : Own(buffer[i])
    /\ pc \in {"load", "handle", "persist"} => Own(cur)

\* The state of a user's session, and the one a turn works on, is the user's.
Private ==
    /\ \A u \in Users : uid[u] # NoSession =>
         \A i \in 1..Len(stored[uid[u]]) : Sender[stored[uid[u]][i]] = u
    /\ pc \in {"handle", "persist"} =>
         \A i \in 1..Len(state) : Sender[state[i]] = Sender[cur.msg]

OwnInv == IdsInv /\ Distinct /\ Unused /\ Addressed /\ Private /\ SessionsNotShared

LEMMA InitOwn == ASSUME Init PROVE Distinct /\ Unused /\ Addressed /\ Private /\ SessionsNotShared
<1>1. /\ \A u \in Users : uid[u] = NoSession
      /\ \A s \in Sessions : stored[s] = <<>>
      /\ pipe = <<>> /\ buffer = <<>> /\ pc = "get"
  BY DEF Init
<1> QED  BY <1>1 DEF Distinct, Unused, Addressed, Private, SessionsNotShared

\* A new id is one nobody has and under which nothing is stored.
LEMMA DeliverOwn ==
    ASSUME OwnInv, NEW m \in Messages, Deliver(m)
    PROVE  Distinct' /\ Unused' /\ Addressed' /\ Private' /\ SessionsNotShared'
<1> USE PipelineAssumption
<1>1. PICK u \in Users : u = Sender[m]
  OBVIOUS
<1>2. PICK session : session = IF uid[u] = NoSession THEN uids + 1 ELSE uid[u]
  OBVIOUS
<1>3. PICK event : event = [msg |-> m, session |-> session, at |-> now]
  OBVIOUS
<1>4. session \in Sessions /\ event \in Events /\ session # NoSession
  BY <1>1, <1>2, <1>3, DeliveredEvent DEF OwnInv
<1>5. /\ UNCHANGED <<pipe, pc, cur, state, stored>>
      /\ \/ UNCHANGED <<uid, uids, buffer>>
         \/ /\ uid' = [uid EXCEPT ![u] = session]
            /\ uids' = IF session > uids THEN session ELSE uids
            /\ buffer' = Append(buffer, event)
  BY <1>1, <1>2, <1>3 DEF Deliver, consumer
<1>6. SessionsNotShared'
  BY <1>5 DEF OwnInv, SessionsNotShared
<1>7. CASE UNCHANGED <<uid, uids, buffer>>
  BY <1>5, <1>6, <1>7 DEF OwnInv, Distinct, Unused, Addressed, Own, Private
<1>8. CASE /\ uid' = [uid EXCEPT ![u] = session]
           /\ uids' = IF session > uids THEN session ELSE uids
           /\ buffer' = Append(buffer, event)
  <2>1. /\ uid \in [Users -> Sessions \cup {NoSession}] /\ uids \in Nat
        /\ buffer \in Seq(Events) /\ pipe \in Seq(Events)
    BY CardType, Products DEF OwnInv, IdsInv, TypeOK, Card
  <2>2. \A s \in Sessions : s \in Nat
    BY CardType DEF Sessions, Card
  <2>3. uid'[u] = session /\ \A v \in Users : v # u => uid'[v] = uid[v]
    BY <1>8, <2>1
  <2>4. \A v \in Users : v # u => uid[v] # session
    <3>1. CASE uid[u] # NoSession
      BY <1>2, <1>4, <3>1 DEF OwnInv, Distinct
    <3>2. CASE uid[u] = NoSession
      <4>1. \A v \in Users : uid[v] <= uids
        BY DEF OwnInv, IdsInv, Numbered
      <4>2. session = uids + 1
        BY <1>2, <3>2
      <4> QED  BY <2>1, <4>1, <4>2
    <3> QED  BY <3>1, <3>2
  <2>5. Distinct'
    BY <1>4, <2>3, <2>4 DEF OwnInv, Distinct
  <2>6. Unused'
    <3>1. uids <= uids' /\ uids' \in Nat
      BY <1>4, <1>8, <2>1, <2>2
    <3> QED  BY <1>5, <2>1, <2>2, <3>1 DEF OwnInv, Unused
  <2>7. ASSUME NEW e \in Events, e.session = uid[Sender[e.msg]]
        PROVE  e.session = uid'[Sender[e.msg]]
    <3>1. e.msg \in Messages /\ Sender[e.msg] \in Users /\ e.session # NoSession
      BY <2>2, CardType DEF Events, Sessions, NoSession, Card
    <3>2. uid[Sender[e.msg]] # NoSession
      BY <2>7, <3>1
    <3>3. uid'[Sender[e.msg]] = uid[Sender[e.msg]]
      BY <1>2, <2>3, <3>1, <3>2
    <3> QED  BY <2>7, <3>3
  <2>8. Addressed'
    <3>1. ASSUME NEW i \in 1..Len(pipe) PROVE pipe[i].session = uid'[Sender[pipe[i].msg]]
      <4>1. pipe[i] \in Events /\ pipe[i].session = uid[Sender[pipe[i].msg]]
        BY <2>1, ElementOfSeq DEF OwnInv, Addressed, Own
      <4> QED  BY <2>7, <4>1
    <3>2. ASSUME NEW i \in 1..Len(buffer) PROVE buffer[i].session = uid'[Sender[buffer[i].msg]]
      <4>1. buffer[i] \in Events /\ buffer[i].session = uid[Sender[buffer[i].msg]]
        BY <2>1, ElementOfSeq DEF OwnInv, Addressed, Own
      <4> QED  BY <2>7, <4>1
    <3>3. event.session = uid'[Sender[event.msg]]
      BY <1>1, <1>3, <2>3
    <3>4. /\ Len(buffer') = Len(buffer) + 1 /\ buffer'[Len(buffer) + 1] = event
          /\ Len(buffer) \in Nat /\ \A i \in 1..Len(buffer) : buffer'[i] = buffer[i]
      BY <1>4, <1>8, <2>1, AppendProperties, LenProperties
    <3>5. \A i \in 1..Len(buffer') : buffer'[i].session = uid'[Sender[buffer'[i].msg]]
      BY <3>2, <3>3, <3>4
    <3>6. ASSUME pc \in {"load", "handle", "persist"} PROVE cur.session = uid'[Sender[cur.msg]]
      <4>1. cur \in Events /\ cur.session = uid[Sender[cur.msg]]
        BY <3>6 DEF OwnInv, IdsInv, HasEvent, Working, Addressed, Own
      <4> QED  BY <2>7, <4>1
    <3> QED  BY <1>5, <3>1, <3>5, <3>6 DEF Addressed, Own
  <2>9. Private'
    <3>1. ASSUME NEW v \in Users, uid'[v] # NoSession, NEW i \in 1..Len(stored[uid'[v]])
          PROVE  Sender[stored[uid'[v]][i]] = v
      <4>1. CASE uid'[v] = uid[v]
        BY <3>1, <4>1 DEF OwnInv, Private
      <4>2. CASE uid'[v] # uid[v]
        <5>1. v = u /\ uid[u] = NoSession /\ session = uids + 1
          BY <1>2, <2>3, <4>2
        <5>2. session > uids
          BY <2>1, <5>1
        <5>3. stored[session] = <<>>
          BY <1>4, <5>2 DEF OwnInv, Unused
        <5> QED  BY <2>3, <3>1, <5>1, <5>3
      <4> QED  BY <4>1, <4>2
    <3> QED  BY <1>5, <3>1 DEF OwnInv, Private
  <2> QED  BY <1>6, <2>5, <2>6, <2>8, <2>9
<1> QED  BY <1>5, <1>7, <1>8

LEMMA StepOwn ==
    ASSUME OwnInv, [Next]_vars
    PROVE  Distinct' /\ Unused' /\ Addressed' /\ Private' /\ SessionsNotShared'
<1>a. /\ buffer \in Seq(Events) /\ pipe \in Seq(Events) /\ uids \in Nat
      /\ uid \in [Users -> Sessions \cup {NoSession}] /\ stored \in [Sessions -> Seq(Messages)]
      /\ state \in Seq(Messages)
  BY CardType, Products, PipelineAssumption DEF OwnInv, IdsInv, TypeOK, Card
<1>b. \A e \in Events : e.msg \in Messages /\ e.session \in Sessions /\ Sender[e.msg] \in Users
  BY PipelineAssumption DEF Events
<1>c. pc \in {"load", "handle", "persist"} => cur \in Events /\ cur.session = uid[Sender[cur.msg]]
  BY DEF OwnInv, IdsInv, HasEvent, Working, Addressed, Own
<1>d. \A s \in Sessions : s # NoSession
  BY CardType, PipelineAssumption DEF Sessions, NoSession, Card
\* Ids and stored states stay.
<1>1. ASSUME UNCHANGED <<uid, uids, stored>> PROVE Distinct' /\ Unused' /\ SessionsNotShared'
  BY <1>1 DEF OwnInv, Distinct, Unused, SessionsNotShared
<1>2. ASSUME UNCHANGED <<uid, stored>>,
             pc' \in {"handle", "persist"} =>
               \A i \in 1..Len(state') : Sender[state'[i]] = Sender[cur'.msg]
      PROVE  Private'
  BY <1>2 DEF OwnInv, Private
<1>3. ASSUME UNCHANGED <<uid, pipe, cur>>, buffer' = buffer \/ buffer' = <<>>,
             pc' \in {"load", "handle", "persist"} => pc \in {"load", "handle", "persist"}
      PROVE  Addressed'
  BY <1>3 DEF OwnInv, Addressed, Own
<1>4. CASE \E m \in Messages : Deliver(m)
  BY <1>4, DeliverOwn
<1>5. CASE Feed
  <2>1. /\ buffer # <<>> /\ pipe' = Append(pipe, Head(buffer)) /\ buffer' = Tail(buffer)
        /\ UNCHANGED <<uid, uids, stored, pc, cur, state>>
    BY <1>5 DEF Feed, consumer, ghosts
  <2>2. PICK e \in Events : e = buffer[1] /\ e = Head(buffer)
    BY <1>a, <2>1, EmptySeq, ElementOfSeq
  <2>3. /\ Len(pipe') = Len(pipe) + 1 /\ pipe'[Len(pipe) + 1] = e /\ Len(pipe) \in Nat
        /\ \A i \in 1..Len(pipe) : pipe'[i] = pipe[i]
    BY <1>a, <2>1, <2>2, AppendProperties, LenProperties
  <2>4. /\ Len(buffer) \in Nat \ {0} /\ Len(buffer') = Len(buffer) - 1
        /\ \A i \in 1..Len(buffer') : buffer'[i] = buffer[i + 1]
    BY <1>a, <2>1, EmptySeq, HeadTailProperties
  <2>5. \A i \in 1..Len(buffer') : i + 1 \in 1..Len(buffer)
    BY <2>4
  <2>6. /\ \A i \in 1..Len(pipe) : pipe[i].session = uid[Sender[pipe[i].msg]]
        /\ \A i \in 1..Len(buffer) : buffer[i].session = uid[Sender[buffer[i].msg]]
    BY DEF OwnInv, Addressed, Own
  <2>7. \A i \in 1..Len(pipe') : pipe'[i].session = uid[Sender[pipe'[i].msg]]
    BY <2>2, <2>3, <2>4, <2>6
  <2>8. \A i \in 1..Len(buffer') : buffer'[i].session = uid[Sender[buffer'[i].msg]]
    BY <2>4, <2>5, <2>6
  <2>9. Addressed'
    BY <1>c, <2>1, <2>7, <2>8 DEF Addressed, Own
  <2> QED  BY <1>1, <2>1, <2>9 DEF OwnInv, Private
<1>6. CASE ChildDies
  <2>1. UNCHANGED <<uid, uids, stored, pipe, pc, cur, state>> /\ buffer' = <<>>
    BY <1>6 DEF ChildDies, consumer, ghosts
  <2> QED  BY <1>1, <1>3, <2>1 DEF OwnInv, Private
<1>7. CASE ClockMoves \/ UNCHANGED vars
  <2>1. UNCHANGED <<uid, uids, stored, pipe, pc, cur, state, buffer>>
    BY <1>7 DEF ClockMoves, vars, gateway, consumer, ghosts
  <2> QED  BY <1>1, <1>3, <2>1 DEF OwnInv, Private
<1>8. CASE Get
  <2>1. /\ pipe # <<>> /\ cur' = Head(pipe) /\ pipe' = Tail(pipe) /\ pc' = "load"
        /\ UNCHANGED <<uid, uids, stored, buffer, state>>
    BY <1>8 DEF Get, gateway, ghosts
  <2>2. /\ Len(pipe) \in Nat \ {0} /\ Len(pipe') = Len(pipe) - 1 /\ cur' = pipe[1]
        /\ \A i \in 1..Len(pipe') : pipe'[i] = pipe[i + 1]
    BY <1>a, <2>1, EmptySeq, HeadTailProperties
  <2>3. 1 \in 1..Len(pipe) /\ \A i \in 1..Len(pipe') : i + 1 \in 1..Len(pipe)
    BY <2>2
  <2>4. /\ \A i \in 1..Len(pipe) : pipe[i].session = uid[Sender[pipe[i].msg]]
        /\ \A i \in 1..Len(buffer) : buffer[i].session = uid[Sender[buffer[i].msg]]
    BY DEF OwnInv, Addressed, Own
  <2>5. \A i \in 1..Len(pipe') : pipe'[i].session = uid[Sender[pipe'[i].msg]]
    BY <2>2, <2>3, <2>4
  <2>6. Addressed'
    BY <2>1, <2>2, <2>3, <2>4, <2>5 DEF Addressed, Own
  <2> QED  BY <1>1, <1>2, <2>1, <2>6
<1>9. CASE InitializeContext
  <2>1. /\ pc = "load" /\ pc' = "handle" /\ state' = stored[cur.session]
        /\ UNCHANGED <<uid, uids, stored, pipe, cur, buffer>>
    BY <1>9 DEF InitializeContext, gateway, ghosts
  <2>2. \A i \in 1..Len(state') : Sender[state'[i]] = Sender[cur'.msg]
    BY <1>b, <1>c, <1>d, <2>1 DEF OwnInv, Private
  <2> QED  BY <1>1, <1>2, <1>3, <2>1, <2>2
<1>10. CASE HandlerReturns
  <2>1. /\ pc = "handle" /\ pc' = "persist" /\ state' = Append(state, cur.msg)
        /\ UNCHANGED <<uid, uids, stored, pipe, cur, buffer>>
    BY <1>10 DEF HandlerReturns, gateway
  <2>2. cur.msg \in Messages
    BY <1>b, <1>c, <2>1
  <2>3. /\ Len(state') = Len(state) + 1 /\ state'[Len(state) + 1] = cur.msg /\ Len(state) \in Nat
        /\ \A i \in 1..Len(state) : state'[i] = state[i]
    BY <1>a, <2>1, <2>2, AppendProperties, LenProperties
  <2>4. \A i \in 1..Len(state) : Sender[state[i]] = Sender[cur.msg]
    BY <2>1 DEF OwnInv, Private
  <2>5. \A i \in 1..Len(state') : Sender[state'[i]] = Sender[cur'.msg]
    BY <2>1, <2>3, <2>4
  <2> QED  BY <1>1, <1>2, <1>3, <2>1, <2>5
<1>11. CASE TurnRaises
  <2>1. pc' = "stopped" /\ UNCHANGED <<uid, uids, stored, pipe, cur>> /\ buffer' = <<>>
    BY <1>11 DEF TurnRaises, ghosts
  <2> QED  BY <1>1, <1>2, <1>3, <2>1
<1>12. CASE Persist
  <2>1. /\ pc = "persist" /\ pc' = "get" /\ UNCHANGED <<uid, uids, pipe, buffer>>
        /\ stored' = stored \/ stored' = [stored EXCEPT ![cur.session] = state]
    BY <1>12 DEF Persist, gateway
  <2>2. PICK s \in Sessions, u \in Users : s = cur.session /\ u = Sender[cur.msg] /\ s = uid[u]
    BY <1>b, <1>c, <2>1
  <2>3. \A i \in 1..Len(state) : Sender[state[i]] = u
    BY <2>1, <2>2 DEF OwnInv, Private
  <2>4. \A r \in Sessions : stored'[r] = stored[r] \/ (r = s /\ stored'[r] = state)
    BY <1>a, <2>1, <2>2
  <2>5. Distinct' /\ Addressed'
    BY <2>1 DEF OwnInv, Distinct, Addressed, Own
  <2>6. s <= uids
    BY <2>2 DEF OwnInv, IdsInv, Numbered
  <2>7. Unused'
    <3>1. ASSUME NEW r \in Sessions, r > uids PROVE r # s
      <4>1. r \in Nat
        BY CardType, PipelineAssumption DEF Sessions, Card
      <4>2. s \in Nat
        BY CardType, PipelineAssumption DEF Sessions, Card
      <4> QED  BY <1>a, <2>6, <3>1, <4>1, <4>2
    <3> QED  BY <2>1, <2>4, <3>1 DEF OwnInv, Unused
  <2>8. Private'
    <3>1. ASSUME NEW v \in Users, uid[v] # NoSession, NEW i \in 1..Len(stored'[uid[v]])
          PROVE  Sender[stored'[uid[v]][i]] = v
      <4>1. uid[v] \in Sessions
        BY <1>a, <3>1
      <4>2. CASE stored'[uid[v]] = stored[uid[v]]
        BY <3>1, <4>2 DEF OwnInv, Private
      <4>3. CASE uid[v] = s /\ stored'[uid[v]] = state
        <5>1. v = u
          BY <1>d, <2>2, <4>3 DEF OwnInv, Distinct
        <5> QED  BY <2>3, <3>1, <4>3, <5>1
      <4> QED  BY <2>4, <4>1, <4>2, <4>3
    <3> QED  BY <2>1, <3>1 DEF Private
  <2>9. SessionsNotShared'
    <3>1. ASSUME NEW r \in Sessions, NEW i \in 1..Len(stored'[r]), NEW j \in 1..Len(stored'[r])
          PROVE  Sender[stored'[r][i]] = Sender[stored'[r][j]]
      <4>1. CASE stored'[r] = stored[r]
        BY <3>1, <4>1 DEF OwnInv, SessionsNotShared
      <4>2. CASE stored'[r] = state
        BY <2>3, <3>1, <4>2
      <4> QED  BY <2>4, <4>1, <4>2
    <3> QED  BY <3>1 DEF SessionsNotShared
  <2> QED  BY <2>5, <2>7, <2>8, <2>9
<1>13. CASE Restart
  <2>1. /\ uid' = [u \in Users |-> NoSession] /\ uids' = uids /\ pc' = "get"
        /\ pipe' = <<>> /\ buffer' = <<>>
        /\ stored' = stored \/ stored' = [s \in Sessions |-> <<>>]
    BY <1>13 DEF Restart
  <2>2. Distinct' /\ Addressed' /\ Private'
    BY <2>1 DEF Distinct, Addressed, Private
  <2>3. \A s \in Sessions : stored'[s] = stored[s] \/ stored'[s] = <<>>
    BY <2>1
  <2>4. Unused'
    BY <2>1, <2>3 DEF OwnInv, Unused
  <2>5. SessionsNotShared'
    <3>1. ASSUME NEW s \in Sessions, NEW i \in 1..Len(stored'[s]), NEW j \in 1..Len(stored'[s])
          PROVE  Sender[stored'[s][i]] = Sender[stored'[s][j]]
      <4>1. stored'[s] = stored[s]
        BY <2>3, <3>1
      <4> QED  BY <3>1, <4>1 DEF OwnInv, SessionsNotShared
    <3> QED  BY <3>1 DEF SessionsNotShared
  <2> QED  BY <2>2, <2>4, <2>5
<1> QED  BY <1>4, <1>5, <1>6, <1>7, <1>8, <1>9, <1>10, <1>11, <1>12, <1>13 DEF Next

-----------------------------------------------------------------------------
(* What the state of a session has recorded.                               *)

\* A set of numbers that is not empty has a least element.
LEMMA LeastElement ==
    ASSUME NEW T \in SUBSET Nat, T # {}
    PROVE  \E n \in T : \A m \in T : n <= m
<1>1. PICK R : R = {pair \in Nat \X Nat : pair[1] < pair[2]}
  OBVIOUS
<1>2. IsWellFoundedOn(R, Nat)
  BY <1>1, NatLessThanWellFounded DEF OpToRel
<1>3. PICK n \in T : \A m \in T : ~ (<<m, n>> \in R)
  BY <1>2, WFMin
<1>4. ASSUME NEW m \in T PROVE n <= m
  <2>1. n \in Nat /\ m \in Nat /\ (m < n => <<m, n>> \in R)
    BY <1>1
  <2> QED  BY <1>3, <2>1
<1> QED  BY <1>4

\* A set with 0, and with the successor of each of its members, is Nat.
LEMMA Induction ==
    ASSUME NEW T \in SUBSET Nat, 0 \in T, \A n \in T : n + 1 \in T
    PROVE  T = Nat
<1> SUFFICES ASSUME Nat \ T # {} PROVE FALSE
  OBVIOUS
<1>1. PICK n \in Nat \ T : \A m \in Nat \ T : n <= m
  BY LeastElement
<1>2. n - 1 \in Nat /\ ~(n <= n - 1) /\ n = (n - 1) + 1
  BY <1>1
<1> QED  BY <1>1, <1>2

\* f holds the effects of the first 0, 1, ..., n events of h.
IsUpTo(f, h, w, s, n) ==
    f = [i \in 0..n |-> IF i = 0 THEN <<>>
                        ELSE IF h[i].session = s /\ i \notin w
                             THEN Append(f[i - 1], h[i].msg)
                             ELSE f[i - 1]]

LEMMA UpToExists ==
    ASSUME NEW h, NEW w, NEW s, NEW n \in Nat
    PROVE  \E f : IsUpTo(f, h, w, s, n)
<1>1. PICK T : T = {m \in Nat : \E f : IsUpTo(f, h, w, s, m)}
  OBVIOUS
<1>2. 0 \in T
  <2>1. IsUpTo([i \in 0..0 |-> <<>>], h, w, s, 0)
    BY DEF IsUpTo
  <2> QED  BY <1>1, <2>1
<1>3. ASSUME NEW m \in T PROVE m + 1 \in T
  <2>1. PICK f : IsUpTo(f, h, w, s, m) /\ m \in Nat
    BY <1>1, <1>3
  <2>2. PICK last : last = IF h[m + 1].session = s /\ m + 1 \notin w
                           THEN Append(f[m], h[m + 1].msg) ELSE f[m]
    OBVIOUS
  <2>3. PICK g : g = [i \in 0..m + 1 |-> IF i = m + 1 THEN last ELSE f[i]]
    OBVIOUS
  <2>4. ASSUME NEW i \in 0..m + 1
        PROVE  g[i] = IF i = 0 THEN <<>>
                      ELSE IF h[i].session = s /\ i \notin w
                           THEN Append(g[i - 1], h[i].msg) ELSE g[i - 1]
    <3>1. CASE i = m + 1
      <4>1. i # 0 /\ i - 1 = m /\ m \in 0..m + 1 /\ m # m + 1
        BY <2>1, <3>1
      <4>2. g[i] = last /\ g[i - 1] = f[m]
        BY <2>3, <3>1, <4>1
      <4> QED  BY <2>2, <3>1, <4>1, <4>2
    <3>2. CASE i \in 0..m
      <4>1. i # m + 1 /\ g[i] = f[i]
        BY <2>1, <2>3, <3>2
      <4>2. i # 0 => i - 1 \in 0..m + 1 /\ i - 1 # m + 1 /\ g[i - 1] = f[i - 1]
        BY <2>1, <2>3, <3>2
      <4>3. f[i] = IF i = 0 THEN <<>>
                   ELSE IF h[i].session = s /\ i \notin w
                        THEN Append(f[i - 1], h[i].msg) ELSE f[i - 1]
        BY <2>1, <3>2 DEF IsUpTo
      <4> QED  BY <4>1, <4>2, <4>3
    <3> QED  BY <2>1, <3>1, <3>2
  <2>5. IsUpTo(g, h, w, s, m + 1)
    BY <2>3, <2>4 DEF IsUpTo
  <2> QED  BY <1>1, <2>1, <2>5
<1>4. T = Nat
  BY <1>1, <1>2, <1>3, Induction
<1> QED  BY <1>1, <1>4

LEMMA EffectsIsLast ==
    ASSUME NEW h, NEW w, NEW s, Len(h) \in Nat
    PROVE  \E f : IsUpTo(f, h, w, s, Len(h)) /\ Effects(h, w, s) = f[Len(h)]
<1>1. PICK f : f = CHOOSE g : IsUpTo(g, h, w, s, Len(h))
  OBVIOUS
<1>2. IsUpTo(f, h, w, s, Len(h))
  BY <1>1, UpToExists
<1>3. Effects(h, w, s) = f[Len(h)]
  BY <1>1 DEF IsUpTo, Effects
<1> QED  BY <1>2, <1>3

\* The effects of the first events depend on these events alone.
LEMMA UpToAgree ==
    ASSUME NEW h, NEW p, NEW w, NEW v, NEW s, NEW n \in Nat, NEW m \in 0..n,
           \A i \in 1..m : h[i] = p[i] /\ (i \in w <=> i \in v),
           NEW f, IsUpTo(f, h, w, s, n), NEW g, IsUpTo(g, p, v, s, m)
    PROVE  f[m] = g[m]
<1>1. PICK T : T = {i \in Nat : i \in 0..m => f[i] = g[i]}
  OBVIOUS
<1>2. 0 \in T
  BY <1>1 DEF IsUpTo
<1>3. ASSUME NEW i \in T PROVE i + 1 \in T
  <2>1. CASE i + 1 \notin 0..m
    BY <1>1, <1>3, <2>1
  <2>2. CASE i + 1 \in 0..m
    <3>1. /\ i \in 0..m /\ i + 1 \in 1..m /\ i + 1 \in 0..n /\ i + 1 # 0 /\ (i + 1) - 1 = i
      BY <1>1, <1>3, <2>2
    <3>2. f[i] = g[i]
      BY <1>1, <1>3, <3>1
    <3>3. f[i + 1] = IF h[i + 1].session = s /\ i + 1 \notin w
                     THEN Append(f[i], h[i + 1].msg) ELSE f[i]
      BY <3>1 DEF IsUpTo
    <3>4. g[i + 1] = IF p[i + 1].session = s /\ i + 1 \notin v
                     THEN Append(g[i], p[i + 1].msg) ELSE g[i]
      BY <2>2, <3>1 DEF IsUpTo
    <3>5. f[i + 1] = g[i + 1]
      BY <3>1, <3>2, <3>3, <3>4
    <3> QED  BY <1>1, <1>3, <3>5
  <2> QED  BY <2>1, <2>2
<1>4. T = Nat
  BY <1>1, <1>2, <1>3, Induction
<1> QED  BY <1>1, <1>4

\* The effects are messages, and there are none of a session without events.
LEMMA EffectsType ==
    ASSUME NEW h \in Seq(Events), NEW w, NEW s
    PROVE  /\ Effects(h, w, s) \in Seq(Messages)
           /\ (\A i \in 1..Len(h) : h[i].session # s) => Effects(h, w, s) = <<>>
<1>1. PICK n \in Nat : n = Len(h)
  BY LenProperties
<1>2. \A i \in 1..n : h[i].msg \in Messages
  <2>1. \A i \in 1..n : h[i] \in Events
    BY <1>1, ElementOfSeq
  <2>2. \A e \in Events : e.msg \in Messages
    BY DEF Events
  <2> QED  BY <2>1, <2>2
<1>3. PICK f : IsUpTo(f, h, w, s, n) /\ Effects(h, w, s) = f[n]
  BY <1>1, EffectsIsLast
<1>4. PICK T : T = {i \in Nat : i \in 0..n =>
                      /\ f[i] \in Seq(Messages)
                      /\ (\A j \in 1..n : h[j].session # s) => f[i] = <<>>}
  OBVIOUS
<1>5. 0 \in T
  BY <1>1, <1>3, <1>4, EmptySeq DEF IsUpTo
<1>6. ASSUME NEW i \in T PROVE i + 1 \in T
  <2>1. CASE i + 1 \notin 0..n
    BY <1>4, <1>6, <2>1
  <2>2. CASE i + 1 \in 0..n
    <3>1. i \in 0..n /\ i + 1 \in 1..n /\ i + 1 # 0 /\ (i + 1) - 1 = i
      BY <1>4, <1>6, <2>2
    <3>2. f[i + 1] = IF h[i + 1].session = s /\ i + 1 \notin w
                     THEN Append(f[i], h[i + 1].msg) ELSE f[i]
      BY <1>3, <2>2, <3>1 DEF IsUpTo
    <3>3. /\ f[i] \in Seq(Messages)
          /\ (\A j \in 1..n : h[j].session # s) => f[i] = <<>>
      BY <1>4, <1>6, <3>1
    <3>4. Append(f[i], h[i + 1].msg) \in Seq(Messages)
      BY <1>2, <3>1, <3>3, AppendProperties
    <3>5. f[i + 1] \in Seq(Messages)
      BY <3>2, <3>3, <3>4
    <3>6. (\A j \in 1..n : h[j].session # s) => f[i + 1] = <<>>
      BY <3>1, <3>2, <3>3
    <3>7. i + 1 \in Nat
      BY <1>4, <1>6
    <3> QED  BY <1>4, <3>5, <3>6, <3>7
  <2> QED  BY <2>1, <2>2
<1>7. T = Nat
  BY <1>4, <1>5, <1>6, Induction
<1>8. n \in 0..n
  BY <1>1
<1> QED  BY <1>1, <1>3, <1>4, <1>7, <1>8

\* The last event adds its message to its session, unless it is left out.
LEMMA EffectsOfAppend ==
    ASSUME NEW h \in Seq(Events), NEW e \in Events, NEW w, NEW v, NEW s,
           \A i \in 1..Len(h) : i \in w <=> i \in v
    PROVE  Effects(Append(h, e), w, s) = IF e.session = s /\ Len(h) + 1 \notin w
                                         THEN Append(Effects(h, v, s), e.msg)
                                         ELSE Effects(h, v, s)
<1>1. PICK n \in Nat : n = Len(h)
  BY LenProperties
<1>2. PICK r : r = Append(h, e)
  OBVIOUS
<1>3. r \in Seq(Events) /\ Len(r) = n + 1 /\ r[n + 1] = e /\ \A i \in 1..n : r[i] = h[i]
  BY <1>1, <1>2, AppendProperties
<1>4. /\ n + 1 \in Nat /\ n \in 0..n + 1 /\ n + 1 \in 0..n + 1 /\ n + 1 # 0
      /\ (n + 1) - 1 = n
  BY <1>1
<1>5. PICK f : IsUpTo(f, r, w, s, n + 1) /\ Effects(r, w, s) = f[n + 1]
  <2>1. Len(r) \in Nat
    BY <1>3, <1>4
  <2>2. PICK f : IsUpTo(f, r, w, s, Len(r)) /\ Effects(r, w, s) = f[Len(r)]
    BY <2>1, EffectsIsLast
  <2> QED  BY <1>3, <2>2
<1>6. PICK g : IsUpTo(g, h, v, s, n) /\ Effects(h, v, s) = g[n]
  BY <1>1, EffectsIsLast
<1>7. f[n] = g[n]
  <2>1. \A i \in 1..n : r[i] = h[i] /\ (i \in w <=> i \in v)
    BY <1>1, <1>3
  <2> QED  BY <1>4, <1>5, <1>6, <2>1, UpToAgree
<1>8. f[n + 1] = IF r[n + 1].session = s /\ n + 1 \notin w
                 THEN Append(f[n], r[n + 1].msg) ELSE f[n]
  BY <1>4, <1>5 DEF IsUpTo
<1> QED  BY <1>1, <1>2, <1>3, <1>5, <1>6, <1>7, <1>8

LEMMA FrontOfAppend ==
    ASSUME NEW S, NEW q \in Seq(S), NEW e \in S
    PROVE  Front(Append(q, e)) = q
<1>1. PICK n \in Nat : n = Len(q)
  BY LenProperties
<1>2. PICK r : r = Append(q, e)
  OBVIOUS
<1>3. r \in Seq(S) /\ Len(r) = n + 1 /\ (n + 1) - 1 = n /\ \A i \in 1..n : r[i] = q[i]
  BY <1>1, <1>2, AppendProperties
<1>4. Front(r) = [i \in 1..n |-> r[i]]
  BY <1>1, <1>3 DEF Front
<1>5. q = [i \in 1..n |-> q[i]]
  BY <1>1, LenProperties
<1>6. Front(r) = q
  BY <1>3, <1>4, <1>5
<1> QED  BY <1>2, <1>6

\* The handler works on what its session has stored; the event whose state
\* is to be written is the last handled; no later session has events yet.
HandledOwn == \A i \in 1..Len(handled) : handled[i].session <= uids
Turn ==
    /\ unwritten \subseteq 1..Len(handled)
    /\ pc = "handle" => state = stored[cur.session]
    /\ pc = "persist" => /\ handled # <<>> /\ handled[Len(handled)] = cur
                         /\ Len(handled) \notin unwritten

ReflectInv == OwnInv /\ HandledOwn /\ Turn /\ StateReflectsHandling

\* The step of the handler: its message is the last of its session.
LEMMA HandlerReflects ==
    ASSUME ReflectInv, HandlerReturns
    PROVE  HandledOwn' /\ Turn' /\ StateReflectsHandling'
<1>1. /\ handled \in Seq(Events) /\ cur \in Events /\ uid \in [Users -> Sessions \cup {NoSession}]
      /\ uids \in Nat /\ Len(handled) \in Nat
  BY CardType, PipelineAssumption, Products, LenProperties
     DEF ReflectInv, OwnInv, IdsInv, TypeOK, HasEvent, Working, HandlerReturns, Card
<1>2. /\ pc = "handle" /\ pc' = "persist" /\ state' = Append(state, cur.msg)
      /\ handled' = Append(handled, cur) /\ UNCHANGED <<uid, uids, cur, stored, unwritten>>
  BY DEF HandlerReturns, gateway
<1>3. /\ handled' \in Seq(Events) /\ handled' # <<>> /\ Len(handled') = Len(handled) + 1
      /\ handled'[Len(handled) + 1] = cur
      /\ \A i \in 1..Len(handled) : handled'[i] = handled[i]
  BY <1>1, <1>2, AppendProperties
<1>4. Len(handled) + 1 \notin unwritten /\ unwritten \subseteq 1..Len(handled)
  BY <1>1 DEF ReflectInv, Turn
<1>5. cur.session = uid[Sender[cur.msg]] /\ Sender[cur.msg] \in Users
  BY <1>1, <1>2, PipelineAssumption DEF ReflectInv, OwnInv, Addressed, Own, Events
<1>6. HandledOwn'
  <2>1. cur.session <= uids
    BY <1>5 DEF ReflectInv, OwnInv, IdsInv, Numbered
  <2>2. \A i \in 1..Len(handled) : handled[i].session <= uids
    BY DEF ReflectInv, HandledOwn
  <2> QED  BY <1>1, <1>2, <1>3, <2>1, <2>2 DEF HandledOwn
<1>7. Turn'
  <2>1. unwritten' \subseteq 1..Len(handled')
    BY <1>1, <1>2, <1>3, <1>4
  <2> QED  BY <1>2, <1>3, <1>4, <2>1 DEF Turn
<1>8. ASSUME NEW s \in {uid[u] : u \in Users} \ {NoSession}
      PROVE  IF cur.session = s
             THEN state' = Recorded(s)' /\ stored[s] = Front(Recorded(s)')
             ELSE stored[s] = Recorded(s)'
  <2>1. stored[s] = Recorded(s) /\ Recorded(s) \in Seq(Messages)
    BY <1>1, <1>2, EffectsType DEF ReflectInv, StateReflectsHandling, Recorded
  <2>2. Recorded(s)' = IF cur.session = s THEN Append(Recorded(s), cur.msg) ELSE Recorded(s)
    <3>1. Effects(Append(handled, cur), unwritten, s)
            = IF cur.session = s /\ Len(handled) + 1 \notin unwritten
              THEN Append(Effects(handled, unwritten, s), cur.msg)
              ELSE Effects(handled, unwritten, s)
      BY <1>1, EffectsOfAppend
    <3> QED  BY <1>2, <1>4, <3>1 DEF Recorded
  <2>3. CASE cur.session = s
    <3>1. state = stored[s] /\ cur.msg \in Messages
      BY <1>1, <1>2, <2>3 DEF ReflectInv, Turn, Events
    <3>2. Front(Append(Recorded(s), cur.msg)) = Recorded(s)
      BY <2>1, <3>1, FrontOfAppend
    <3> QED  BY <1>2, <2>1, <2>2, <2>3, <3>1, <3>2
  <2>4. CASE cur.session # s
    BY <2>1, <2>2, <2>4
  <2> QED  BY <2>3, <2>4
<1>9. StateReflectsHandling'
  BY <1>2, <1>8 DEF StateReflectsHandling
<1> QED  BY <1>6, <1>7, <1>9

\* The write, or its failure, which leaves the last event out.
LEMMA PersistReflects ==
    ASSUME ReflectInv, Persist
    PROVE  HandledOwn' /\ Turn' /\ StateReflectsHandling'
<1>1. /\ handled \in Seq(Events) /\ cur \in Events /\ uid \in [Users -> Sessions \cup {NoSession}]
      /\ stored \in [Sessions -> Seq(Messages)]
  BY DEF ReflectInv, OwnInv, IdsInv, TypeOK, HasEvent, Working, Persist
<1>2. /\ pc = "persist" /\ pc' = "get" /\ UNCHANGED <<uid, uids, handled>>
      /\ \/ stored' = [stored EXCEPT ![cur.session] = state] /\ unwritten' = unwritten
         \/ stored' = stored /\ unwritten' = unwritten \cup {Len(handled)}
  BY DEF Persist, gateway
<1>3. /\ handled # <<>> /\ handled[Len(handled)] = cur /\ Len(handled) \notin unwritten
      /\ unwritten \subseteq 1..Len(handled)
  BY <1>2 DEF ReflectInv, Turn
<1>4. Len(handled) \in 1..Len(handled)
  BY <1>1, <1>3, EmptySeq
<1>5. HandledOwn'
  BY <1>2 DEF ReflectInv, HandledOwn
<1>6. Turn'
  BY <1>2, <1>3, <1>4 DEF Turn
<1>7. cur.session \in Sessions
  BY <1>1 DEF Events
<1>8. ASSUME NEW s \in {uid[u] : u \in Users} \ {NoSession}
      PROVE  stored'[s] = Recorded(s)'
  <2>1. IF cur.session = s
        THEN state = Recorded(s) /\ stored[s] = Front(Recorded(s))
        ELSE stored[s] = Recorded(s)
    BY <1>2 DEF ReflectInv, StateReflectsHandling
  <2>2. s \in Sessions
    BY <1>1
  <2>3. CASE stored' = [stored EXCEPT ![cur.session] = state] /\ unwritten' = unwritten
    <3>1. Recorded(s)' = Recorded(s)
      BY <1>2, <2>3 DEF Recorded
    <3>2. stored'[s] = IF cur.session = s THEN state ELSE stored[s]
      BY <1>1, <1>7, <2>2, <2>3
    <3> QED  BY <2>1, <3>1, <3>2
  <2>4. CASE stored' = stored /\ unwritten' = unwritten \cup {Len(handled)}
    <3>1. PICK h \in Seq(Events), e \in Events : handled = Append(h, e)
      BY <1>1, <1>3, SequenceEmptyOrAppend
    <3>2. Len(h) \in Nat /\ Len(handled) = Len(h) + 1 /\ e = cur
      BY <1>3, <3>1, AppendProperties, LenProperties
    <3>3. PICK lost : lost = unwritten \cup {Len(handled)}
      OBVIOUS
    <3>4. \A i \in 1..Len(h) : i \in lost <=> i \in unwritten
      BY <3>2, <3>3
    <3>5. Recorded(s) = IF cur.session = s
                        THEN Append(Effects(h, unwritten, s), cur.msg)
                        ELSE Effects(h, unwritten, s)
      <4>1. Effects(Append(h, e), unwritten, s)
              = IF e.session = s /\ Len(h) + 1 \notin unwritten
                THEN Append(Effects(h, unwritten, s), e.msg) ELSE Effects(h, unwritten, s)
        BY EffectsOfAppend
      <4> QED  BY <1>3, <3>1, <3>2, <4>1 DEF Recorded
    <3>6. Recorded(s)' = Effects(h, unwritten, s)
      <4>1. Effects(Append(h, e), lost, s)
              = IF e.session = s /\ Len(h) + 1 \notin lost
                THEN Append(Effects(h, unwritten, s), e.msg) ELSE Effects(h, unwritten, s)
        BY <3>4, EffectsOfAppend
      <4>2. Len(h) + 1 \in lost
        BY <3>2, <3>3
      <4> QED  BY <1>2, <2>4, <3>1, <3>3, <4>1, <4>2 DEF Recorded
    <3>7. CASE cur.session = s
      <4>1. Effects(h, unwritten, s) \in Seq(Messages) /\ cur.msg \in Messages
        BY <1>1, EffectsType DEF Events
      <4>2. Front(Recorded(s)) = Effects(h, unwritten, s)
        BY <3>5, <3>7, <4>1, FrontOfAppend
      <4> QED  BY <2>1, <2>4, <3>6, <3>7, <4>2
    <3>8. CASE cur.session # s
      BY <2>1, <2>4, <3>5, <3>6, <3>8
    <3> QED  BY <3>7, <3>8
  <2> QED  BY <1>2, <2>3, <2>4
<1>9. StateReflectsHandling'
  BY <1>2, <1>8 DEF StateReflectsHandling
<1> QED  BY <1>5, <1>6, <1>9

\* A delivery may hand out an id: nothing is stored or handled under it.
LEMMA DeliverReflects ==
    ASSUME ReflectInv, NEW m \in Messages, Deliver(m)
    PROVE  HandledOwn' /\ Turn' /\ StateReflectsHandling'
<1>1. PICK u \in Users : u = Sender[m]
  BY PipelineAssumption
<1>2. PICK session : session = IF uid[u] = NoSession THEN uids + 1 ELSE uid[u]
  OBVIOUS
<1>3. session \in Sessions /\ session # NoSession
  <2>1. PICK event : event = [msg |-> m, session |-> session, at |-> now]
    OBVIOUS
  <2> QED  BY <1>1, <1>2, <2>1, DeliveredEvent DEF ReflectInv, OwnInv
<1>4. /\ UNCHANGED <<pc, cur, state, stored, handled, unwritten>>
      /\ \/ UNCHANGED <<uid, uids>>
         \/ /\ uid' = [uid EXCEPT ![u] = session]
            /\ uids' = IF session > uids THEN session ELSE uids
  BY <1>1, <1>2 DEF Deliver, consumer
<1>5. /\ uids \in Nat /\ session \in Nat /\ uid \in [Users -> Sessions \cup {NoSession}]
      /\ handled \in Seq(Events) /\ \A s \in Sessions : s \in Nat
  BY <1>3, CardType, PipelineAssumption, Products DEF ReflectInv, OwnInv, IdsInv, TypeOK, Sessions, Card
<1>6. uids' \in Nat /\ uids <= uids'
  BY <1>4, <1>5
<1>7. \A i \in 1..Len(handled) : handled[i].session \in Nat /\ handled[i].session <= uids
  <2>1. \A i \in 1..Len(handled) : handled[i] \in Events
    BY <1>5, ElementOfSeq
  <2>2. \A e \in Events : e.session \in Nat
    BY <1>5 DEF Events
  <2> QED  BY <2>1, <2>2 DEF ReflectInv, HandledOwn
<1>8. HandledOwn'
  BY <1>4, <1>5, <1>6, <1>7 DEF HandledOwn
<1>9. Turn'
  BY <1>4 DEF ReflectInv, Turn
<1>10. ASSUME NEW s \in {uid'[v] : v \in Users} \ {NoSession}
       PROVE  IF pc = "persist" /\ cur.session = s
              THEN state = Recorded(s) /\ stored[s] = Front(Recorded(s))
              ELSE stored[s] = Recorded(s)
  <2>1. CASE s \in {uid[v] : v \in Users}
    BY <1>10, <2>1 DEF ReflectInv, StateReflectsHandling
  <2>2. CASE s \notin {uid[v] : v \in Users}
    <3>1. s = session
      BY <1>4, <1>5, <2>2
    <3>2. session = uids + 1
      BY <1>2, <1>1, <2>2, <3>1
    <3>3. stored[s] = <<>>
      BY <1>3, <1>5, <3>1, <3>2 DEF ReflectInv, OwnInv, Unused
    <3>4. \A i \in 1..Len(handled) : handled[i].session # s
      BY <1>5, <1>7, <3>1, <3>2
    <3>5. Recorded(s) = <<>>
      BY <1>5, <3>4, EffectsType DEF Recorded
    <3>6. ~(pc = "persist" /\ cur.session = s)
      <4>1. Len(handled) \in 1..Len(handled) \/ handled = <<>>
        BY <1>5, EmptySeq
      <4> QED  BY <3>4, <4>1 DEF ReflectInv, Turn
    <3> QED  BY <3>3, <3>5, <3>6
  <2> QED  BY <2>1, <2>2
<1>11. \A s : Recorded(s)' = Recorded(s)
  BY <1>4 DEF Recorded
<1>12. StateReflectsHandling'
  BY <1>4, <1>10, <1>11 DEF StateReflectsHandling
<1> QED  BY <1>8, <1>9, <1>12

LEMMA StepReflects ==
    ASSUME ReflectInv, [Next]_vars
    PROVE  HandledOwn' /\ Turn' /\ StateReflectsHandling'
\* Nothing is handled, stored or given an id.
<1>1. ASSUME UNCHANGED <<uid, uids, stored, handled, unwritten>>,
             \/ UNCHANGED <<pc, cur, state>>
             \/ pc # "persist" /\ pc' \notin {"handle", "persist"}
             \/ pc # "persist" /\ pc' = "handle" /\ state' = stored[cur.session] /\ cur' = cur
      PROVE  HandledOwn' /\ Turn' /\ StateReflectsHandling'
  <2>1. HandledOwn' /\ Turn'
    BY <1>1 DEF ReflectInv, HandledOwn, Turn
  <2>2. \A s : Recorded(s)' = Recorded(s)
    BY <1>1 DEF Recorded
  <2>3. StateReflectsHandling'
    BY <1>1, <2>2 DEF ReflectInv, StateReflectsHandling
  <2> QED  BY <2>1, <2>3
<1>2. CASE \E m \in Messages : Deliver(m)
  BY <1>2, DeliverReflects
<1>3. CASE Feed \/ ChildDies \/ ClockMoves \/ UNCHANGED vars
  BY <1>1, <1>3 DEF Feed, ChildDies, ClockMoves, vars, gateway, consumer, ghosts
<1>4. CASE Get \/ TurnRaises
  BY <1>1, <1>4 DEF Get, TurnRaises, gateway, ghosts
<1>5. CASE InitializeContext
  BY <1>1, <1>5 DEF InitializeContext, gateway, ghosts
<1>6. CASE HandlerReturns
  BY <1>6, HandlerReflects
<1>7. CASE Persist
  BY <1>7, PersistReflects
<1>8. CASE Restart
  <2>1. /\ \A u \in Users : uid'[u] = NoSession
        /\ handled' = <<>> /\ unwritten' = {} /\ pc' = "get"
    BY <1>8 DEF Restart
  <2>2. Len(<<>>) = 0
    BY EmptySeq
  <2> QED  BY <2>1, <2>2 DEF HandledOwn, Turn, StateReflectsHandling
<1> QED  BY <1>2, <1>3, <1>4, <1>5, <1>6, <1>7, <1>8 DEF Next

-----------------------------------------------------------------------------
(* The theorems.                                                           *)

\* The clock, the records, the ids, the queue and the loop keep their types
\* through any deliveries, deaths, failures and restarts; in particular no
\* start hands out more ids than there are users.
THEOREM PipelineTypeCorrect == Spec => []TypeOK
<1>1. Init => IdsInv
  BY InitIds
<1>2. IdsInv /\ [Next]_vars => IdsInv'
  BY StepIds
<1>3. IdsInv => TypeOK
  BY DEF IdsInv
<1> QED  BY <1>1, <1>2, <1>3, PTL DEF Spec

\* From the deduplication through the queue's feeder and pipe to the end of
\* the handler nothing is lost, doubled or reordered while the child lives.
THEOREM NothingIsLostInBetween == Spec => []NothingLostInBetween
<1>1. Init => IdsInv /\ Conserved
  BY InitIds, InitConserved
<1>2. IdsInv /\ Conserved /\ [Next]_vars => (IdsInv /\ Conserved)'
  BY StepIds, StepConserved
<1>3. IdsInv /\ Conserved => NothingLostInBetween
  BY DEF IdsInv, Conserved, NothingLostInBetween
<1> QED  BY <1>1, <1>2, <1>3, PTL DEF Spec

\* One start of the program accepts a message twice only when the deliveries
\* are further apart than the window, whatever was purged in between.
THEOREM NothingTwiceWithinWindow == Spec => []DeduplicatedWithinWindow
<1>1. Init => DedupInv
  <2>1. ASSUME Init PROVE OnRecord /\ DeduplicatedWithinWindow
    BY <2>1 DEF Init, OnRecord, DeduplicatedWithinWindow
  <2> QED  BY <2>1, InitIds DEF DedupInv
<1>2. DedupInv /\ [Next]_vars => DedupInv'
  BY StepIds, StepOnRecord DEF DedupInv
<1>3. DedupInv => DeduplicatedWithinWindow
  BY DEF DedupInv
<1> QED  BY <1>1, <1>2, <1>3, PTL DEF Spec

\* A session holds the messages of one user, over any number of starts with
\* or without a store that outlives them.
THEOREM SessionsAreNeverShared == Spec => []SessionsNotShared
<1>1. Init => OwnInv
  BY InitIds, InitOwn DEF OwnInv
<1>2. OwnInv /\ [Next]_vars => OwnInv'
  BY StepIds, StepOwn DEF OwnInv
<1>3. OwnInv => SessionsNotShared
  BY DEF OwnInv
<1> QED  BY <1>1, <1>2, <1>3, PTL DEF Spec

\* The persisted state of a session is the effect of every handler whose
\* write succeeded, once and in order, whatever is delivered, dies, fails or
\* is started again in between and however the clock jumps.
THEOREM StateAlwaysReflectsHandling == Spec => []StateReflectsHandling
<1>1. Init => ReflectInv
  <2>1. ASSUME Init PROVE HandledOwn /\ Turn /\ StateReflectsHandling
    BY <2>1 DEF Init, HandledOwn, Turn, StateReflectsHandling
  <2> QED  BY <2>1, InitIds, InitOwn DEF ReflectInv, OwnInv
<1>2. ReflectInv /\ [Next]_vars => ReflectInv'
  <2>1. ASSUME ReflectInv, [Next]_vars PROVE OwnInv'
    BY <2>1, StepIds, StepOwn DEF ReflectInv, OwnInv
  <2> QED  BY <2>1, StepReflects DEF ReflectInv
<1>3. ReflectInv => StateReflectsHandling
  BY DEF ReflectInv
<1> QED  BY <1>1, <1>2, <1>3, PTL DEF Spec
=============================================================================
