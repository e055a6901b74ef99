--------------------------- MODULE BillAgentProofs ---------------------------
(* Theorems about BillLedger and BillAgent, for any clients, categories,      *)
(* requests, rounds and numbers of events.  Every step of the agent is a step *)
(* of the ledger or leaves it alone, so what is proved of LedgerSpec is true  *)
(* of the agent's database.                                                  *)
(*                                                                          *)
(* The ledger's invariant adds to the types what the checks before the        *)
(* statements have established (Checked): a statement about to run has the    *)
(* arguments a row is made of.  The agent's (AgentInv) adds what each stage   *)
(* of a turn knows of prompt and history, and AnswersKept that an answer      *)
(* about to be sent is recorded.  The totals need no invariant but the types. *)
(***************************************************************************)
EXTENDS BillAgent, FiniteSetTheorems, WellFoundedInduction, TLAPS

\* What the checks of add_bill and update_bill leave for the statement.
CheckedCall(a) ==
  /\ a.stage = "check" => a.op \in {"add_bill", "update_bill"}
  /\ a.stage \in {"check", "run"} /\ a.op = "add_bill" =>
       a.category # None /\ a.amount # None /\ a.date \notin {None, Bad}
  /\ a.stage = "run" /\ a.op = "update_bill" => a.date # Bad
  /\ a.stage = "run" /\ a.op \in {"add_category", "delete_category"} => a.category # None

LedgerInv == LedgerTypeOK /\ \A c \in Clients : CheckedCall(call[c])

LEMMA LedgerInvInit == LedgerInit => LedgerInv
BY LedgerAssumption
   DEF LedgerInit, LedgerInv, LedgerTypeOK, CheckedCall, NoCall, Call, Ids, Ops, Results

(* A step keeps the invariant when it keeps the tables' types and puts one  *)
(* call into a state its checks allow.                                      *)
LEMMA CallChanges ==
  ASSUME LedgerInv, NEW c \in Clients, NEW r \in Call, CheckedCall(r),
         call' = [call EXCEPT ![c] = r],
         categories' \subseteq Categories, bills' \in [Ids -> Row \cup {NoBill}],
         lastId' \in 0 .. MaxId
  PROVE  LedgerInv'
<1>1. \A d \in Clients : call'[d] = IF d = c THEN r ELSE call[d]
  BY DEF LedgerInv, LedgerTypeOK
<1>2. LedgerTypeOK'
  BY DEF LedgerInv, LedgerTypeOK
<1>3. \A d \in Clients : CheckedCall(call'[d])
  BY <1>1 DEF LedgerInv
<1> QED BY <1>2, <1>3 DEF LedgerInv, CheckedCall

(* Reaching a stage changes nothing else of the call.                       *)
LEMMA ReachIs ==
  ASSUME LedgerInv, NEW c \in Clients, NEW stage \in {"check", "run"} \cup Results, Reach(c, stage)
  PROVE  LET r == [call[c] EXCEPT !.stage = stage] IN
           r \in Call /\ call' = [call EXCEPT ![c] = r]
<1>1. call[c] \in Call
  BY DEF LedgerInv, LedgerTypeOK
<1>2. [call[c] EXCEPT !.stage = stage] \in Call
  BY <1>1 DEF Call
<1> QED BY <1>2 DEF Reach

(* A call with a result is allowed whatever it carries.                     *)
LEMMA ResultIsChecked ==
  ASSUME NEW a \in Call, NEW stage \in Results
  PROVE  CheckedCall([a EXCEPT !.stage = stage])
BY DEF CheckedCall, Results, Call

(* The check of the arguments.                                              *)
LEMMA StartKeeps ==
  ASSUME LedgerInv, NEW c \in Clients, NEW a \in Requests, Start(c, a)
  PROVE  LedgerInv'
<1>1. a \in Call /\ a.stage = "idle"
  BY RequestsAssumption
<1>2. PICK r : r = [a EXCEPT !.stage = FirstStage(a)]
  OBVIOUS
<1>3. FirstStage(a) \in {"check", "run", "error", "false"}
  BY DEF FirstStage
<1>4. r \in Call /\ r.stage = FirstStage(a) /\ r.op = a.op /\ r.category = a.category
                 /\ r.amount = a.amount /\ r.date = a.date
  BY <1>1, <1>2, <1>3 DEF Call, Results
<1>5. a.op = "add_bill" => a.category # None /\ a.amount # None
  BY RequestsAssumption
<1>6. a.op \in {"add_category", "delete_category"} => a.category # None
  BY RequestsAssumption
<1>7. a.op = "add_bill" /\ FirstStage(a) \in {"check", "run"} => a.date \notin {None, Bad}
  <2>1. a.op = "add_bill" /\ a.date \in {None, Bad} => FirstStage(a) = "error"
    BY DEF FirstStage
  <2> QED BY <2>1
<1>8. a.op = "update_bill" /\ FirstStage(a) = "run" => a.date # Bad
  BY DEF FirstStage
<1>9. FirstStage(a) = "check" => a.op \in {"add_bill", "update_bill"}
  BY <1>1 DEF FirstStage, Call, Ops
<1>10. CheckedCall(r)
  BY <1>4, <1>5, <1>6, <1>7, <1>8, <1>9 DEF CheckedCall
<1> QED BY <1>2, <1>4, <1>10, CallChanges DEF Start, LedgerInv, LedgerTypeOK, tables

(* The lookup of the category, which sends a bad date to "error".           *)
LEMMA CategoryExistsKeeps ==
  ASSUME LedgerInv, NEW c \in Clients, CategoryExists(c)
  PROVE  LedgerInv'
<1>1. PICK stage \in {"run", "error"} :
        Reach(c, stage) /\ (stage = "run" => call[c].date # Bad)
  BY DEF CategoryExists
<1>2. stage \in {"check", "run"} \cup Results
  BY <1>1 DEF Results
<1>3. PICK r : r = [call[c] EXCEPT !.stage = stage]
  OBVIOUS
<1>4. r \in Call /\ call' = [call EXCEPT ![c] = r]
  BY <1>1, <1>2, <1>3, ReachIs
<1>5. call[c] \in Call /\ CheckedCall(call[c]) /\ call[c].stage = "check"
  BY DEF LedgerInv, LedgerTypeOK, CategoryExists
<1>6. r.stage = stage /\ r.op = call[c].op /\ r.category = call[c].category
      /\ r.amount = call[c].amount /\ r.date = call[c].date
  BY <1>3, <1>5 DEF Call
<1>7. CheckedCall(r)
  <2>1. CASE stage = "error"
    BY <1>6, <2>1 DEF CheckedCall
  <2>2. CASE stage = "run"
    BY <1>1, <1>5, <1>6, <2>2 DEF CheckedCall
  <2> QED BY <2>1, <2>2
<1> QED BY <1>4, <1>7, CallChanges DEF CategoryExists, LedgerInv, LedgerTypeOK, tables

(* INSERT: the row is made of what add_bill has checked.                    *)
LEMMA InsertIs ==
  ASSUME LedgerInv, NEW c \in Clients, InsertBill(c), call[c].category \in categories
  PROVE  \E row \in Row :
           /\ row.category \in categories
           /\ lastId' = lastId + 1 /\ lastId' \in Ids
           /\ bills' = [bills EXCEPT ![lastId + 1] = row]
           /\ categories' = categories
<1>1. call[c] \in Call /\ CheckedCall(call[c]) /\ call[c].stage = "run" /\ call[c].op = "add_bill"
  BY DEF LedgerInv, LedgerTypeOK, InsertBill, Running
<1>2. call[c].amount \in Amounts /\ call[c].date \in Dates /\ call[c].category \in Categories
  BY <1>1 DEF CheckedCall, Call
<1>3. [category |-> call[c].category, amount |-> call[c].amount, date |-> call[c].date] \in Row
  BY <1>2 DEF Row
<1>4. lastId + 1 \in Ids
  BY LedgerAssumption DEF LedgerInv, LedgerTypeOK, InsertBill, Ids
<1> QED BY <1>3, <1>4 DEF InsertBill

LEMMA InsertKeeps ==
  ASSUME LedgerInv, NEW c \in Clients, InsertBill(c)
  PROVE  LedgerInv'
<1>1. call[c] \in Call
  BY DEF LedgerInv, LedgerTypeOK
<1>2. CASE call[c].category \in categories
  <2>1. PICK row \in Row : /\ lastId' = lastId + 1 /\ lastId' \in Ids
                           /\ bills' = [bills EXCEPT ![lastId + 1] = row]
                           /\ categories' = categories
    BY <1>2, InsertIs
  <2>2. bills' \in [Ids -> Row \cup {NoBill}] /\ lastId' \in 0 .. MaxId
    BY <2>1, LedgerAssumption DEF LedgerInv, LedgerTypeOK, Ids
  <2>3. PICK r : r = [call[c] EXCEPT !.stage = "true", !.id = lastId + 1]
    OBVIOUS
  <2>4. r \in Call /\ r.stage = "true"
    <3>1. lastId + 1 \in 0 .. MaxId
      BY <2>1, <2>2
    <3>2. "true" \in {"idle", "check", "run"} \cup Results
      BY DEF Results
    <3> QED BY <1>1, <2>3, <3>1, <3>2 DEF Call
  <2>5. CheckedCall(r)
    BY <2>4 DEF CheckedCall
  <2>6. call' = [call EXCEPT ![c] = r]
    BY <1>2, <2>3 DEF InsertBill
  <2> QED BY <2>1, <2>2, <2>4, <2>5, <2>6, CallChanges DEF LedgerInv, LedgerTypeOK
<1>3. CASE call[c].category \notin categories
  <2>1. Reach(c, "error") /\ UNCHANGED tables
    BY <1>3 DEF InsertBill, tables
  <2>2. PICK r : r = [call[c] EXCEPT !.stage = "error"]
    OBVIOUS
  <2>3. r \in Call /\ call' = [call EXCEPT ![c] = r] /\ CheckedCall(r)
    BY <1>1, <2>1, <2>2, ReachIs, ResultIsChecked DEF Results
  <2> QED BY <2>1, <2>3, CallChanges DEF LedgerInv, LedgerTypeOK, tables
<1> QED BY <1>2, <1>3

(* Reaching a result keeps the invariant when the tables keep their types.  *)
LEMMA ResultKeeps ==
  ASSUME LedgerInv, NEW c \in Clients, NEW stage \in Results, Reach(c, stage),
         categories' \subseteq Categories, bills' \in [Ids -> Row \cup {NoBill}],
         lastId' \in 0 .. MaxId
  PROVE  LedgerInv'
<1>1. PICK r : r = [call[c] EXCEPT !.stage = stage]
  OBVIOUS
<1>2. r \in Call /\ call' = [call EXCEPT ![c] = r]
  BY <1>1, ReachIs
<1>3. CheckedCall(r)
  BY <1>1, ResultIsChecked DEF LedgerInv, LedgerTypeOK
<1> QED BY <1>2, <1>3, CallChanges

(* UPDATE: a row keeps its type, because what is given has been checked.    *)
LEMMA ChangedIsRow ==
  ASSUME LedgerInv, NEW c \in Clients, Running(c, "update_bill"), HasBill(call[c].id),
         call[c].category \in categories \cup {None}
  PROVE  Changed(bills[call[c].id], call[c]) \in Row
<1>1. call[c] \in Call /\ CheckedCall(call[c]) /\ call[c].stage = "run" /\ call[c].op = "update_bill"
  BY DEF LedgerInv, LedgerTypeOK, Running
<1>2. bills[call[c].id] \in Row
  BY DEF LedgerInv, LedgerTypeOK, HasBill
<1>3. call[c].date \in Dates \cup {None}
  BY <1>1 DEF CheckedCall, Call
<1>4. Given(call[c].category, bills[call[c].id].category) \in Categories
  BY <1>2 DEF Given, Row, LedgerInv, LedgerTypeOK
<1>5. Given(call[c].amount, bills[call[c].id].amount) \in Amounts
  BY <1>1, <1>2 DEF Given, Row, Call
<1>6. Given(call[c].date, bills[call[c].id].date) \in Dates
  BY <1>2, <1>3 DEF Given, Row
<1> QED BY <1>4, <1>5, <1>6 DEF Changed, Row

LEMMA UpdateKeeps ==
  ASSUME LedgerInv, NEW c \in Clients, UpdateBill(c)
  PROVE  LedgerInv'
<1>1. PICK stage \in Results : Reach(c, stage)
  BY DEF UpdateBill, Results
<1>2. bills' \in [Ids -> Row \cup {NoBill}]
  BY ChangedIsRow DEF UpdateBill, LedgerInv, LedgerTypeOK
<1> QED BY <1>1, <1>2, ResultKeeps DEF UpdateBill, LedgerInv, LedgerTypeOK

LEMMA DeleteKeeps ==
  ASSUME LedgerInv, NEW c \in Clients, DeleteBill(c)
  PROVE  LedgerInv'
<1>1. PICK stage \in Results : Reach(c, stage)
  BY DEF DeleteBill, Results
<1>2. bills' \in [Ids -> Row \cup {NoBill}]
  BY DEF DeleteBill, LedgerInv, LedgerTypeOK
<1> QED BY <1>1, <1>2, ResultKeeps DEF DeleteBill, LedgerInv, LedgerTypeOK

LEMMA CategoriesKeep ==
  ASSUME LedgerInv, NEW c \in Clients, AddCategory(c) \/ DeleteCategory(c)
  PROVE  LedgerInv'
<1>1. PICK stage \in Results : Reach(c, stage)
  BY DEF AddCategory, DeleteCategory, Results
<1>2. call[c].category \in Categories
  BY DEF AddCategory, DeleteCategory, Running, LedgerInv, LedgerTypeOK, CheckedCall, Call
<1>3. categories' \subseteq Categories
  BY <1>2 DEF AddCategory, DeleteCategory, LedgerInv, LedgerTypeOK
<1>4. UNCHANGED <<bills, lastId>>
  BY DEF AddCategory, DeleteCategory
<1> QED BY <1>1, <1>3, <1>4, ResultKeeps DEF LedgerInv, LedgerTypeOK

(* A failing database, a result taken, a restart.                           *)
LEMMA QuietKeeps ==
  ASSUME LedgerInv, NEW c \in Clients, DatabaseFails(c) \/ Take(c) \/ Reopen(c)
  PROVE  LedgerInv'
<1>1. NoCall \in Call /\ CheckedCall(NoCall)
  BY LedgerAssumption DEF NoCall, Call, CheckedCall, Ops
<1>2. CASE DatabaseFails(c)
  BY <1>2, ResultKeeps DEF DatabaseFails, LedgerInv, LedgerTypeOK, tables, Results
<1>3. CASE Take(c)
  BY <1>1, <1>3, CallChanges DEF Take, LedgerInv, LedgerTypeOK, tables
<1>4. CASE Reopen(c)
  BY <1>1, <1>4, CallChanges, LedgerAssumption DEF Reopen, LedgerInv, LedgerTypeOK
<1> QED BY <1>2, <1>3, <1>4

LEMMA LedgerInvStep == LedgerInv /\ [LedgerNext]_ledgerVars => LedgerInv'
<1> SUFFICES ASSUME LedgerInv, [LedgerNext]_ledgerVars PROVE LedgerInv'
  OBVIOUS
<1>1. CASE UNCHANGED ledgerVars
  BY <1>1 DEF LedgerInv, LedgerTypeOK, CheckedCall, ledgerVars, tables
<1>2. ASSUME NEW c \in Clients,
             \/ \E a \in Requests : Start(c, a)
             \/ CategoryExists(c) \/ Statement(c) \/ DatabaseFails(c) \/ Take(c) \/ Reopen(c)
      PROVE  LedgerInv'
  <2>1. CASE \E a \in Requests : Start(c, a)
    BY <2>1, StartKeeps
  <2>2. CASE CategoryExists(c)
    BY <2>2, CategoryExistsKeeps
  <2>3. CASE Statement(c)
    BY <2>3, InsertKeeps, UpdateKeeps, DeleteKeeps, CategoriesKeep DEF Statement
  <2>4. CASE DatabaseFails(c) \/ Take(c) \/ Reopen(c)
    BY <2>4, QuietKeeps
  <2> QED BY <1>2, <2>1, <2>2, <2>3, <2>4
<1> QED BY <1>1, <1>2 DEF LedgerNext

(* Tables and calls keep their types in every behaviour of the ledger.      *)
THEOREM LedgerTypeCorrect == LedgerSpec => []LedgerTypeOK
<1>1. LedgerInv => LedgerTypeOK
  BY DEF LedgerInv
<1> QED BY <1>1, LedgerInvInit, LedgerInvStep, PTL DEF LedgerSpec
----------------------------------------------------------------------------
(* What a step of the ledger does to the tables.                            *)

\* One statement, described by the tables alone.
TablesStep ==
  \/ UNCHANGED tables
  \/ /\ categories' \subseteq Categories /\ UNCHANGED <<bills, lastId>>
     /\ \A i \in Ids : bills[i] # NoBill /\ bills[i].category \in categories =>
          bills[i].category \in categories'
  \/ \E row \in Row : /\ row.category \in categories
                      /\ lastId' = lastId + 1 /\ lastId' \in Ids
                      /\ bills' = [bills EXCEPT ![lastId + 1] = row]
                      /\ categories' = categories
  \/ \E i \in Ids, row \in Row :
       /\ bills[i] # NoBill
       /\ row.category \in categories \/ row.category = bills[i].category
       /\ bills' = [bills EXCEPT ![i] = row]
       /\ UNCHANGED <<categories, lastId>>
  \/ \E i \in Ids : bills' = [bills EXCEPT ![i] = NoBill] /\ UNCHANGED <<categories, lastId>>

LEMMA StatementIs ==
  ASSUME LedgerInv, NEW c \in Clients, Statement(c)
  PROVE  TablesStep
<1>1. CASE InsertBill(c)
  <2>1. CASE call[c].category \in categories
    BY <1>1, <2>1, InsertIs DEF TablesStep
  <2>2. CASE call[c].category \notin categories
    BY <1>1, <2>2 DEF InsertBill, TablesStep, tables
  <2> QED BY <2>1, <2>2
<1>2. CASE UpdateBill(c)
  <2>1. CASE UNCHANGED bills
    BY <1>2, <2>1 DEF UpdateBill, TablesStep, tables
  <2>2. CASE ~ UNCHANGED bills
    <3>1. PICK i, row : i = call[c].id /\ row = Changed(bills[call[c].id], call[c])
      OBVIOUS
    <3>2. /\ HasBill(i) /\ call[c].category \in categories \cup {None}
          /\ bills' = [bills EXCEPT ![i] = row]
          /\ UNCHANGED <<categories, lastId>> /\ Running(c, "update_bill")
      BY <1>2, <2>2, <3>1 DEF UpdateBill
    <3>3. row \in Row
      BY <3>1, <3>2, ChangedIsRow
    <3>4. row.category \in categories \/ row.category = bills[i].category
      BY <3>1, <3>2 DEF Changed, Given
    <3>5. i \in Ids /\ bills[i] # NoBill
      BY <3>2 DEF HasBill
    <3> QED BY <3>2, <3>3, <3>4, <3>5 DEF TablesStep
  <2> QED BY <2>1, <2>2
<1>3. CASE DeleteBill(c)
  <2>1. CASE call[c].id \in Ids
    BY <1>3, <2>1 DEF DeleteBill, TablesStep
  <2>2. CASE call[c].id \notin Ids
    BY <1>3, <2>2 DEF DeleteBill, TablesStep, tables, LedgerInv, LedgerTypeOK
  <2> QED BY <2>1, <2>2
<1>4. CASE AddCategory(c)
  <2>1. LedgerInv'
    BY <1>4, CategoriesKeep
  <2> QED BY <1>4, <2>1 DEF AddCategory, TablesStep, LedgerInv, LedgerTypeOK
<1>5. CASE DeleteCategory(c)
  <2>1. LedgerInv'
    BY <1>5, CategoriesKeep
  <2> QED BY <1>5, <2>1 DEF DeleteCategory, TablesStep, LedgerInv, LedgerTypeOK, InUse
<1> QED BY <1>1, <1>2, <1>3, <1>4, <1>5 DEF Statement

LEMMA LedgerStepIs ==
  ASSUME LedgerInv, [LedgerNext]_ledgerVars
  PROVE  TablesStep
<1>1. CASE UNCHANGED ledgerVars
  BY <1>1 DEF TablesStep, ledgerVars
<1>2. ASSUME NEW c \in Clients,
             \/ \E a \in Requests : Start(c, a)
             \/ CategoryExists(c) \/ Statement(c) \/ DatabaseFails(c) \/ Take(c) \/ Reopen(c)
      PROVE  TablesStep
  <2>1. CASE (\E a \in Requests : Start(c, a)) \/ CategoryExists(c) \/ DatabaseFails(c) \/ Take(c)
    BY <2>1 DEF TablesStep, Start, CategoryExists, DatabaseFails, Take
  <2>2. CASE Statement(c)
    BY <2>2, StatementIs
  <2>3. CASE Reopen(c)
    BY <2>3, LedgerAssumption DEF Reopen, TablesStep, LedgerInv, LedgerTypeOK
  <2> QED BY <1>2, <2>1, <2>2, <2>3
<1> QED BY <1>1, <1>2 DEF LedgerNext

----------------------------------------------------------------------------
(* The promises of the book.                                                *)

LEMMA CategoryStep ==
  ASSUME LedgerInv, EveryBillHasCategory, TablesStep
  PROVE  EveryBillHasCategory'
BY NoBillAssumption DEF TablesStep, EveryBillHasCategory, LedgerInv, LedgerTypeOK, tables

(* No interleaving of clients, and no failure of the database between the   *)
(* lookup and the statement, leaves a bill without its category.            *)
THEOREM EveryBillAlwaysHasCategory == LedgerSpec => []EveryBillHasCategory
<1>1. LedgerInit => LedgerInv /\ EveryBillHasCategory
  BY LedgerInvInit DEF LedgerInit, EveryBillHasCategory
<1>2. LedgerInv /\ EveryBillHasCategory /\ [LedgerNext]_ledgerVars
        => (LedgerInv /\ EveryBillHasCategory)'
  BY LedgerInvStep, LedgerStepIs, CategoryStep
<1> QED BY <1>1, <1>2, PTL DEF LedgerSpec

LEMMA TablesStepIsBookStep ==
  ASSUME LedgerInv, EveryBillHasCategory, EveryBillHasCategory', TablesStep
  PROVE  [Book!Next]_(Book!vars)
<1>1. CASE UNCHANGED tables
  BY <1>1 DEF Book!vars, tables
<1>2. CASE categories' \subseteq Categories /\ UNCHANGED <<bills, lastId>>
  BY <1>2 DEF Book!Next, Book!ChangeCategories, EveryBillHasCategory
<1>3. ASSUME NEW row \in Row, row.category \in categories,
             lastId' = lastId + 1, lastId' \in Ids,
             bills' = [bills EXCEPT ![lastId + 1] = row], categories' = categories
      PROVE  Book!Enter
  <2>1. lastId + 1 \in Ids \ (1 .. lastId)
    BY <1>3 DEF LedgerInv, LedgerTypeOK, Ids
  <2>2. 1 .. lastId' = (1 .. lastId) \cup {lastId + 1}
    BY <1>3 DEF LedgerInv, LedgerTypeOK
  <2> QED BY <1>3, <2>1, <2>2 DEF Book!Enter
<1>4. ASSUME NEW i \in Ids, NEW row \in Row, bills[i] # NoBill,
             row.category \in categories \/ row.category = bills[i].category,
             bills' = [bills EXCEPT ![i] = row], UNCHANGED <<categories, lastId>>
      PROVE  Book!Change
  BY <1>4 DEF Book!Change, EveryBillHasCategory
<1>5. ASSUME NEW i \in Ids, bills' = [bills EXCEPT ![i] = NoBill], UNCHANGED <<categories, lastId>>
      PROVE  Book!Remove
  BY <1>5 DEF Book!Remove
<1> QED BY <1>1, <1>2, <1>3, <1>4, <1>5 DEF TablesStep, Book!Next

(* The ledger implements the book: in particular an identifier is never     *)
(* given twice, whatever was deleted in between.                            *)
THEOREM LedgerImplementsBook == LedgerSpec => ImplementsBook
<1>1. LedgerInit => Book!Init
  BY LedgerAssumption DEF LedgerInit, Book!Init
<1>2. LedgerInit => LedgerInv /\ EveryBillHasCategory
  BY LedgerInvInit DEF LedgerInit, EveryBillHasCategory
<1>3. LedgerInv /\ EveryBillHasCategory /\ [LedgerNext]_ledgerVars
        => (LedgerInv /\ EveryBillHasCategory)'
  BY LedgerInvStep, LedgerStepIs, CategoryStep
<1>4. LedgerInv /\ EveryBillHasCategory /\ EveryBillHasCategory' /\ [LedgerNext]_ledgerVars
        => [Book!Next]_(Book!vars)
  BY LedgerStepIs, TablesStepIsBookStep
<1> QED BY <1>1, <1>2, <1>3, <1>4, PTL DEF LedgerSpec, ImplementsBook, Book!Spec
----------------------------------------------------------------------------
(* The agent is a client of the ledger.                                     *)

LEMMA AgentStepIsLedgerStep == [Next]_vars => [LedgerNext]_ledgerVars
<1> SUFFICES ASSUME [Next]_vars PROVE [LedgerNext]_ledgerVars
  OBVIOUS
<1>1. CASE UNCHANGED vars \/ Midnight \/ Quiet \/ \E kind \in Kinds : Receive(kind)
  BY <1>1 DEF vars, Midnight, Quiet, Receive
<1>2. CASE RecognizeText \/ CheckPrompt \/ SetSystemPrompt \/ Mark \/ DownloadImage \/ ClearHistory
           \/ Report \/ RecordUser \/ ModelAsk \/ Exhausted \/ CallReader \/ CallFails \/ RecordTools
           \/ RecordAnswer \/ SendAnswer \/ EndTurn
  BY <1>2 DEF RecognizeText, CheckPrompt, SetSystemPrompt, Mark, DownloadImage, ClearHistory, Report,
              RecordUser, ModelAsk, Exhausted, CallReader, CallFails, RecordTools, RecordAnswer,
              SendAnswer, EndTurn
<1>3. CASE Command \/ CallPytool
  BY <1>3, AgentAssumption DEF Command, CallPytool, LedgerNext
<1>4. CASE CommandDone \/ ToolResult \/ ToolRaises
  BY <1>4, AgentAssumption DEF CommandDone, ToolResult, ToolRaises, LedgerNext
<1>5. CASE AgentLedger
  BY <1>5, AgentAssumption DEF AgentLedger, LedgerNext
<1>6. CASE \E c \in Clients : OtherClient(c)
  BY <1>6 DEF OtherClient, LedgerNext
<1>7. CASE Die
  BY <1>7, AgentAssumption DEF Die, LedgerNext
<1> QED BY <1>1, <1>2, <1>3, <1>4, <1>5, <1>6, <1>7 DEF Next, Handle

(* Whatever turns, deaths and other clients do, the database is used as the *)
(* ledger says: every step of the agent is a step of BillManager or none.    *)
THEOREM AgentUsesLedger == Spec => LedgerSpec
<1>1. Init => LedgerInit
  BY DEF Init
<1> QED BY <1>1, AgentStepIsLedgerStep, PTL DEF Spec, LedgerSpec

(* So no turn, death or other client leaves a bill without its category.     *)
THEOREM AgentKeepsCategories == Spec => []EveryBillHasCategory
BY AgentUsesLedger, EveryBillAlwaysHasCategory, PTL

(* The agent's database implements the book.                                *)
THEOREM AgentImplementsBook == Spec => ImplementsBook
BY AgentUsesLedger, LedgerImplementsBook, PTL

----------------------------------------------------------------------------
(* Induction over the numbers.                                              *)

(* A set of numbers that is not empty has a least element.                  *)
LEMMA LeastElement ==
  ASSUME NEW T \in SUBSET Nat, T # {}
  PROVE  \E n \in T : \A m \in T : n <= m
<1>1. PICK R : R = {pair \in Nat \X Nat : pair[1] < pair[2]}
  OBVIOUS
<1>2. IsWellFoundedOn(R, Nat)
  BY <1>1, NatLessThanWellFounded DEF OpToRel
<1>3. PICK n \in T : \A m \in T : ~ (<<m, n>> \in R)
  BY <1>2, WFMin
<1>4. ASSUME NEW m \in T PROVE n <= m
  <2>1. n \in Nat /\ m \in Nat
    OBVIOUS
  <2>2. m < n => <<m, n>> \in R
    BY <1>1, <2>1
  <2> QED BY <1>3, <2>1, <2>2
<1> QED BY <1>4

(* A set with 0, and with the successor of each of its members, is Nat.     *)
LEMMA Induction ==
  ASSUME NEW T \in SUBSET Nat, 0 \in T, \A n \in T : n + 1 \in T
  PROVE  T = Nat
<1> SUFFICES ASSUME Nat \ T # {} PROVE FALSE
  OBVIOUS
<1>1. PICK n \in Nat \ T : \A m \in Nat \ T : n <= m
  BY LeastElement
<1>2. n - 1 \in Nat /\ ~(n <= n - 1) /\ n = (n - 1) + 1
  BY <1>1
<1> QED BY <1>1, <1>2

----------------------------------------------------------------------------
(* Sums over the ids.                                                       *)

\* f[n] is the sum of the first n numbers.
IsSum(f, c, n) == f = [i \in 0 .. n |-> IF i = 0 THEN 0 ELSE f[i - 1] + c[i]]

(* There is such a function, whatever the length.                           *)
LEMMA SumExists ==
  ASSUME NEW c, NEW n \in Nat
  PROVE  \E f : IsSum(f, c, n)
<1>1. PICK T : T = {m \in Nat : \E f : IsSum(f, c, m)}
  OBVIOUS
<1>2. 0 \in T
  <2>1. IsSum([i \in 0 .. 0 |-> 0], c, 0)
    BY DEF IsSum
  <2> QED BY <1>1, <2>1
<1>3. ASSUME NEW m \in T PROVE m + 1 \in T
  <2>1. PICK f : IsSum(f, c, m) /\ m \in Nat
    BY <1>1, <1>3
  <2>2. PICK g : g = [i \in 0 .. m + 1 |-> IF i = m + 1 THEN f[m] + c[i] ELSE f[i]]
    OBVIOUS
  <2>3. ASSUME NEW i \in 0 .. m + 1
        PROVE  g[i] = IF i = 0 THEN 0 ELSE g[i - 1] + c[i]
    <3>1. CASE i = m + 1
      BY <2>1, <2>2, <3>1 DEF IsSum
    <3>2. CASE i \in 0 .. m
      BY <2>1, <2>2, <3>2 DEF IsSum
    <3> QED BY <2>1, <3>1, <3>2
  <2>4. g = [i \in 0 .. m + 1 |-> IF i = 0 THEN 0 ELSE g[i - 1] + c[i]]
    BY <2>2, <2>3
  <2>5. IsSum(g, c, m + 1)
    BY <2>4 DEF IsSum
  <2> QED BY <1>1, <2>1, <2>5
<1> QED BY <1>1, <1>2, <1>3, Induction

(* SumOf is the last value of such a function.                              *)
LEMMA SumOfIsSum ==
  ASSUME NEW c
  PROVE  \E f : IsSum(f, c, MaxId) /\ SumOf(c) = f[MaxId]
<1>1. PICK f : f = CHOOSE g : IsSum(g, c, MaxId)
  OBVIOUS
<1>2. IsSum(f, c, MaxId)
  BY <1>1, SumExists, LedgerAssumption
<1>3. f = CHOOSE sum : sum = [n \in 0 .. MaxId |-> IF n = 0 THEN 0 ELSE sum[n - 1] + c[n]]
  BY <1>1 DEF IsSum
<1>4. SumOf(c) = f[MaxId]
  BY <1>3 DEF SumOf
<1> QED BY <1>2, <1>4

(* Its values are numbers.                                                  *)
LEMMA SumsAreNumbers ==
  ASSUME NEW c \in [Ids -> Nat], NEW f, IsSum(f, c, MaxId)
  PROVE  f[0] = 0 /\ \A i \in Ids : f[i - 1] \in Nat /\ f[i] \in Nat /\ f[i] = f[i - 1] + c[i]
<1>1. /\ f[0] = 0 /\ MaxId \in Nat
      /\ \A i \in Ids : f[i] = f[i - 1] + c[i]
  BY LedgerAssumption DEF IsSum, Ids
<1>2. PICK T : T = {n \in Nat : n <= MaxId => f[n] \in Nat}
  OBVIOUS
<1>3. 0 \in T
  BY <1>1, <1>2
<1>4. ASSUME NEW n \in T PROVE n + 1 \in T
  <2>1. CASE n + 1 <= MaxId
    <3>1. n \in Nat /\ n + 1 \in Ids /\ (n + 1) - 1 = n /\ f[n] \in Nat
      BY <1>1, <1>2, <2>1 DEF Ids
    <3>2. c[n + 1] \in Nat /\ f[n + 1] = f[n] + c[n + 1]
      BY <1>1, <3>1
    <3> QED BY <1>2, <3>1, <3>2
  <2> QED BY <1>2, <2>1
<1>5. T = Nat
  BY <1>2, <1>3, <1>4, Induction
<1>6. ASSUME NEW i \in Ids PROVE f[i - 1] \in Nat /\ f[i] \in Nat
  <2>1. i \in Nat /\ i - 1 \in Nat /\ i <= MaxId /\ i - 1 <= MaxId
    BY <1>1 DEF Ids
  <2> QED BY <1>2, <1>5, <2>1
<1> QED BY <1>1, <1>6

\* e differs from f at h only, where it is greater by d.
Raised(f, e, h, d) == \A i \in Ids : e[i] = f[i] + (IF i = h THEN d ELSE 0)

\* How a sum grows when a number of row h is raised by d.
Grows(old, new, h, S, d) == old \in Nat /\ new = old + (IF h \in S THEN d ELSE 0)

(* What is added to one number is added to the sum.                         *)
LEMMA RaisedSum ==
  ASSUME NEW f \in [Ids -> Nat], NEW e \in [Ids -> Nat], NEW h \in Ids, NEW d \in Nat,
         Raised(f, e, h, d)
  PROVE  SumOf(f) \in Nat /\ SumOf(e) = SumOf(f) + d
<1>1. PICK s : IsSum(s, f, MaxId) /\ SumOf(f) = s[MaxId]
  BY SumOfIsSum
<1>2. PICK t : IsSum(t, e, MaxId) /\ SumOf(e) = t[MaxId]
  BY SumOfIsSum
<1>3. s[0] = 0 /\ \A i \in Ids : s[i - 1] \in Nat /\ s[i] \in Nat /\ s[i] = s[i - 1] + f[i]
  BY <1>1, SumsAreNumbers
<1>4. t[0] = 0 /\ \A i \in Ids : t[i - 1] \in Nat /\ t[i] \in Nat /\ t[i] = t[i - 1] + e[i]
  BY <1>2, SumsAreNumbers
<1>5. PICK T : T = {n \in Nat : n <= MaxId => t[n] = s[n] + (IF h <= n THEN d ELSE 0)}
  OBVIOUS
<1>6. MaxId \in Nat /\ h \in Nat /\ 1 <= h /\ h <= MaxId /\ MaxId \in Ids
  BY LedgerAssumption DEF Ids
<1>7. 0 \in T
  BY <1>3, <1>4, <1>5, <1>6
<1>8. ASSUME NEW n \in T PROVE n + 1 \in T
  <2>1. CASE n + 1 <= MaxId
    <3>1. n \in Nat /\ n + 1 \in Ids /\ (n + 1) - 1 = n /\ n <= MaxId
      BY <1>5, <1>6, <2>1 DEF Ids
    <3>2. /\ s[n] \in Nat /\ s[n + 1] = s[n] + f[n + 1] /\ f[n + 1] \in Nat
          /\ t[n] \in Nat /\ t[n + 1] = t[n] + e[n + 1] /\ e[n + 1] \in Nat
      BY <1>3, <1>4, <3>1
    <3>3. t[n] = s[n] + (IF h <= n THEN d ELSE 0)
      BY <1>5, <3>1
    <3>4. e[n + 1] = f[n + 1] + (IF n + 1 = h THEN d ELSE 0)
      BY <3>1 DEF Raised
    <3>5. t[n + 1] = s[n + 1] + (IF h <= n + 1 THEN d ELSE 0)
      BY <1>6, <3>1, <3>2, <3>3, <3>4
    <3> QED BY <1>5, <3>1, <3>5
  <2> QED BY <1>5, <2>1
<1>9. T = Nat
  BY <1>5, <1>7, <1>8, Induction
<1>10. t[MaxId] = s[MaxId] + d
  BY <1>5, <1>6, <1>9
<1> QED BY <1>1, <1>2, <1>3, <1>6, <1>10

(* The sum of nothing.                                                      *)
LEMMA ZeroSum ==
  ASSUME NEW f \in [Ids -> Nat], \A i \in Ids : f[i] = 0
  PROVE  SumOf(f) = 0
<1>1. PICK s : IsSum(s, f, MaxId) /\ SumOf(f) = s[MaxId]
  BY SumOfIsSum
<1>2. s[0] = 0 /\ \A i \in Ids : s[i - 1] \in Nat /\ s[i] \in Nat /\ s[i] = s[i - 1] + f[i]
  BY <1>1, SumsAreNumbers
<1>3. PICK T : T = {n \in Nat : n <= MaxId => s[n] = 0}
  OBVIOUS
<1>4. MaxId \in Nat
  BY LedgerAssumption
<1>5. 0 \in T
  BY <1>2, <1>3
<1>6. ASSUME NEW n \in T PROVE n + 1 \in T
  <2>1. CASE n + 1 <= MaxId
    <3>1. n \in Nat /\ n + 1 \in Ids /\ (n + 1) - 1 = n /\ n <= MaxId
      BY <1>3, <1>4, <2>1 DEF Ids
    <3>2. s[n + 1] = s[n] + f[n + 1] /\ s[n] = 0 /\ f[n + 1] = 0
      BY <1>2, <1>3, <3>1
    <3> QED BY <1>3, <3>1, <3>2
  <2> QED BY <1>3, <2>1
<1>7. T = Nat
  BY <1>3, <1>5, <1>6, Induction
<1> QED BY <1>1, <1>3, <1>4, <1>7

----------------------------------------------------------------------------
(* Totals of groups.                                                        *)

\* The numbers of the rows in S.
Part(S, w) == [i \in Ids |-> IF i \in S THEN w[i] ELSE 0]

Group(rows, key, i) == {j \in rows : key[j] = key[i]}
Firsts(rows, key)   == {i \in rows : \A j \in Group(rows, key, i) : i <= j}

\* At the first row of each group, its total.
GroupTotals(rows, key, w) ==
  [i \in Ids |-> IF i \in Firsts(rows, key) THEN SumOf(Part(Group(rows, key, i), w)) ELSE 0]

(* A part has numbers, and is raised where the numbers are.                 *)
LEMMA PartRaised ==
  ASSUME NEW S \in SUBSET Ids, NEW w \in [Ids -> Nat], NEW v \in [Ids -> Nat],
         NEW h \in Ids, NEW d \in Nat, Raised(w, v, h, d)
  PROVE  Grows(SumOf(Part(S, w)), SumOf(Part(S, v)), h, S, d)
<1>1. Part(S, w) \in [Ids -> Nat] /\ Part(S, v) \in [Ids -> Nat]
  BY DEF Part
<1>2. Raised(Part(S, w), Part(S, v), h, IF h \in S THEN d ELSE 0)
  <2> SUFFICES ASSUME NEW i \in Ids
               PROVE  Part(S, v)[i] = Part(S, w)[i]
                                      + (IF i = h THEN (IF h \in S THEN d ELSE 0) ELSE 0)
    BY DEF Raised
  <2>1. v[i] = w[i] + (IF i = h THEN d ELSE 0) /\ w[i] \in Nat
    BY DEF Raised
  <2>2. /\ Part(S, w)[i] = IF i \in S THEN w[i] ELSE 0
        /\ Part(S, v)[i] = IF i \in S THEN v[i] ELSE 0
    BY DEF Part
  <2> QED BY <2>1, <2>2
<1>3. (IF h \in S THEN d ELSE 0) \in Nat
  OBVIOUS
<1> QED BY <1>1, <1>2, <1>3, RaisedSum DEF Grows

(* Every row has the first row of its group.                                *)
LEMMA GroupHasFirst ==
  ASSUME NEW rows \in SUBSET Ids, NEW key, NEW h \in rows
  PROVE  \E a \in Firsts(rows, key) :
           \A i \in Firsts(rows, key) : h \in Group(rows, key, i) <=> i = a
<1>1. Group(rows, key, h) \in SUBSET Nat /\ h \in Group(rows, key, h)
  <2>1. \A i \in rows : i \in Nat
    BY LedgerAssumption DEF Ids
  <2> QED BY <2>1 DEF Group
<1>2. PICK a \in Group(rows, key, h) : \A j \in Group(rows, key, h) : a <= j
  BY <1>1, LeastElement
<1>3. a \in rows /\ key[a] = key[h] /\ Group(rows, key, a) = Group(rows, key, h)
  BY <1>2 DEF Group
<1>4. a \in Firsts(rows, key) /\ h \in Group(rows, key, a)
  BY <1>1, <1>2, <1>3 DEF Firsts
<1>5. ASSUME NEW i \in Firsts(rows, key), h \in Group(rows, key, i) PROVE i = a
  <2>1. i \in rows /\ key[i] = key[h] /\ \A j \in Group(rows, key, i) : i <= j
    BY <1>5 DEF Firsts, Group
  <2>2. Group(rows, key, i) = Group(rows, key, h) /\ i \in Group(rows, key, h)
    BY <2>1 DEF Group
  <2>3. i <= a /\ a <= i /\ i \in Nat /\ a \in Nat
    BY <1>1, <1>2, <2>1, <2>2
  <2> QED BY <2>3
<1> QED BY <1>4, <1>5

(* The totals of the groups grow with the numbers of the rows.              *)
LEMMA GroupsRaised ==
  ASSUME NEW rows \in SUBSET Ids, NEW key, NEW w \in [Ids -> Nat], NEW v \in [Ids -> Nat],
         NEW h \in Ids, NEW d \in Nat, Raised(w, v, h, d)
  PROVE  Grows(SumOf(GroupTotals(rows, key, w)), SumOf(GroupTotals(rows, key, v)), h, rows, d)
<1>1. ASSUME NEW i \in Ids
      PROVE  /\ SumOf(Part(Group(rows, key, i), w)) \in Nat
             /\ SumOf(Part(Group(rows, key, i), v)) \in Nat
             /\ SumOf(Part(Group(rows, key, i), v)) = SumOf(Part(Group(rows, key, i), w))
                  + (IF h \in Group(rows, key, i) THEN d ELSE 0)
  <2>1. Group(rows, key, i) \in SUBSET Ids
    BY DEF Group
  <2>2. Grows(SumOf(Part(Group(rows, key, i), w)), SumOf(Part(Group(rows, key, i), v)),
              h, Group(rows, key, i), d)
    BY <2>1, PartRaised
  <2> QED BY <2>2 DEF Grows
<1>2. /\ GroupTotals(rows, key, w) \in [Ids -> Nat]
      /\ GroupTotals(rows, key, v) \in [Ids -> Nat]
  BY <1>1 DEF GroupTotals
<1>3. Group(rows, key, h) \subseteq rows /\ Firsts(rows, key) \subseteq Ids
  BY DEF Group, Firsts
<1>4. \A i : Group(rows, key, i) \subseteq rows
  BY DEF Group
<1>5. CASE h \in rows
  <2>1. PICK a \in Firsts(rows, key) :
          \A i \in Firsts(rows, key) : h \in Group(rows, key, i) <=> i = a
    BY <1>5, GroupHasFirst
  <2>2. Raised(GroupTotals(rows, key, w), GroupTotals(rows, key, v), a, d)
    <3> SUFFICES ASSUME NEW i \in Ids
                 PROVE  GroupTotals(rows, key, v)[i]
                          = GroupTotals(rows, key, w)[i] + (IF i = a THEN d ELSE 0)
      BY DEF Raised
    <3>1. CASE i \in Firsts(rows, key)
      BY <1>1, <2>1, <3>1 DEF GroupTotals
    <3>2. CASE i \notin Firsts(rows, key)
      BY <2>1, <3>2 DEF GroupTotals
    <3> QED BY <3>1, <3>2
  <2>3. a \in Ids
    BY <1>3, <2>1
  <2> QED BY <1>2, <1>5, <2>2, <2>3, RaisedSum DEF Grows
<1>6. CASE h \notin rows
  <2>1. Raised(GroupTotals(rows, key, w), GroupTotals(rows, key, v), h, 0)
    <3> SUFFICES ASSUME NEW i \in Ids
                 PROVE  GroupTotals(rows, key, v)[i]
                          = GroupTotals(rows, key, w)[i] + (IF i = h THEN 0 ELSE 0)
      BY DEF Raised
    <3>1. h \notin Group(rows, key, i)
      BY <1>4, <1>6
    <3>2. SumOf(Part(Group(rows, key, i), v)) = SumOf(Part(Group(rows, key, i), w))
      BY <1>1, <3>1
    <3>3. GroupTotals(rows, key, v)[i] = GroupTotals(rows, key, w)[i]
      BY <3>2 DEF GroupTotals
    <3> QED BY <1>2, <3>3
  <2> QED BY <1>2, <1>6, <2>1, RaisedSum DEF Grows
<1> QED BY <1>5, <1>6

\* No number beyond the first n rows.
Until(w, n) == \A i \in Ids : i > n => w[i] = 0

(* The totals of the groups are together the total of the rows.             *)
LEMMA GroupsAddUp ==
  ASSUME NEW rows \in SUBSET Ids, NEW key, NEW w \in [Ids -> Nat]
  PROVE  SumOf(GroupTotals(rows, key, w)) = SumOf(Part(rows, w))
<1>1. PICK T : T = {n \in Nat : \A v \in [Ids -> Nat] : Until(v, n) =>
                     SumOf(GroupTotals(rows, key, v)) = SumOf(Part(rows, v))}
  OBVIOUS
<1>2. 0 \in T
  <2> SUFFICES ASSUME NEW v \in [Ids -> Nat], Until(v, 0)
               PROVE  SumOf(GroupTotals(rows, key, v)) = SumOf(Part(rows, v))
    BY <1>1
  <2>1. \A i \in Ids : v[i] = 0
    BY LedgerAssumption DEF Until, Ids
  <2>2. ASSUME NEW S \in SUBSET Ids PROVE SumOf(Part(S, v)) = 0
    <3>1. Part(S, v) \in [Ids -> Nat] /\ \A i \in Ids : Part(S, v)[i] = 0
      BY <2>1 DEF Part
    <3> QED BY <3>1, ZeroSum
  <2>3. ASSUME NEW i \in Ids PROVE GroupTotals(rows, key, v)[i] = 0
    <3>1. Group(rows, key, i) \in SUBSET Ids
      BY DEF Group
    <3>2. SumOf(Part(Group(rows, key, i), v)) = 0
      BY <2>2, <3>1
    <3> QED BY <3>2 DEF GroupTotals
  <2>4. GroupTotals(rows, key, v) = [i \in Ids |-> GroupTotals(rows, key, v)[i]]
    BY DEF GroupTotals
  <2>5. GroupTotals(rows, key, v) \in [Ids -> Nat]
    BY <2>3, <2>4
  <2>6. SumOf(GroupTotals(rows, key, v)) = 0
    BY <2>3, <2>5, ZeroSum
  <2> QED BY <2>2, <2>6
<1>3. ASSUME NEW n \in Nat, n \in T PROVE n + 1 \in T
  <2> SUFFICES ASSUME NEW v \in [Ids -> Nat], Until(v, n + 1)
               PROVE  SumOf(GroupTotals(rows, key, v)) = SumOf(Part(rows, v))
    BY <1>1
  <2>1. CASE n + 1 \in Ids
    <3>1. PICK u : u = [v EXCEPT ![n + 1] = 0]
      OBVIOUS
    <3>2. u \in [Ids -> Nat] /\ Until(u, n)
      BY <1>3, <2>1, <3>1, LedgerAssumption DEF Until, Ids
    <3>3. PICK d \in Nat : d = v[n + 1]
      BY <2>1
    <3>4. Raised(u, v, n + 1, d)
      BY <2>1, <3>1, <3>3 DEF Raised
    <3>5. SumOf(GroupTotals(rows, key, u)) = SumOf(Part(rows, u))
      BY <1>1, <1>3, <3>2
    <3>6. Grows(SumOf(GroupTotals(rows, key, u)), SumOf(GroupTotals(rows, key, v)),
                n + 1, rows, d)
      BY <2>1, <3>2, <3>4, GroupsRaised
    <3>7. Grows(SumOf(Part(rows, u)), SumOf(Part(rows, v)), n + 1, rows, d)
      BY <2>1, <3>2, <3>4, PartRaised
    <3> QED BY <3>5, <3>6, <3>7 DEF Grows
  <2>2. CASE n + 1 \notin Ids
    <3>1. Until(v, n)
      BY <2>2, LedgerAssumption DEF Until, Ids
    <3> QED BY <1>1, <1>3, <3>1
  <2> QED BY <2>1, <2>2
<1>4. \A n \in T : n + 1 \in T
  BY <1>1, <1>3
<1>5. T = Nat
  BY <1>1, <1>2, <1>4, Induction
<1>6. Until(w, MaxId) /\ MaxId \in T
  BY <1>5, LedgerAssumption DEF Until, Ids
<1> QED BY <1>1, <1>6

----------------------------------------------------------------------------
(* Numbers of rows.                                                         *)

Ones == [i \in Ids |-> 1]

(* A number of rows is a sum of ones.                                       *)
LEMMA CountIsSum ==
  ASSUME NEW S \in SUBSET Ids
  PROVE  Cardinality(S) = SumOf(Part(S, Ones))
<1>1. PICK T : T = {n \in Nat : \A R \in SUBSET Ids : R \subseteq 1 .. n =>
                     IsFiniteSet(R) /\ Cardinality(R) = SumOf(Part(R, Ones))}
  OBVIOUS
<1>2. \A R \in SUBSET Ids : Part(R, Ones) \in [Ids -> Nat]
  BY DEF Part, Ones
<1>3. 0 \in T
  <2> SUFFICES ASSUME NEW R \in SUBSET Ids, R \subseteq 1 .. 0
               PROVE  IsFiniteSet(R) /\ Cardinality(R) = SumOf(Part(R, Ones))
    BY <1>1
  <2>1. R = {}
    OBVIOUS
  <2>2. \A i \in Ids : Part(R, Ones)[i] = 0
    BY <2>1 DEF Part
  <2>3. SumOf(Part(R, Ones)) = 0
    BY <1>2, <2>2, ZeroSum
  <2> QED BY <2>1, <2>3, FS_EmptySet
<1>4. ASSUME NEW n \in Nat, n \in T PROVE n + 1 \in T
  <2> SUFFICES ASSUME NEW R \in SUBSET Ids, R \subseteq 1 .. n + 1
               PROVE  IsFiniteSet(R) /\ Cardinality(R) = SumOf(Part(R, Ones))
    BY <1>1
  <2>1. PICK Q : Q = R \ {n + 1}
    OBVIOUS
  <2>2. Q \in SUBSET Ids /\ Q \subseteq 1 .. n /\ n + 1 \notin Q
    BY <2>1
  <2>3. IsFiniteSet(Q) /\ Cardinality(Q) = SumOf(Part(Q, Ones))
    BY <1>1, <1>4, <2>2
  <2>4. CASE n + 1 \in R
    <3>1. R = Q \cup {n + 1} /\ n + 1 \in Ids
      BY <2>1, <2>4
    <3>2. Raised(Part(Q, Ones), Part(R, Ones), n + 1, 1)
      BY <2>2, <3>1 DEF Raised, Part, Ones
    <3>3. SumOf(Part(R, Ones)) = SumOf(Part(Q, Ones)) + 1
      BY <1>2, <2>2, <3>1, <3>2, RaisedSum
    <3>4. IsFiniteSet(R) /\ Cardinality(R) = Cardinality(Q) + 1
      BY <2>2, <2>3, <3>1, FS_AddElement
    <3> QED BY <2>3, <3>3, <3>4
  <2>5. CASE n + 1 \notin R
    <3>1. R = Q
      BY <2>1, <2>5
    <3> QED BY <2>3, <3>1
  <2> QED BY <2>4, <2>5
<1>5. \A n \in T : n + 1 \in T
  BY <1>1, <1>4
<1>6. T = Nat
  BY <1>1, <1>3, <1>5, Induction
<1>7. MaxId \in T /\ S \subseteq 1 .. MaxId
  BY <1>6, LedgerAssumption DEF Ids
<1> QED BY <1>1, <1>7

----------------------------------------------------------------------------
(* The statistics.                                                          *)

(* Grouping loses no bill and counts none twice.                            *)
LEMMA GroupedIsTotal ==
  ASSUME bills \in [Ids -> Row \cup {NoBill}],
         NEW rows \in SUBSET Ids, \A i \in rows : bills[i] # NoBill
  PROVE  Grouped(rows) = [sum |-> Total(rows), count |-> Cardinality(rows)]
<1>1. PICK w : w = [i \in Ids |-> IF i \in rows THEN bills[i].amount ELSE 0]
  OBVIOUS
<1>2. w \in [Ids -> Nat]
  <2>1. \A i \in rows : bills[i].amount \in Nat
    BY LedgerAssumption DEF Row
  <2> QED BY <1>1, <2>1
<1>3. PICK key : key = [i \in Ids |-> bills[i].category]
  OBVIOUS
<1>4. \A i \in rows : Group(rows, key, i) = {j \in rows : bills[j].category = bills[i].category}
  BY <1>3 DEF Group
<1>5. Firsts(rows, key)
        = {i \in rows : \A j \in {k \in rows : bills[k].category = bills[i].category} : i <= j}
  BY <1>4 DEF Firsts
<1>6. ASSUME NEW S \in SUBSET rows
      PROVE  Total(S) = SumOf(Part(S, w)) /\ Cardinality(S) = SumOf(Part(S, Ones))
  <2>1. Part(S, w) = [i \in Ids |-> IF i \in S THEN bills[i].amount ELSE 0]
    BY <1>1 DEF Part
  <2> QED BY <2>1, CountIsSum DEF Total
<1>7. /\ GroupTotals(rows, key, w)
           = [i \in Ids |-> IF i \in Firsts(rows, key) THEN Total(Group(rows, key, i)) ELSE 0]
      /\ GroupTotals(rows, key, Ones)
           = [i \in Ids |-> IF i \in Firsts(rows, key) THEN Cardinality(Group(rows, key, i)) ELSE 0]
  <2>1. \A i : Group(rows, key, i) \in SUBSET rows
    BY DEF Group
  <2> QED BY <1>6, <2>1 DEF GroupTotals
<1>8. Grouped(rows) = [sum |-> SumOf(GroupTotals(rows, key, w)),
                       count |-> SumOf(GroupTotals(rows, key, Ones))]
  BY <1>4, <1>5, <1>7 DEF Grouped, Firsts
<1>9. Ones \in [Ids -> Nat]
  BY DEF Ones
<1>10. /\ SumOf(GroupTotals(rows, key, w)) = Total(rows)
       /\ SumOf(GroupTotals(rows, key, Ones)) = Cardinality(rows)
  BY <1>2, <1>6, <1>9, GroupsAddUp
<1> QED BY <1>8, <1>10

(* query_bills and get_statistics agree for every filter, on any database:  *)
(* the two WHERE clauses choose the same rows, and the groups hold each once.*)
LEMMA StatisticsAreOfQuery ==
  ASSUME bills \in [Ids -> Row \cup {NoBill}]
  PROVE  StatisticsAgreeWithQuery
<1> SUFFICES ASSUME NEW f \in Filters
             PROVE  GetStatistics(f) = [sum |-> Total(QueryBills(f)),
                                        count |-> Cardinality(QueryBills(f))]
  BY DEF StatisticsAgreeWithQuery
<1>1. QueryBills(f) \in SUBSET Ids /\ \A i \in QueryBills(f) : bills[i] # NoBill
  BY DEF QueryBills
<1>2. GetStatistics(f) = Grouped(QueryBills(f))
  BY DEF GetStatistics, QueryBills, Counted, Matches
<1> QED BY <1>1, <1>2, GroupedIsTotal

(* In every state the statistics of the ledger are those of the bills the   *)
(* query with the same filter returns, for all filters, ids and amounts.    *)
THEOREM LedgerStatisticsAgree == LedgerSpec => []StatisticsAgreeWithQuery
<1>1. LedgerTypeOK => StatisticsAgreeWithQuery
  BY StatisticsAreOfQuery DEF LedgerTypeOK
<1> QED BY <1>1, LedgerTypeCorrect, PTL

(* So they are under any turns, deaths and other clients.                   *)
THEOREM AgentStatisticsAgree == Spec => []StatisticsAgreeWithQuery
BY AgentUsesLedger, LedgerStatisticsAgree, PTL

----------------------------------------------------------------------------
(* The turns of the agent.                                                  *)

\* Replies, the accounting of changes, and how far the calls of a round are.
TurnInv ==
  /\ turn.replies = IF turn.stage = "over" THEN 1 ELSE 0
  /\ turn.stage \notin {"calls", "calling"} \/ turn.kind = "command" => turn.open = 0
  /\ turn.stage \in {"ocr", "ask", "calls", "answer", "send"} => turn.kind # "command"
  /\ turn.stage = "calls" =>
       turn.open <= turn.got /\ turn.got <= turn.want /\ turn.rounds < MaxRound
  /\ turn.stage = "calling" /\ turn.kind # "command" =>
       turn.open <= turn.got /\ turn.got < turn.want /\ turn.rounds < MaxRound

(* Two ways a turn moves on.                                                *)
LEMMA GotoMoves ==
  ASSUME turn \in Turn, NEW s \in Stages, Goto(s)
  PROVE  /\ turn' \in Turn
         /\ turn'.stage = s /\ turn'.replies = turn.replies /\ turn'.kind = turn.kind
         /\ turn'.rounds = turn.rounds /\ turn'.want = turn.want /\ turn'.got = turn.got
         /\ turn'.open = turn.open /\ turn'.seen = turn.seen /\ turn'.check = turn.check
BY DEF Goto, Turn

LEMMA ReplyMoves ==
  ASSUME turn \in Turn, turn.replies = 0, Reply
  PROVE  /\ turn' \in Turn
         /\ turn'.stage = "over" /\ turn'.replies = 1 /\ turn'.open = turn.open
         /\ turn'.seen = turn.seen /\ turn'.check = turn.check
<1>1. turn' = [turn EXCEPT !.stage = "over", !.replies = 1]
  BY DEF Reply, Turn
<1>2. "over" \in Stages /\ 1 \in 0 .. 2
  BY DEF Stages
<1> QED BY <1>1, <1>2 DEF Turn

LEMMA TurnKeeps ==
  ASSUME turn \in Turn, TurnInv, today \in 1 .. MaxDay, [Next]_vars
  PROVE  turn' \in Turn /\ TurnInv'
<1>c. /\ MaxRound \in Nat /\ MaxCalls \in Nat /\ MaxDay \in Nat
      /\ 0 \in 0 .. MaxCalls /\ 0 \in 0 .. MaxDay /\ 0 \in 0 .. MaxRound /\ today \in 0 .. MaxDay
  BY AgentAssumption
<1>a. \A s \in {"idle", "prompt", "writing", "marking", "dispatch", "ocr", "ask", "calls",
                "calling", "answer", "send", "over"} : s \in Stages
  BY DEF Stages
<1>b. turn.stage # "over" => turn.replies = 0
  BY DEF TurnInv
<1>1. CASE UNCHANGED turn
  BY <1>1 DEF TurnInv
<1>2. ASSUME NEW kind \in Kinds, Receive(kind) PROVE turn' \in Turn /\ TurnInv'
  <2>1. turn' = [stage |-> "prompt", kind |-> kind, seen |-> today, check |-> 0, rounds |-> 0,
                 want |-> 0, got |-> 0, open |-> 0, replies |-> 0]
    BY <1>2 DEF Receive, NoTurn
  <2>2. turn' \in Turn /\ turn'.stage = "prompt" /\ turn'.replies = 0 /\ turn'.open = 0
    BY <2>1, <1>2, <1>a, <1>c DEF Turn
  <2> QED BY <2>2 DEF TurnInv
\* A step that replies from a stage without changes to account for.
<1>3. ASSUME turn.stage # "over", turn.open = 0, Reply PROVE turn' \in Turn /\ TurnInv'
  BY <1>3, <1>b, ReplyMoves DEF TurnInv
\* A step to a stage that asks nothing of the calls.
<1>4. ASSUME NEW s \in {"marking", "dispatch", "ocr", "ask", "answer", "send"}, Goto(s),
             turn.stage # "over", turn.open = 0,
             s \in {"ocr", "ask", "answer", "send"} => turn.kind # "command"
      PROVE  turn' \in Turn /\ TurnInv'
  <2>1. turn'.open = 0 /\ turn'.replies = 0 /\ turn'.stage = s /\ turn'.kind = turn.kind /\ turn' \in Turn
    BY <1>4, <1>a, <1>b, GotoMoves
  <2> QED BY <2>1, <1>4 DEF TurnInv
<1>5. CASE CheckPrompt
  <2>1. CASE markers.injected /\ markers.day = today
    BY <1>5, <2>1, <1>4 DEF CheckPrompt, At, TurnInv, Goto
  <2>2. CASE ~ (markers.injected /\ markers.day = today)
    <3>1. PICK d \in 0 .. MaxDay : turn' = [turn EXCEPT !.stage = "writing", !.check = d]
      BY <1>5, <2>2, <1>c DEF CheckPrompt
    <3>2. turn' \in Turn /\ turn'.stage = "writing" /\ turn'.replies = turn.replies
          /\ turn'.open = turn.open
      BY <3>1, <1>a DEF Turn
    <3> QED BY <1>5, <3>2 DEF CheckPrompt, At, TurnInv
  <2> QED BY <2>1, <2>2
<1>6. CASE SetSystemPrompt \/ Mark
  BY <1>4, <1>6 DEF SetSystemPrompt, Mark, At, TurnInv
<1>7. CASE DownloadImage
  BY <1>3, <1>4, <1>7 DEF DownloadImage, At, TurnInv
<1>8. CASE RecognizeText
  BY <1>3, <1>4, <1>8 DEF RecognizeText, At, TurnInv
<1>9. CASE ClearHistory \/ Report \/ Exhausted \/ SendAnswer
  BY <1>3, <1>9 DEF ClearHistory, Report, Exhausted, SendAnswer, At, TurnInv
<1>10. CASE CommandDone
  BY <1>3, <1>10 DEF CommandDone, At, TurnInv
<1>11. CASE RecordUser \/ RecordAnswer
  BY <1>4, <1>11 DEF RecordUser, RecordAnswer, At, TurnInv
<1>12. CASE Command \/ CallPytool
  <2>1. Goto("calling") /\ turn.stage \in {"dispatch", "calls"}
    BY <1>12 DEF Command, CallPytool, At
  <2>2. /\ turn' \in Turn /\ turn'.stage = "calling" /\ turn'.replies = turn.replies
        /\ turn'.kind = turn.kind /\ turn'.rounds = turn.rounds
        /\ turn'.want = turn.want /\ turn'.got = turn.got /\ turn'.open = turn.open
    BY <2>1, <1>a, GotoMoves
  <2>3. CASE Command
    BY <2>2, <2>3 DEF Command, At, TurnInv
  <2>4. CASE CallPytool
    BY <2>2, <2>4 DEF CallPytool, At, TurnInv
  <2> QED BY <1>12, <2>3, <2>4
<1>13. CASE ModelAsk
  <2>1. ASSUME NEW n \in 1 .. MaxCalls, turn' = [turn EXCEPT !.stage = "calls", !.want = n, !.got = 0]
        PROVE  turn' \in Turn /\ TurnInv'
    <3>0. n \in 0 .. MaxCalls
      BY <1>c
    <3>1. turn' \in Turn /\ turn'.stage = "calls" /\ turn'.replies = turn.replies
          /\ turn'.kind = turn.kind /\ turn'.rounds = turn.rounds
          /\ turn'.want = n /\ turn'.got = 0 /\ turn'.open = turn.open
      BY <2>1, <3>0, <1>a, <1>c DEF Turn
    <3>2. turn.stage = "ask" /\ turn.rounds < MaxRound
      BY <1>13 DEF ModelAsk, At
    <3>3. n \in Nat /\ 0 <= n
      BY <3>0, <1>c
    <3>4. turn.open = 0 /\ turn.kind # "command" /\ turn.replies = 0
      BY <1>b, <3>2 DEF TurnInv
    <3> QED BY <3>1, <3>2, <3>3, <3>4 DEF TurnInv
  <2> QED BY <1>3, <1>4, <1>13, <2>1 DEF ModelAsk, At, TurnInv
<1>14. ASSUME turn.stage # "over",
              turn' = [turn EXCEPT !.stage = "over", !.replies = @ + 1, !.open = 0]
       PROVE  turn' \in Turn /\ TurnInv'
  <2>0. turn.replies + 1 = 1 /\ 1 \in 0 .. 2
    BY <1>14, <1>b
  <2>1. turn' = [turn EXCEPT !.stage = "over", !.replies = 1, !.open = 0]
    BY <1>14, <2>0
  <2>2. turn' \in Turn /\ turn'.stage = "over" /\ turn'.replies = 1 /\ turn'.open = 0
    BY <2>0, <2>1, <1>a, <1>c DEF Turn
  <2> QED BY <2>2 DEF TurnInv
<1>15. CASE CallReader
  <2>1. ASSUME turn' = [turn EXCEPT !.got = @ + 1] PROVE turn' \in Turn /\ TurnInv'
    <3>1. turn.got \in 0 .. MaxCalls /\ turn.want \in 0 .. MaxCalls /\ turn.got < turn.want
      BY <1>15 DEF CallReader, Turn
    <3>2. turn.got + 1 \in 0 .. MaxCalls
      BY <3>1, <1>c
    <3>3. turn' \in Turn /\ turn'.stage = turn.stage /\ turn'.replies = turn.replies
          /\ turn'.kind = turn.kind /\ turn'.rounds = turn.rounds
          /\ turn'.want = turn.want /\ turn'.got = turn.got + 1 /\ turn'.open = turn.open
      BY <2>1, <3>2 DEF Turn
    <3>4. turn.open \in 0 .. MaxCalls
      BY DEF Turn
    <3> QED BY <1>15, <3>1, <3>3, <3>4 DEF CallReader, At, TurnInv
  <2> QED BY <1>15, <2>1 DEF CallReader
<1>29. CASE CallFails
  BY <1>14, <1>29 DEF CallFails, At
<1>16. CASE ToolResult
  <2>1. Succeeded \in {0, 1}
    BY DEF Succeeded
  <2>2. /\ turn.got \in 0 .. MaxCalls /\ turn.want \in 0 .. MaxCalls /\ turn.open \in 0 .. MaxCalls
        /\ turn.open <= turn.got /\ turn.got < turn.want /\ turn.rounds < MaxRound
        /\ turn.kind # "command" /\ turn.replies = 0
    BY <1>16, <1>b DEF ToolResult, At, TurnInv, Turn
  <2>3. PICK g, o : g = turn.got + 1 /\ o = turn.open + Succeeded
    OBVIOUS
  <2>4. g \in 0 .. MaxCalls /\ o \in 0 .. MaxCalls /\ o <= g /\ g <= turn.want
    BY <2>1, <2>2, <2>3, <1>c
  <2>5. turn' = [turn EXCEPT !.stage = "calls", !.got = g, !.open = o]
    BY <1>16, <2>3 DEF ToolResult, Turn
  <2>6. turn' \in Turn /\ turn'.stage = "calls" /\ turn'.replies = turn.replies
        /\ turn'.kind = turn.kind /\ turn'.rounds = turn.rounds
        /\ turn'.want = turn.want /\ turn'.got = g /\ turn'.open = o
    BY <2>4, <2>5, <1>a DEF Turn
  <2> QED BY <2>2, <2>4, <2>6 DEF TurnInv
<1>17. CASE ToolRaises
  BY <1>14, <1>17 DEF ToolRaises, At
<1>18. CASE RecordTools
  <2>1. turn.rounds \in 0 .. MaxRound /\ turn.rounds < MaxRound /\ turn.kind # "command"
    BY <1>18 DEF RecordTools, At, TurnInv, Turn
  <2>2. turn.rounds + 1 \in 0 .. MaxRound
    BY <2>1, <1>c
  <2>3. turn' \in Turn /\ turn'.stage = "ask" /\ turn'.replies = turn.replies
        /\ turn'.kind = turn.kind /\ turn'.open = 0
    BY <1>18, <2>2, <1>a, <1>c DEF RecordTools, Turn
  <2> QED BY <1>18, <2>1, <2>3 DEF RecordTools, At, TurnInv
<1>19. CASE EndTurn \/ Die
  BY <1>19, <1>c DEF EndTurn, Die, NoTurn, Turn, TurnInv, Stages, Kinds
<1>20. CASE AgentLedger \/ Midnight \/ Quiet \/ (\E c \in Clients : OtherClient(c)) \/ UNCHANGED vars
  BY <1>1, <1>20 DEF AgentLedger, Midnight, Quiet, OtherClient, vars, agentVars
<1> QED BY <1>2, <1>5, <1>6, <1>7, <1>8, <1>9, <1>10, <1>11, <1>12, <1>13, <1>15, <1>29, <1>16, <1>17,
           <1>18, <1>19, <1>20 DEF Next, Handle
----------------------------------------------------------------------------
(* The memory and the prompt.                                               *)

\* The marker of the session tells how old the prompt is, and the prompt of a
\* turn that has passed the check is at least as new as its text.
PromptInv ==
  /\ turn.stage # "idle" => turn.seen \in 1 .. today
  /\ markers.day <= today
  /\ turn.check <= today
  /\ markers.injected =>
       stored.prompt # 0 /\ (stored.prompt >= markers.day \/ markers.slipped)
  /\ turn.stage = "writing" /\ markers.injected => markers.day <= turn.seen
  /\ turn.stage = "prompt" /\ markers.injected => markers.day <= turn.seen
  /\ turn.stage = "marking" => stored.prompt = turn.seen
  /\ turn.stage \in {"dispatch", "ocr", "ask", "calls", "calling", "answer", "send"} =>
       stored.prompt # 0 /\ (stored.prompt >= turn.seen \/ markers.slipped)

\* Where the prompt has been checked.
Asking == {"dispatch", "ocr", "ask", "calls", "calling", "answer", "send"}

(* A step from a stage after the check, which leaves the prompt alone.      *)
LEMMA PromptStays ==
  ASSUME PromptInv, turn.stage \in Asking \cup {"over"}, turn'.stage \in Asking \cup {"over"},
         turn.stage = "over" => turn'.stage = "over",
         turn'.seen = turn.seen, turn'.check = turn.check,
         today' = today, stored'.prompt = stored.prompt, markers' = markers
  PROVE  PromptInv'
BY DEF PromptInv, Asking

\* What the memory, the markers and the counters hold.
MemoryOK ==
  /\ today \in 1 .. MaxDay
  /\ markers \in [injected : BOOLEAN, day : 0 .. MaxDay, slipped : BOOLEAN]
  /\ stored \in [prompt : 0 .. MaxDay, history : Seq(Block)]
  /\ told \in Nat
  /\ told + (IF turn.stage \in {"idle", "over"} THEN 0 ELSE 1) <= budget.turns
  /\ budget \in [turns : 0 .. MaxTurns, deaths : 0 .. MaxDeaths, foreign : 0 .. MaxForeign]

AgentInv == LedgerInv /\ turn \in Turn /\ TurnInv /\ MemoryOK /\ PromptInv /\ ToolBlocksComplete

LEMMA AgentInvInit == Init => AgentInv
<1> SUFFICES ASSUME Init PROVE AgentInv
  OBVIOUS
<1>1. LedgerInv
  BY LedgerInvInit DEF Init
<1>2. turn \in Turn /\ TurnInv
  BY AgentAssumption DEF Init, NoTurn, Turn, TurnInv, Stages, Kinds
<1>3. MemoryOK
  BY AgentAssumption DEF Init, MemoryOK, NoMarkers, NoTurn, NewSession
<1>4. PromptInv
  BY DEF Init, PromptInv, NoMarkers, NoTurn
<1>5. ToolBlocksComplete
  BY DEF Init, ToolBlocksComplete, NewSession
<1> QED BY <1>1, <1>2, <1>3, <1>4, <1>5 DEF AgentInv

LEMMA PromptKeeps ==
  ASSUME AgentInv, [Next]_vars
  PROVE  PromptInv'
<1>a. /\ turn \in Turn /\ TurnInv /\ PromptInv
      /\ today \in 1 .. MaxDay /\ stored \in [prompt : 0 .. MaxDay, history : Seq(Block)]
      /\ markers \in [injected : BOOLEAN, day : 0 .. MaxDay, slipped : BOOLEAN]
  BY DEF AgentInv, MemoryOK
<1>b. turn.stage # "over" => turn.replies = 0
  BY <1>a DEF TurnInv
<1>s. \A s \in {"idle", "prompt", "writing", "marking", "dispatch", "ocr", "ask", "calls",
                "calling", "answer", "send", "over"} : s \in Stages
  BY DEF Stages
<1>d. /\ today \in Nat /\ markers.day \in Nat /\ stored.prompt \in Nat
      /\ turn.seen \in Nat /\ turn.check \in Nat
  BY <1>a, AgentAssumption DEF Turn
\* The messages and the moves after the check.
<1>1. ASSUME turn.stage \in Asking, Reply, UNCHANGED today, stored'.prompt = stored.prompt, markers' = markers
      PROVE  PromptInv'
  BY <1>1, <1>a, <1>b, ReplyMoves, PromptStays DEF Asking
<1>2. ASSUME turn.stage \in Asking, NEW s \in Asking, Goto(s), UNCHANGED today,
             stored'.prompt = stored.prompt, markers' = markers
      PROVE  PromptInv'
  <2>1. turn'.stage = s /\ turn'.seen = turn.seen /\ turn'.check = turn.check
    BY <1>2, <1>a, <1>s, GotoMoves DEF Asking
  <2> QED BY <1>2, <1>a, <2>1, PromptStays DEF Asking
<1>3. ASSUME NEW block, Remember(block) PROVE stored'.prompt = stored.prompt
  BY <1>3, <1>a DEF Remember
<1>4. ASSUME NEW kind \in Kinds, Receive(kind) PROVE PromptInv'
  <2>1. /\ turn'.stage = "prompt" /\ turn'.seen = today /\ turn'.check = 0
        /\ UNCHANGED <<today, markers, stored>>
    BY <1>4 DEF Receive, NoTurn
  <2> QED BY <2>1, <1>a, <1>d DEF PromptInv
<1>5. CASE CheckPrompt
  <2>1. CASE markers.injected /\ markers.day = today
    <3>1. /\ turn'.stage = "dispatch" /\ turn'.seen = turn.seen /\ turn'.check = turn.check
          /\ UNCHANGED <<today, markers, stored>> /\ turn.stage = "prompt"
      BY <1>5, <2>1, <1>a DEF CheckPrompt, At, Turn
    <3> QED BY <3>1, <2>1, <1>a, <1>d DEF PromptInv
  <2>2. CASE ~ (markers.injected /\ markers.day = today)
    <3>1. PICK d \in {0, today} : turn' = [turn EXCEPT !.stage = "writing", !.check = d]
      BY <1>5, <2>2 DEF CheckPrompt
    <3>2. /\ turn'.stage = "writing" /\ turn'.seen = turn.seen /\ turn'.check = d
          /\ UNCHANGED <<today, markers, stored>> /\ turn.stage = "prompt"
      BY <1>5, <3>1, <1>a DEF CheckPrompt, At, Turn
    <3> QED BY <3>2, <1>a, <1>d DEF PromptInv
  <2> QED BY <2>1, <2>2
<1>6. CASE SetSystemPrompt
  <2>1. /\ turn'.stage = "marking" /\ turn'.seen = turn.seen /\ turn'.check = turn.check
        /\ UNCHANGED <<today, markers>> /\ turn.stage = "writing" /\ stored'.prompt = turn.seen
    BY <1>6, <1>a, <1>s, GotoMoves DEF SetSystemPrompt, At
  <2> QED BY <2>1, <1>a, <1>d DEF PromptInv
<1>7. CASE Mark
  <2>1. PICK day : /\ day = IF turn.check = 0 THEN today ELSE turn.check
                   /\ markers' = [injected |-> TRUE, day |-> day, slipped |-> day # turn.seen]
    BY <1>7 DEF Mark
  <2>2. markers'.injected /\ markers'.day = day /\ markers'.slipped = (day # turn.seen)
    BY <2>1
  <2>3. markers'.slipped \/ day = turn.seen
    BY <2>2, Zenon
  <2>4. /\ turn'.stage = "dispatch" /\ turn'.seen = turn.seen /\ turn'.check = turn.check
        /\ UNCHANGED <<today, stored>> /\ turn.stage = "marking"
    BY <1>7, <1>a, <1>s, GotoMoves DEF Mark, At
  <2>5. /\ turn.seen \in 1 .. today /\ stored.prompt = turn.seen /\ turn.check <= today
        /\ day \in Nat /\ day <= today
    BY <2>1, <2>4, <1>a, <1>d DEF PromptInv
  <2>6. /\ turn'.seen \in 1 .. today' /\ markers'.day <= today' /\ turn'.check <= today'
        /\ stored'.prompt = turn'.seen /\ stored'.prompt # 0
    BY <2>2, <2>4, <2>5
  <2>7. (stored'.prompt >= markers'.day \/ markers'.slipped) /\ stored'.prompt >= turn'.seen
    BY <2>2, <2>3, <2>4, <2>5
  <2> QED BY <2>4, <2>6, <2>7 DEF PromptInv
<1>8. CASE DownloadImage \/ RecognizeText \/ Report \/ Exhausted \/ SendAnswer \/ CommandDone
  <2>1. turn.stage \in Asking /\ UNCHANGED <<today, markers>> /\ stored'.prompt = stored.prompt
    BY <1>8, <1>3 DEF DownloadImage, RecognizeText, Report, Exhausted, SendAnswer, CommandDone, At, Asking
  <2>2. Reply \/ Goto("ocr") \/ Goto("ask")
    BY <1>8 DEF DownloadImage, RecognizeText, Report, Exhausted, SendAnswer, CommandDone
  <2> QED BY <1>1, <1>2, <2>1, <2>2 DEF Asking
<1>9. CASE RecordUser \/ RecordAnswer \/ Command \/ CallPytool
  <2>1. turn.stage \in Asking /\ UNCHANGED <<today, markers>> /\ stored'.prompt = stored.prompt
    BY <1>9, <1>3 DEF RecordUser, RecordAnswer, Command, CallPytool, At, Asking
  <2>2. Goto("ask") \/ Goto("send") \/ Goto("calling")
    BY <1>9 DEF RecordUser, RecordAnswer, Command, CallPytool
  <2> QED BY <1>2, <2>1, <2>2 DEF Asking
<1>10. CASE ModelAsk \/ CallReader \/ CallFails \/ ToolResult \/ ToolRaises \/ RecordTools
  <2>1. turn.stage \in Asking /\ UNCHANGED <<today, markers>> /\ stored'.prompt = stored.prompt
    BY <1>10, <1>3 DEF ModelAsk, CallReader, CallFails, ToolResult, ToolRaises, RecordTools, At, Asking
  <2>2. turn'.stage \in Asking \cup {"over"} /\ turn'.seen = turn.seen /\ turn'.check = turn.check
    BY <1>10, <1>a DEF ModelAsk, CallReader, CallFails, ToolResult, ToolRaises, RecordTools, At, Asking,
                       Goto, Reply, Turn
  <2> QED BY <1>a, <2>1, <2>2, PromptStays DEF Asking
<1>11. CASE ClearHistory
  <2>1. /\ markers' = NoMarkers /\ UNCHANGED today /\ turn.stage = "dispatch"
        /\ turn'.stage = "over" /\ turn'.seen = turn.seen /\ turn'.check = turn.check
    BY <1>11, <1>a, <1>b, ReplyMoves DEF ClearHistory, At
  <2> QED BY <2>1, <1>a, <1>d DEF PromptInv, NoMarkers
<1>12. CASE EndTurn \/ Die
  <2>1. turn' = NoTurn /\ UNCHANGED today
        /\ ((UNCHANGED <<markers, stored>>) \/ markers' = NoMarkers)
    BY <1>12 DEF EndTurn, Die
  <2> QED BY <2>1, <1>a, <1>d DEF PromptInv, NoTurn, NoMarkers
<1>13. CASE Midnight
  <2>1. today' = today + 1 /\ UNCHANGED <<markers, stored, turn>>
    BY <1>13 DEF Midnight
  <2> QED BY <2>1, <1>a, <1>d DEF PromptInv
<1>14. CASE AgentLedger \/ Quiet \/ (\E c \in Clients : OtherClient(c)) \/ UNCHANGED vars
  <2>1. UNCHANGED <<today, markers, stored, turn>>
    BY <1>14 DEF AgentLedger, Quiet, OtherClient, vars, agentVars
  <2> QED BY <2>1, <1>a DEF PromptInv
<1> QED BY <1>4, <1>5, <1>6, <1>7, <1>8, <1>9, <1>10, <1>11, <1>12, <1>13, <1>14 DEF Next, Handle

(* A block that pairs its calls goes to the end of the history.             *)
LEMMA RememberKeeps ==
  ASSUME stored \in [prompt : 0 .. MaxDay, history : Seq(Block)], ToolBlocksComplete,
         NEW b \in Block, b.calls = b.results, Remember(b)
  PROVE  stored' \in [prompt : 0 .. MaxDay, history : Seq(Block)] /\ ToolBlocksComplete'
<1>1. stored.history \in Seq(Block) /\ Append(stored.history, b) \in Seq(Block)
  OBVIOUS
<1>2. /\ stored' \in [prompt : 0 .. MaxDay, history : Seq(Block)]
      /\ stored'.history = Append(stored.history, b)
  BY <1>1 DEF Remember
<1>3. \A i \in 1 .. Len(stored'.history) :
        stored'.history[i] = IF i = Len(stored.history) + 1 THEN b ELSE stored.history[i]
  BY <1>1, <1>2
<1>4. Len(stored'.history) = Len(stored.history) + 1 /\ Len(stored.history) \in Nat
  BY <1>1, <1>2
<1>5. \A i \in 1 .. Len(stored'.history) : i = Len(stored.history) + 1 \/ i \in 1 .. Len(stored.history)
  BY <1>4
<1> QED BY <1>2, <1>3, <1>5 DEF ToolBlocksComplete

(* The history keeps its pairs, and the prompt its type.                    *)
LEMMA HistoryKeeps ==
  ASSUME AgentInv, [Next]_vars
  PROVE  stored' \in [prompt : 0 .. MaxDay, history : Seq(Block)] /\ ToolBlocksComplete'
<1>a. /\ turn \in Turn /\ TurnInv /\ ToolBlocksComplete
      /\ stored \in [prompt : 0 .. MaxDay, history : Seq(Block)]
  BY DEF AgentInv, MemoryOK
<1>1. CASE UNCHANGED stored
  BY <1>1, <1>a DEF ToolBlocksComplete
<1>2. ASSUME NEW kind \in {"user", "answer"}, Remember(Said(kind))
      PROVE  stored' \in [prompt : 0 .. MaxDay, history : Seq(Block)] /\ ToolBlocksComplete'
  <2>1. 0 \in 0 .. MaxCalls
    BY AgentAssumption
  <2>2. Said(kind) \in Block /\ Said(kind).calls = Said(kind).results
    BY <2>1, <1>2 DEF Said, Block
  <2> QED BY <1>2, <1>a, <2>2, RememberKeeps
<1>3. CASE SetSystemPrompt
  <2>1. stored' = [stored EXCEPT !.prompt = turn.seen] /\ turn.seen \in 0 .. MaxDay
    BY <1>3, <1>a DEF SetSystemPrompt, Turn
  <2>2. stored' \in [prompt : 0 .. MaxDay, history : Seq(Block)] /\ stored'.history = stored.history
    BY <2>1, <1>a
  <2> QED BY <2>2, <1>a DEF ToolBlocksComplete
<1>4. CASE ClearHistory \/ Die
  <2>1. 0 \in 0 .. MaxDay /\ << >> \in Seq(Block)
    BY AgentAssumption
  <2>2. ASSUME NEW p \in 0 .. MaxDay, stored' = [prompt |-> p, history |-> << >>]
        PROVE  stored' \in [prompt : 0 .. MaxDay, history : Seq(Block)] /\ ToolBlocksComplete'
    BY <2>1, <2>2 DEF ToolBlocksComplete
  <2>3. stored.prompt \in 0 .. MaxDay
        /\ [stored EXCEPT !.history = << >>] = [prompt |-> stored.prompt, history |-> << >>]
    BY <1>a
  <2> QED BY <1>1, <1>4, <2>1, <2>2, <2>3 DEF ClearHistory, Die, NewSession
<1>5. CASE RecordTools
  <2>1. PICK b : b = [kind |-> "tool", calls |-> turn.want, results |-> turn.got]
    OBVIOUS
  <2>2. b \in Block /\ b.calls = b.results /\ Remember(b)
    BY <1>5, <1>a, <2>1 DEF RecordTools, Block, Turn
  <2> QED BY <2>2, <1>a, RememberKeeps
<1>6. CASE RecordUser \/ RecordAnswer \/ RecognizeText
  BY <1>1, <1>2, <1>6 DEF RecordUser, RecordAnswer, RecognizeText, Recognized
<1>7. CASE \/ \E kind \in Kinds : Receive(kind)
           \/ CheckPrompt \/ Mark \/ DownloadImage \/ Report \/ Command \/ CommandDone
           \/ ModelAsk \/ Exhausted \/ CallPytool \/ CallReader \/ CallFails \/ ToolResult \/ ToolRaises
           \/ SendAnswer \/ EndTurn \/ AgentLedger \/ Midnight \/ Quiet
           \/ (\E c \in Clients : OtherClient(c)) \/ UNCHANGED vars
  <2>1. UNCHANGED stored
    BY <1>7 DEF Receive, CheckPrompt, Mark, DownloadImage, Report, Command, CommandDone,
           ModelAsk, Exhausted, CallPytool, CallReader, CallFails, ToolResult, ToolRaises, SendAnswer,
           EndTurn,
           AgentLedger, Midnight, Quiet, OtherClient, vars, agentVars
  <2> QED BY <1>1, <2>1
<1> QED BY <1>3, <1>4, <1>5, <1>6, <1>7 DEF Next, Handle

(* Date, markers and counters.                                              *)
LEMMA MemoryKeeps ==
  ASSUME AgentInv, [Next]_vars
  PROVE  MemoryOK'
<1>a. /\ turn \in Turn /\ today \in 1 .. MaxDay /\ told \in Nat
      /\ markers \in [injected : BOOLEAN, day : 0 .. MaxDay, slipped : BOOLEAN]
      /\ told + (IF turn.stage \in {"idle", "over"} THEN 0 ELSE 1) <= budget.turns
      /\ budget \in [turns : 0 .. MaxTurns, deaths : 0 .. MaxDeaths, foreign : 0 .. MaxForeign]
  BY DEF AgentInv, MemoryOK
<1>b. MaxDay \in Nat /\ MaxTurns \in Nat /\ MaxDeaths \in Nat /\ MaxForeign \in Nat
  BY AgentAssumption
<1>1. today' \in 1 .. MaxDay
  <2>1. CASE Midnight
    BY <2>1, <1>a, <1>b DEF Midnight
  <2>2. CASE ~ Midnight
    <3>1. UNCHANGED today
      BY <2>2 DEF Next, Handle, Receive, CheckPrompt, SetSystemPrompt, Mark, DownloadImage, RecognizeText,
           ClearHistory, Report, Command, CommandDone, RecordUser, ModelAsk, Exhausted, CallPytool,
           CallReader, CallFails, ToolResult, ToolRaises, RecordTools, RecordAnswer, SendAnswer, EndTurn,
           AgentLedger, Die, Quiet, OtherClient, vars, agentVars
    <3> QED BY <3>1, <1>a
  <2> QED BY <2>1, <2>2
<1>2. markers' \in [injected : BOOLEAN, day : 0 .. MaxDay, slipped : BOOLEAN]
  <2>1. CASE Mark
    <3>1. PICK day : /\ day = IF turn.check = 0 THEN today ELSE turn.check
                     /\ markers' = [injected |-> TRUE, day |-> day, slipped |-> day # turn.seen]
      BY <2>1 DEF Mark
    <3>2. day \in 0 .. MaxDay
      BY <3>1, <1>a, <1>b DEF Turn
    <3> QED BY <3>1, <3>2, Zenon
  <2>2. CASE ~ Mark
    <3>1. markers' \in {markers, NoMarkers}
      BY <2>2 DEF Next, Handle, Receive, CheckPrompt, SetSystemPrompt, DownloadImage, RecognizeText,
           ClearHistory, Report, Command, CommandDone, RecordUser, ModelAsk, Exhausted, CallPytool,
           CallReader, CallFails, ToolResult, ToolRaises, RecordTools, RecordAnswer, SendAnswer, EndTurn,
           AgentLedger, Midnight, Die, Quiet, OtherClient, vars, agentVars
    <3>2. NoMarkers \in [injected : BOOLEAN, day : 0 .. MaxDay, slipped : BOOLEAN]
      BY <1>b DEF NoMarkers
    <3> QED BY <3>1, <3>2, <1>a
  <2> QED BY <2>1, <2>2
<1>3. budget' \in [turns : 0 .. MaxTurns, deaths : 0 .. MaxDeaths, foreign : 0 .. MaxForeign]
  <2>1. ASSUME NEW kind \in Kinds, Receive(kind)
        PROVE  budget' \in [turns : 0 .. MaxTurns, deaths : 0 .. MaxDeaths, foreign : 0 .. MaxForeign]
    <3>1. budget.turns \in 0 .. MaxTurns /\ budget.turns < MaxTurns
          /\ budget' = [budget EXCEPT !.turns = @ + 1]
      BY <2>1, <1>a DEF Receive
    <3>2. budget.turns + 1 \in 0 .. MaxTurns
      BY <3>1, <1>b
    <3> QED BY <3>1, <3>2, <1>a
  <2>2. CASE Die
    <3>1. budget.deaths \in 0 .. MaxDeaths /\ budget.deaths < MaxDeaths
          /\ budget' = [budget EXCEPT !.deaths = @ + 1]
      BY <2>2, <1>a DEF Die
    <3>2. budget.deaths + 1 \in 0 .. MaxDeaths
      BY <3>1, <1>b
    <3> QED BY <3>1, <3>2, <1>a
  <2>3. ASSUME NEW c \in Clients, OtherClient(c)
        PROVE  budget' \in [turns : 0 .. MaxTurns, deaths : 0 .. MaxDeaths, foreign : 0 .. MaxForeign]
    <3>1. CASE UNCHANGED budget
      BY <3>1, <1>a
    <3>2. CASE budget.foreign < MaxForeign /\ budget' = [budget EXCEPT !.foreign = @ + 1]
      <4>1. budget.foreign + 1 \in 0 .. MaxForeign
        BY <3>2, <1>a, <1>b
      <4> QED BY <3>2, <4>1, <1>a
    <3> QED BY <2>3, <3>1, <3>2 DEF OtherClient
  <2>4. CASE Handle \/ RecognizeText \/ Midnight \/ Quiet \/ UNCHANGED vars
    <3>1. UNCHANGED budget
      BY <2>4 DEF Handle, CheckPrompt, SetSystemPrompt, Mark, DownloadImage, RecognizeText,
           ClearHistory, Report, Command, CommandDone, RecordUser, ModelAsk, Exhausted, CallPytool,
           CallReader, CallFails, ToolResult, ToolRaises, RecordTools, RecordAnswer, SendAnswer, EndTurn,
           AgentLedger, Midnight, Quiet, vars, agentVars
    <3> QED BY <3>1, <1>a
  <2> QED BY <2>1, <2>2, <2>3, <2>4 DEF Next
<1>4. told' \in Nat /\ told' + (IF turn'.stage \in {"idle", "over"} THEN 0 ELSE 1) <= budget'.turns
  <2>a. budget.turns \in Nat /\ told <= budget.turns
    BY <1>a, <1>b
  <2>1. ASSUME NEW kind \in Kinds, Receive(kind)
        PROVE  told' \in Nat /\ told' + 1 <= budget'.turns
    BY <2>1, <2>a, <1>a DEF Receive
  <2>2. CASE ClearHistory
    <3>1. told' = 0 /\ UNCHANGED budget /\ turn'.stage = "over"
      BY <2>2, <1>a DEF ClearHistory, Reply, Turn
    <3> QED BY <3>1, <2>a
  <2>3. CASE SendAnswer
    <3>1. /\ told' \in {told, told + 1} /\ UNCHANGED budget /\ turn'.stage = "over"
          /\ turn.stage = "send"
      BY <2>3, <1>a DEF SendAnswer, Reply, Turn, At
    <3> QED BY <3>1, <2>a, <1>a
  <2>4. CASE UNCHANGED <<told, turn>> /\ budget'.turns = budget.turns
    BY <2>4, <1>a
  <2>5. ASSUME UNCHANGED told, budget'.turns = budget.turns,
               turn'.stage = "idle" \/ turn.stage \notin {"idle", "over"}
        PROVE  told' \in Nat /\ told' + (IF turn'.stage \in {"idle", "over"} THEN 0 ELSE 1) <= budget'.turns
    BY <2>5, <2>a, <1>a
  <2>6. CASE EndTurn
    <3>1. turn'.stage = "idle" /\ UNCHANGED told /\ budget'.turns = budget.turns
      BY <2>6, <1>a DEF EndTurn, NoTurn
    <3> QED BY <3>1, <2>5
  <2>10. CASE Die
    <3>1. turn'.stage = "idle" /\ told' = 0 /\ budget'.turns = budget.turns
      BY <2>10, <1>a DEF Die, NoTurn
    <3> QED BY <3>1, <2>a
  <2>7. CASE \/ CheckPrompt \/ SetSystemPrompt \/ Mark \/ DownloadImage \/ Report \/ Command
             \/ CommandDone \/ RecordUser \/ ModelAsk \/ Exhausted \/ CallPytool \/ CallReader
             \/ CallFails \/ ToolResult \/ ToolRaises \/ RecordTools \/ RecordAnswer \/ RecognizeText
    <3>1. UNCHANGED <<told, budget>> /\ turn.stage \notin {"idle", "over"}
      BY <2>7 DEF CheckPrompt, SetSystemPrompt, Mark, DownloadImage, Report, Command, CommandDone,
           RecordUser, ModelAsk, Exhausted, CallPytool, CallReader, CallFails, ToolResult, ToolRaises,
           RecordTools, RecordAnswer, RecognizeText, At
    <3> QED BY <3>1, <2>5
  <2>8. ASSUME NEW c \in Clients, OtherClient(c) PROVE UNCHANGED <<told, turn>> /\ budget'.turns = budget.turns
    BY <2>8, <1>a DEF OtherClient
  <2>9. CASE AgentLedger \/ Midnight \/ Quiet \/ UNCHANGED vars
    <3>1. UNCHANGED <<told, turn, budget>>
      BY <2>9 DEF AgentLedger, Midnight, Quiet, vars, agentVars
    <3> QED BY <3>1, <2>4
  <2> QED
    <3>1. ASSUME NEW kind \in Kinds, Receive(kind)
          PROVE  told' \in Nat /\ told' + (IF turn'.stage \in {"idle", "over"} THEN 0 ELSE 1) <= budget'.turns
      BY <2>1, <3>1, <1>3
    <3>2. CASE SendAnswer \/ ClearHistory
      BY <2>2, <2>3, <3>2
    <3> QED BY <2>4, <2>6, <2>7, <2>8, <2>9, <2>10, <3>1, <3>2 DEF Next, Handle
<1> QED BY <1>1, <1>2, <1>3, <1>4, HistoryKeeps DEF MemoryOK

LEMMA AgentInvStep == AgentInv /\ [Next]_vars => AgentInv'
<1> SUFFICES ASSUME AgentInv, [Next]_vars PROVE AgentInv'
  OBVIOUS
<1>1. turn' \in Turn /\ TurnInv'
  BY TurnKeeps DEF AgentInv, MemoryOK
<1>2. LedgerInv'
  BY AgentStepIsLedgerStep, LedgerInvStep DEF AgentInv
<1>3. MemoryOK' /\ PromptInv' /\ ToolBlocksComplete'
  BY MemoryKeeps, PromptKeeps, HistoryKeeps
<1> QED BY <1>1, <1>2, <1>3 DEF AgentInv

LEMMA AgentInvAlways == Spec => []AgentInv
BY AgentInvInit, AgentInvStep, PTL DEF Spec

(* Database, memory, markers, turn and counters have their types in every   *)
(* state.                                                                   *)
THEOREM AgentTypeCorrect == Spec => []TypeOK
<1>1. AgentInv => TypeOK
  <2> SUFFICES ASSUME AgentInv PROVE TypeOK
    OBVIOUS
  <2>1. /\ told \in Nat /\ budget.turns \in 0 .. MaxTurns
        /\ told + (IF turn.stage \in {"idle", "over"} THEN 0 ELSE 1) <= budget.turns
    BY DEF AgentInv, MemoryOK
  <2>2. told \in 0 .. MaxTurns
    BY <2>1, AgentAssumption
  <2> QED BY <2>2 DEF AgentInv, MemoryOK, LedgerInv, TypeOK
<1> QED BY <1>1, AgentInvAlways, PTL

(* However a turn goes - commands, unread images, failing models and tools, *)
(* all rounds used up - execute has sent exactly one reply when it is over. *)
LEMMA AgentRepliesOnce == Spec => []OneReply
<1>1. AgentInv => OneReply
  BY DEF AgentInv, TurnInv, OneReply, At
<1> QED BY <1>1, AgentInvAlways, PTL

(* At the end of a turn of _do_execute no change a tool made is outside     *)
(* both the history and the message about the failure.                      *)
LEMMA AgentAccountsForChanges == Spec => []ChangesAreAccounted
<1>1. AgentInv => ChangesAreAccounted
  BY DEF AgentInv, TurnInv, ChangesAreAccounted, At
<1> QED BY <1>1, AgentInvAlways, PTL

(* The history _do_execute records never holds a tool call without its      *)
(* result, for any number of calls and rounds.                              *)
LEMMA AgentPairsCalls == Spec => []ToolBlocksComplete
<1>1. AgentInv => ToolBlocksComplete
  BY DEF AgentInv
<1> QED BY <1>1, AgentInvAlways, PTL

(* Whatever fails in a turn, it leaves no call without its result, no change *)
(* nobody hears of and no event without its reply.                          *)
THEOREM AgentLeavesNothingHalfDone == Spec => []NothingHalfDone
BY AgentRepliesOnce, AgentAccountsForChanges, AgentPairsCalls, PTL DEF NothingHalfDone

(* execute asks the model with a prompt of the turn's day or a later one,   *)
(* over any days, restarts and /clear, unless midnight fell between the     *)
(* text and the marker.                                                     *)
THEOREM AgentAsksWithTodaysPrompt == Spec => []AskedWithTodaysPrompt
<1>1. AgentInv => AskedWithTodaysPrompt
  BY DEF AgentInv, PromptInv, AskedWithTodaysPrompt, At
<1> QED BY <1>1, AgentInvAlways, PTL

----------------------------------------------------------------------------
(* The answers.                                                             *)

\* An answer about to be sent is in the history already.
AnswersKept ==
  told + (IF turn.stage = "send" THEN 1 ELSE 0) <= Cardinality(Answers)

(* The number of answers is a number.                                       *)
LEMMA AnswersAreFinite ==
  ASSUME stored.history \in Seq(Block)
  PROVE  IsFiniteSet(Answers) /\ Cardinality(Answers) \in Nat
<1>1. Len(stored.history) \in Nat
  OBVIOUS
<1>2. IsFiniteSet(1 .. Len(stored.history)) /\ Answers \subseteq 1 .. Len(stored.history)
  BY <1>1, FS_Interval DEF Answers
<1> QED BY <1>2, FS_Subset, FS_CardinalityType

(* A block at the end leaves the answers before it where they are.          *)
LEMMA RememberCounts ==
  ASSUME stored.history \in Seq(Block), NEW b \in Block,
         stored'.history = Append(stored.history, b)
  PROVE  Cardinality(Answers') = Cardinality(Answers) + (IF b.kind = "answer" THEN 1 ELSE 0)
<1>1. PICK n \in Nat : n = Len(stored.history)
  OBVIOUS
<1>2. /\ Len(stored'.history) = n + 1 /\ stored'.history[n + 1] = b
      /\ \A i \in 1 .. n : stored'.history[i] = stored.history[i]
  BY <1>1
<1>3. \A i : i \in 1 .. n + 1 <=> i \in 1 .. n \/ i = n + 1
  BY <1>1
<1>4. PICK A : A = Answers
  OBVIOUS
<1>5. IsFiniteSet(A) /\ Cardinality(A) \in Nat /\ n + 1 \notin A
  BY <1>1, <1>4, AnswersAreFinite DEF Answers
<1>6. CASE b.kind = "answer"
  <2>1. Answers' = A \cup {n + 1}
    BY <1>1, <1>2, <1>3, <1>4, <1>6 DEF Answers
  <2> QED BY <1>4, <1>5, <1>6, <2>1, FS_AddElement
<1>7. CASE b.kind # "answer"
  <2>1. Answers' = A
    BY <1>1, <1>2, <1>3, <1>4, <1>7 DEF Answers
  <2> QED BY <1>4, <1>5, <1>7, <2>1
<1> QED BY <1>6, <1>7

(* Only RecordAnswer makes an answer about to be sent.                      *)
LEMMA AnswersKeep ==
  ASSUME AgentInv, AnswersKept, [Next]_vars
  PROVE  AnswersKept'
<1>a. /\ turn \in Turn /\ TurnInv /\ told \in Nat
      /\ stored \in [prompt : 0 .. MaxDay, history : Seq(Block)]
      /\ stored' \in [prompt : 0 .. MaxDay, history : Seq(Block)]
  BY HistoryKeeps DEF AgentInv, MemoryOK
<1>b. turn.stage # "over" => turn.replies = 0
  BY <1>a DEF TurnInv
<1>c. /\ stored.history \in Seq(Block) /\ Cardinality(Answers) \in Nat
      /\ told <= Cardinality(Answers)
  BY <1>a, AnswersAreFinite DEF AnswersKept
<1>s. \A s \in {"idle", "prompt", "writing", "marking", "dispatch", "ocr", "ask", "calls",
                "calling", "answer", "send", "over"} : s \in Stages
  BY DEF Stages
<1>1. ASSUME stored'.history = stored.history PROVE Answers' = Answers
  BY <1>1 DEF Answers
<1>2. ASSUME NEW b \in Block, Remember(b)
      PROVE  Cardinality(Answers') = Cardinality(Answers) + (IF b.kind = "answer" THEN 1 ELSE 0)
  <2>1. stored'.history = Append(stored.history, b)
    BY <1>2, <1>a DEF Remember
  <2> QED BY <1>c, <2>1, RememberCounts
<1>3. ASSUME NEW kind \in {"user", "answer"} PROVE Said(kind) \in Block /\ Said(kind).kind = kind
  <2>1. 0 \in 0 .. MaxCalls
    BY AgentAssumption
  <2> QED BY <1>3, <2>1 DEF Said, Block
\* The count stays and no answer is about to be sent, or nothing moves.
<1>4. ASSUME UNCHANGED told, Cardinality(Answers') = Cardinality(Answers),
             turn' = turn \/ turn'.stage # "send"
      PROVE  AnswersKept'
  <2>1. PICK k \in Nat : k = Cardinality(Answers)
    BY <1>c
  <2>2. PICK m : m = Cardinality(Answers')
    OBVIOUS
  <2>3. told' = told /\ m = k /\ told \in Nat
    BY <1>4, <1>a, <2>1, <2>2
  <2>4. told + (IF turn'.stage = "send" THEN 1 ELSE 0) <= k
    <3>1. CASE turn' = turn
      BY <3>1, <2>1 DEF AnswersKept
    <3>2. CASE turn'.stage # "send"
      BY <3>2, <2>1, <2>3, <1>c
    <3> QED BY <3>1, <3>2, <1>4
  <2> QED BY <2>2, <2>3, <2>4 DEF AnswersKept
<1>5. CASE RecordAnswer
  <2>1. /\ told' = told /\ turn'.stage = "send"
        /\ Cardinality(Answers') = Cardinality(Answers) + 1
    BY <1>5, <1>a, <1>s, <1>2, <1>3, GotoMoves DEF RecordAnswer
  <2>2. PICK k \in Nat : k = Cardinality(Answers)
    BY <1>c
  <2>3. PICK m : m = Cardinality(Answers')
    OBVIOUS
  <2>4. told + 1 <= m
    BY <1>a, <1>c, <2>1, <2>2, <2>3
  <2> QED BY <2>1, <2>3, <2>4 DEF AnswersKept
<1>6. CASE SendAnswer
  <2>1. /\ told' \in {told, told + 1} /\ turn.stage = "send" /\ turn'.stage = "over"
        /\ Answers' = Answers
    BY <1>6, <1>a, <1>b, <1>1, ReplyMoves DEF SendAnswer, At
  <2> QED BY <1>a, <1>c, <2>1 DEF AnswersKept
<1>7. CASE ClearHistory \/ Die
  <2>1. told' = 0 /\ turn'.stage \in {"over", "idle"}
    BY <1>7, <1>a, <1>b, ReplyMoves DEF ClearHistory, Die, NoTurn, At
  <2>2. IsFiniteSet(Answers') /\ Cardinality(Answers') \in Nat
    <3>1. PICK h \in Seq(Block) : h = stored'.history
      BY <1>a
    <3>2. PICK n \in Nat : n = Len(h)
      OBVIOUS
    <3>3. IsFiniteSet(1 .. n)
      BY FS_Interval
    <3>4. Answers' = {i \in 1 .. n : h[i].kind = "answer"}
      BY <3>1, <3>2 DEF Answers
    <3>5. Answers' \subseteq 1 .. n
      BY <3>4
    <3> QED BY <3>3, <3>5, FS_Subset, FS_CardinalityType
  <2> QED BY <2>1, <2>2 DEF AnswersKept
<1>8. CASE RecordUser
  <2>1. UNCHANGED told /\ turn'.stage = "ask" /\ Cardinality(Answers') = Cardinality(Answers)
    BY <1>8, <1>a, <1>c, <1>s, <1>2, <1>3, GotoMoves DEF RecordUser
  <2> QED BY <1>4, <2>1
<1>9. CASE RecognizeText
  <2>1. UNCHANGED told /\ turn'.stage \in {"ask", "over"} /\ Cardinality(Answers') = Cardinality(Answers)
    <3>1. CASE Remember(Said("user")) /\ Goto("ask")
      BY <1>9, <1>a, <1>c, <1>s, <1>2, <1>3, <3>1, GotoMoves DEF RecognizeText
    <3>2. CASE Reply /\ UNCHANGED stored
      BY <1>9, <1>a, <1>b, <1>1, <3>2, ReplyMoves DEF RecognizeText, At
    <3> QED BY <1>9, <3>1, <3>2 DEF RecognizeText
  <2> QED BY <1>4, <2>1
<1>10. CASE RecordTools
  <2>1. PICK b : b = [kind |-> "tool", calls |-> turn.want, results |-> turn.got]
    OBVIOUS
  <2>2. b \in Block /\ b.kind = "tool" /\ Remember(b)
    BY <1>10, <1>a, <2>1 DEF RecordTools, Block, Turn
  <2>3. Cardinality(Answers') = Cardinality(Answers)
    BY <1>c, <1>2, <2>2
  <2>4. UNCHANGED told /\ turn'.stage = "ask"
    BY <1>10, <1>a DEF RecordTools, Turn
  <2> QED BY <1>4, <2>3, <2>4
<1>11. CASE SetSystemPrompt
  <2>1. stored'.history = stored.history /\ turn'.stage = "marking" /\ UNCHANGED told
    BY <1>11, <1>a, <1>s, GotoMoves DEF SetSystemPrompt
  <2> QED BY <1>1, <1>4, <2>1
<1>12. ASSUME UNCHANGED <<told, stored>>, turn' = turn \/ turn'.stage # "send" PROVE AnswersKept'
  BY <1>1, <1>4, <1>12
<1>13. CASE (\E kind \in Kinds : Receive(kind)) \/ EndTurn
  <2>1. UNCHANGED <<told, stored>>
    BY <1>13 DEF Receive, EndTurn
  <2>2. NoTurn.stage = "idle" /\ \A kind \in Kinds :
          [NoTurn EXCEPT !.stage = "prompt", !.kind = kind, !.seen = today].stage = "prompt"
    BY DEF NoTurn
  <2>3. turn'.stage # "send"
    BY <1>13, <2>2 DEF Receive, EndTurn
  <2> QED BY <1>12, <2>1, <2>3
<1>14. CASE \/ CheckPrompt \/ ModelAsk \/ CallReader \/ CallFails \/ ToolResult \/ ToolRaises
  <2>1. UNCHANGED <<told, stored>>
    BY <1>14 DEF CheckPrompt, ModelAsk, CallReader, CallFails, ToolResult, ToolRaises
  <2>2. CASE CheckPrompt
    BY <2>1, <2>2, <1>a, <1>12 DEF CheckPrompt, Turn
  <2>3. CASE ModelAsk
    BY <2>1, <2>3, <1>a, <1>12 DEF ModelAsk, Goto, Reply, Turn
  <2>4. CASE CallReader
    BY <2>1, <2>4, <1>a, <1>12 DEF CallReader, Turn, At
  <2>7. CASE CallFails
    BY <2>1, <2>7, <1>a, <1>12 DEF CallFails, Turn, At
  <2>5. CASE ToolResult
    BY <2>1, <2>5, <1>a, <1>12 DEF ToolResult, Turn
  <2>6. CASE ToolRaises
    BY <2>1, <2>6, <1>a, <1>12 DEF ToolRaises, Turn
  <2> QED BY <1>14, <2>2, <2>3, <2>4, <2>5, <2>6, <2>7
<1>15. CASE Mark \/ DownloadImage \/ Report \/ Command \/ CommandDone \/ Exhausted \/ CallPytool
  <2>1. UNCHANGED <<told, stored>> /\ turn'.stage # "send"
    BY <1>15, <1>a DEF Mark, DownloadImage, Report, Command, CommandDone, Exhausted, CallPytool,
                       Goto, Reply, Turn
  <2> QED BY <1>12, <2>1
<1>16. CASE AgentLedger \/ Midnight \/ Quiet \/ (\E c \in Clients : OtherClient(c)) \/ UNCHANGED vars
  <2>1. UNCHANGED <<told, stored, turn>>
    BY <1>16 DEF AgentLedger, Midnight, Quiet, OtherClient, vars, agentVars
  <2> QED BY <1>12, <2>1
<1> QED BY <1>5, <1>6, <1>7, <1>8, <1>9, <1>10, <1>11, <1>13, <1>14, <1>15, <1>16 DEF Next, Handle

(* Every answer that reached the user in a session since its last /clear has *)
(* been appended to that session, whatever else is recorded, fails or is     *)
(* cleared: the answer is written before it is sent.                         *)
THEOREM AgentRemembersWhatWasSeen == Spec => []SeenIsRemembered
<1>1. Init => AnswersKept
  <2> SUFFICES ASSUME Init PROVE AnswersKept
    OBVIOUS
  <2>1. PICK h : h = stored.history
    OBVIOUS
  <2>2. h = << >> /\ Len(h) = 0 /\ told = 0 /\ turn.stage # "send"
    BY <2>1 DEF Init, NoTurn, NewSession
  <2>3. Answers = {}
    <3>1. Answers = {i \in 1 .. Len(h) : h[i].kind = "answer"}
      BY <2>1 DEF Answers
    <3>2. 1 .. Len(h) = {}
      BY <2>2
    <3> QED BY <3>1, <3>2
  <2>4. Cardinality(Answers) = 0
    BY <2>3, FS_EmptySet
  <2> QED BY <2>2, <2>4 DEF AnswersKept
<1>2. AgentInv /\ AnswersKept => SeenIsRemembered
  <2> SUFFICES ASSUME AgentInv, AnswersKept PROVE SeenIsRemembered
    OBVIOUS
  <2>1. stored.history \in Seq(Block) /\ told \in Nat
    BY DEF AgentInv, MemoryOK
  <2>2. PICK k \in Nat : k = Cardinality(Answers)
    BY <2>1, AnswersAreFinite
  <2>3. told <= k
    BY <2>1, <2>2 DEF AnswersKept
  <2> QED BY <2>2, <2>3 DEF SeenIsRemembered
<1> QED BY <1>1, <1>2, AnswersKeep, AgentInvAlways, PTL DEF Spec
=============================================================================
