----------------------------- MODULE BillLedger -----------------------------
(* BillManager (src/agents/bill_management_agent.py): the bill database as   *)
(* its clients use it.  A client is a thread or a process that has the file  *)
(* open.  An operation checks its arguments, looks up the category without   *)
(* the lock and in a connection of its own, and then runs one statement: the *)
(* lookup and the statement are two steps.  What SQLite does with the        *)
(* statement (foreign keys, unique names, AUTOINCREMENT) is part of it.      *)
(*                                                                          *)
(* A row keeps category, amount and date; the remark is treated by the code  *)
(* as the amount is.  None is an argument that is not given, Bad a date that *)
(* strptime refuses.                                                         *)
(***************************************************************************)
EXTENDS Integers, FiniteSets, FiniteSetsExt

CONSTANTS Clients,    \* threads and processes that use the database
          Categories, \* names of categories
          Defaults,   \* default_categories
          Amounts,    \* amounts
          Dates,      \* valid dates
          MaxId,      \* bills ever entered, a bound of the model
          Requests,   \* the operations clients ask for, see Call
          Filters,    \* the filters the totals are compared for
          None,       \* an argument that is not given
          Bad,        \* a date in another format
          NoBill      \* no row with this id

ASSUME LedgerAssumption ==
  /\ Defaults \subseteq Categories
  /\ Amounts \subseteq Nat /\ Dates \subseteq Nat /\ MaxId \in Nat
  /\ None \notin Categories \cup Amounts \cup Dates
  /\ Bad \notin Dates \cup {None}

VARIABLES categories, \* table categories
          bills,      \* table bills
          lastId,     \* the sequence of AUTOINCREMENT
          call        \* the operation each client is in

tables     == <<categories, bills, lastId>>
ledgerVars == <<tables, call>>

Ids  == 1 .. MaxId
Row  == [category : Categories, amount : Amounts, date : Dates]
ASSUME NoBillAssumption == NoBill \notin Row

Ops     == {"add_bill", "update_bill", "delete_bill", "add_category", "delete_category"}
Results == {"true", "false", "error"}
Call    == [stage : {"idle", "check", "run"} \cup Results, op : Ops,
            category : Categories \cup {None}, amount : Amounts \cup {None},
            date : Dates \cup {None, Bad}, id : 0 .. MaxId]
NoCall  == [stage |-> "idle", op |-> "add_bill", category |-> None, amount |-> None,
            date |-> None, id |-> 0]

LedgerTypeOK ==
  /\ categories \subseteq Categories
  /\ bills \in [Ids -> Row \cup {NoBill}]
  /\ lastId \in 0 .. MaxId
  /\ call \in [Clients -> Call]

\* _init_db on a new file.
LedgerInit ==
  /\ categories = Defaults
  /\ bills = [i \in Ids |-> NoBill]
  /\ lastId = 0
  /\ call = [c \in Clients |-> NoCall]

----------------------------------------------------------------------------
(* The operations.                                                          *)

\* What the code decides before it opens the database: add_bill wants a date
\* it can parse, update_bill wants something to change.
FirstStage(a) ==
  CASE a.op = "add_bill" -> IF a.date \in {None, Bad} THEN "error" ELSE "check"
    [] a.op = "update_bill" /\ a.category # None -> "check"
    [] a.op = "update_bill" /\ a.category = None ->
         IF a.date = Bad THEN "error" ELSE IF a.amount = None /\ a.date = None THEN "false" ELSE "run"
    [] OTHER -> "run"

Start(c, a) ==
  /\ call[c].stage = "idle"
  /\ call' = [call EXCEPT ![c] = [a EXCEPT !.stage = FirstStage(a)]]
  /\ UNCHANGED tables

ASSUME RequestsAssumption ==
  /\ Requests \subseteq {a \in Call : a.stage = "idle" /\ a.id \in Ids \cup {0}}
  /\ \A a \in Requests :
       /\ a.op \in {"add_bill", "add_category", "delete_category"} => a.category # None
       /\ a.op = "add_bill" => a.amount # None

Reach(c, stage) == call' = [call EXCEPT ![c].stage = stage]

\* _category_exists; update_bill parses the date only after it.
CategoryExists(c) ==
  /\ call[c].stage = "check"
  /\ Reach(c, IF call[c].category \notin categories \/ call[c].date = Bad THEN "error" ELSE "run")
  /\ UNCHANGED tables

Running(c, op) == call[c].stage = "run" /\ call[c].op = op
InUse(category) == \E i \in Ids : bills[i] # NoBill /\ bills[i].category = category

\* Variant: no AUTOINCREMENT, the id is one more than the greatest in the table.
InsertBillMaxId(c) ==
  /\ Running(c, "add_bill")
  /\ LET id == Max({0} \cup {i \in Ids : bills[i] # NoBill}) + 1 IN
       /\ id <= MaxId /\ call[c].category \in categories
       /\ lastId' = Max({lastId, id})
       /\ bills' = [bills EXCEPT ![id] =
                      [category |-> call[c].category, amount |-> call[c].amount, date |-> call[c].date]]
       /\ call' = [call EXCEPT ![c].stage = "true", ![c].id = id]
  /\ UNCHANGED categories

\* INSERT INTO bills: the foreign key turns a vanished category into an error.
InsertBill(c) ==
  /\ Running(c, "add_bill") /\ lastId < MaxId
  /\ IF call[c].category \in categories
       THEN /\ lastId' = lastId + 1
            /\ bills' = [bills EXCEPT ![lastId + 1] =
                           [category |-> call[c].category, amount |-> call[c].amount,
                            date |-> call[c].date]]
            /\ call' = [call EXCEPT ![c].stage = "true", ![c].id = lastId + 1]
       ELSE Reach(c, "error") /\ UNCHANGED <<bills, lastId>>
  /\ UNCHANGED categories

HasBill(id) == id \in Ids /\ bills[id] # NoBill
Given(new, old) == IF new = None THEN old ELSE new
Changed(row, a) == [category |-> Given(a.category, row.category),
                    amount |-> Given(a.amount, row.amount), date |-> Given(a.date, row.date)]

\* UPDATE bills SET ... WHERE id = ?
UpdateBill(c) ==
  /\ Running(c, "update_bill")
  /\ LET a == call[c] IN
       \/ /\ ~ HasBill(a.id)
          /\ Reach(c, "false") /\ UNCHANGED bills
       \/ /\ HasBill(a.id) /\ a.category # None /\ a.category \notin categories
          /\ Reach(c, "error") /\ UNCHANGED bills
       \/ /\ HasBill(a.id) /\ a.category \in categories \cup {None}
          /\ bills' = [bills EXCEPT ![a.id] = Changed(@, a)]
          /\ Reach(c, "true")
  /\ UNCHANGED <<categories, lastId>>

\* DELETE FROM bills WHERE id = ?
DeleteBill(c) ==
  /\ Running(c, "delete_bill")
  /\ bills' = [bills EXCEPT ![call[c].id] = NoBill]
  /\ Reach(c, IF HasBill(call[c].id) THEN "true" ELSE "false")
  /\ UNCHANGED <<categories, lastId>>

\* INSERT INTO categories: a name that exists is an IntegrityError, so False.
AddCategory(c) ==
  /\ Running(c, "add_category")
  /\ Reach(c, IF call[c].category \in categories THEN "false" ELSE "true")
  /\ categories' = categories \cup {call[c].category}
  /\ UNCHANGED <<bills, lastId>>

\* DELETE FROM categories: the IntegrityError of a category in use is not caught here.
DeleteCategory(c) ==
  /\ Running(c, "delete_category")
  /\ IF InUse(call[c].category)
       THEN Reach(c, "error") /\ UNCHANGED categories
       ELSE /\ Reach(c, IF call[c].category \in categories THEN "true" ELSE "false")
            /\ categories' = categories \ {call[c].category}
  /\ UNCHANGED <<bills, lastId>>

\* sqlite3.Error, a database that stays locked: nothing was done.
DatabaseFails(c) ==
  /\ call[c].stage \in {"check", "run"}
  /\ Reach(c, "error")
  /\ UNCHANGED tables

\* The caller has its result.
Take(c) ==
  /\ call[c].stage \in Results
  /\ call' = [call EXCEPT ![c] = NoCall]
  /\ UNCHANGED tables

\* The process starts again: _init_db puts the default categories back.
Reopen(c) ==
  /\ categories' = categories \cup Defaults
  /\ call' = [call EXCEPT ![c] = NoCall]
  /\ UNCHANGED <<bills, lastId>>

Statement(c) == \/ InsertBill(c) \/ UpdateBill(c) \/ DeleteBill(c)
                \/ AddCategory(c) \/ DeleteCategory(c)

LedgerNext == \E c \in Clients :
  \/ \E a \in Requests : Start(c, a)
  \/ CategoryExists(c) \/ Statement(c) \/ DatabaseFails(c) \/ Take(c) \/ Reopen(c)

LedgerSpec == LedgerInit /\ [][LedgerNext]_ledgerVars

----------------------------------------------------------------------------
(* query_bills and get_statistics, whose filters are written twice.          *)

Filter == [start : Dates \cup {None}, end : Dates \cup {None},
           category : Categories \cup {None}, min : Amounts \cup {None}, max : Amounts \cup {None}]

ASSUME FiltersAssumption == Filters \subseteq Filter

\* The WHERE clause of query_bills; a filter that is not given does not
\* restrict.
Matches(row, f) ==
  /\ f.start # None => row.date >= f.start
  /\ f.end # None => row.date <= f.end
  /\ f.category # None => row.category = f.category
  /\ f.min # None => row.amount >= f.min
  /\ f.max # None => row.amount <= f.max

QueryBills(f) == {i \in Ids : bills[i] # NoBill /\ Matches(bills[i], f)}

\* The sum of a number for each id.
SumOf(numbers) ==
  LET sum[n \in 0 .. MaxId] == IF n = 0 THEN 0 ELSE sum[n - 1] + numbers[n]
  IN  sum[MaxId]

Total(ids) == SumOf([i \in Ids |-> IF i \in ids THEN bills[i].amount ELSE 0])

\* GROUP BY category, then the totals of the groups; a group is counted where
\* its first bill is.
Grouped(rows) ==
  LET group(i) == {j \in rows : bills[j].category = bills[i].category}
      first    == {i \in rows : \A j \in group(i) : i <= j} IN
    [sum   |-> SumOf([i \in Ids |-> IF i \in first THEN Total(group(i)) ELSE 0]),
     count |-> SumOf([i \in Ids |-> IF i \in first THEN Cardinality(group(i)) ELSE 0])]

\* Variant: the statistics forget the upper bound of the dates.
CountedNoEnd(row, f) ==
  /\ f.start # None => row.date >= f.start
  /\ f.category # None => row.category = f.category
  /\ f.min # None => row.amount >= f.min
  /\ f.max # None => row.amount <= f.max

\* The WHERE clause of get_statistics, which the code writes a second time.
Counted(row, f) ==
  /\ f.start # None => row.date >= f.start
  /\ f.end # None => row.date <= f.end
  /\ f.category # None => row.category = f.category
  /\ f.min # None => row.amount >= f.min
  /\ f.max # None => row.amount <= f.max

GetStatistics(f) == Grouped({i \in Ids : bills[i] # NoBill /\ Counted(bills[i], f)})

----------------------------------------------------------------------------
\* Every bill belongs to a category that exists, although the lookup of the
\* category and the statement are two steps and categories come and go.
EveryBillHasCategory == \A i \in Ids : bills[i] # NoBill => bills[i].category \in categories

\* The totals are those of the bills the query with the same filter returns.
StatisticsAgreeWithQuery ==
  \A f \in Filters : GetStatistics(f) = [sum |-> Total(QueryBills(f)),
                                        count |-> Cardinality(QueryBills(f))]

\* The clients together implement the book.
Book == INSTANCE BillBook WITH used <- 1 .. lastId
ImplementsBook == Book!Spec
=============================================================================
