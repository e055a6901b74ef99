------------------------------ MODULE BillBook ------------------------------
(* What the bill database promises to everybody who opens it: a set of       *)
(* categories and a table of bills in which every bill has a category that   *)
(* exists and no identifier is ever given to a second bill.  BillLedger,     *)
(* the SQL of the bill agent with its separate checks, implements it.        *)
(***************************************************************************)
CONSTANTS Ids,        \* identifiers of bills
          Categories, \* names of categories
          Row,        \* rows: records with a field category
          NoBill      \* the content of an identifier without a bill

VARIABLES categories, \* categories that exist
          bills,      \* identifier -> row or NoBill
          used        \* identifiers that have been given to a bill

vars == <<categories, bills, used>>

Init ==
  /\ categories \subseteq Categories
  /\ bills = [i \in Ids |-> NoBill]
  /\ used = {}

\* A category can always be added, and removed when no bill has it.
ChangeCategories ==
  /\ categories' \subseteq Categories
  /\ \A i \in Ids : bills[i] # NoBill => bills[i].category \in categories'
  /\ UNCHANGED <<bills, used>>

Enter == \E i \in Ids \ used, row \in Row :
  /\ row.category \in categories
  /\ bills' = [bills EXCEPT ![i] = row]
  /\ used' = used \cup {i}
  /\ UNCHANGED categories

Change == \E i \in Ids, row \in Row :
  /\ bills[i] # NoBill /\ row.category \in categories
  /\ bills' = [bills EXCEPT ![i] = row]
  /\ UNCHANGED <<categories, used>>

Remove == \E i \in Ids :
  /\ bills' = [bills EXCEPT ![i] = NoBill]
  /\ UNCHANGED <<categories, used>>

Next == ChangeCategories \/ Enter \/ Change \/ Remove

Spec == Init /\ [][Next]_vars
=============================================================================
