---------------------------- MODULE MCBillAgent -----------------------------
(* An instance of BillAgent for TLC: the agent, one other client of the       *)
(* database, one default category and one that comes and goes.                *)
EXTENDS BillAgent

CONSTANTS c1, c2

Ask(op, category, amount, date, id) ==
  [stage |-> "idle", op |-> op, category |-> category, amount |-> amount, date |-> date, id |-> id]

MCRequests == {Ask("add_bill", c2, 1, 2, 0),
               Ask("add_bill", c1, 2, Bad, 0),
               Ask("update_bill", c1, None, 1, 1),
               Ask("delete_bill", None, None, None, 1),
               Ask("add_category", c2, None, None, 0),
               Ask("delete_category", c2, None, None, 0)}

AnyFilter == [start |-> None, end |-> None, category |-> None, min |-> None, max |-> None]

MCFilters == {AnyFilter, [AnyFilter EXCEPT !.start = 2], [AnyFilter EXCEPT !.end = 1],
              [AnyFilter EXCEPT !.category = c1, !.max = 1],
              [AnyFilter EXCEPT !.min = 1, !.start = 1, !.end = 1]}
=============================================================================
