----------------------------- MODULE MCRestReader -----------------------------
(* Every kind of pagination in both orders, pages of two records. *)
EXTENDS RestReader, TLC

Keys == Permutations(Id)

Base == [pagination |-> "page", order |-> "oldest", maxPages |-> 2, attempts |-> 2,
         maxRecords |-> 0, since |-> 0, marks |-> [t \in 1..MaxStamp |-> t]]

\* The watermark column changes with every second change only.
Coarse == [t \in 1..MaxStamp |-> (t + 1) \div 2]

Both(s) == {s, [s EXCEPT !.order = "newest"]}

\* Four records fill two pages: page, offset and link_header read both, "none" and a
\* cursor are cut off after the first, as max_pages defaults to one.  An offset read
\* has a record limit, a cursor read starts after a fixed watermark_value, and a
\* cursor that reads all meets equal values of the watermark column.
MCSource ==
    Both(Base)
    \cup Both([Base EXCEPT !.pagination = "cursor"])
    \cup Both([Base EXCEPT !.pagination = "link_header", !.maxPages = 3])
    \cup Both([Base EXCEPT !.pagination = "none", !.maxPages = 1])
    \cup {[Base EXCEPT !.pagination = "offset", !.maxRecords = 3],
          [Base EXCEPT !.pagination = "cursor", !.order = "newest", !.maxPages = 1],
          [Base EXCEPT !.pagination = "cursor", !.since = 1, !.attempts = 1]}
    \cup Both([Base EXCEPT !.pagination = "cursor", !.marks = Coarse, !.attempts = 1])
=============================================================================
