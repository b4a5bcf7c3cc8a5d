------------------------------ MODULE RestReader ------------------------------
(***************************************************************************)
(* The bounded REST reader of the core (read_rest_api_records) against a   *)
(* server whose records come, change and go between two page requests, and *)
(* consecutive Databricks runs over it: each reads the whole listing page  *)
(* by page, keeps the records beyond the watermark of the target, writes   *)
(* them and stores the greatest watermark value it kept.                   *)
(*                                                                         *)
(* The server is outside the repository.  It lists its records in the      *)
(* order of their last change (their stamp), oldest or newest first, and   *)
(* pages them by position or, for a cursor, by the last stamp it sent.     *)
(* The watermark column follows that order, but several changes may share  *)
(* one value of it.                                                        *)
(***************************************************************************)
EXTENDS Naturals, FiniteSets

CONSTANTS
    Id,         \* the records' keys
    MaxStamp,   \* bound of the server's changes
    MaxRead,    \* bound of the runs
    PageSize,   \* page_size, and the server's own page size
    Source,     \* the source contracts of this instance
    Null,       \* SQL NULL, and a request that names no cursor or link
    Valueless   \* a watermark payload without "value", as in IngestRun

Positional == {"none", "page", "offset", "link_header"}

\* "marks" gives the value that the watermark column has at each stamp.
Contract == [pagination: Positional \cup {"cursor"}, order: {"oldest", "newest"},
             maxPages: Nat \ {0}, attempts: Nat \ {0}, maxRecords: Nat, since: Nat,
             marks: [1..MaxStamp -> Nat]]

ASSUME BoundAssumption == MaxStamp \in Nat /\ MaxRead \in Nat /\ PageSize \in Nat \ {0}
ASSUME SourceAssumption ==
    /\ Source \subseteq Contract
    /\ \A s \in Source: \A t, u \in 1..MaxStamp: t <= u => s.marks[t] <= s.marks[u]
ASSUME MarkAssumption == Null \notin Nat /\ Valueless \notin Nat /\ Null # Valueless

VARIABLES
    source,     \* the contract's source section
    served,     \* the records on the server: their key and the stamp of their last change
    stamp,      \* the last stamp the server gave
    phase,      \* "idle", "reading", "read" (the loop has ended) or "stuck"
    asked,      \* what the next request names: a page number, or the cursor
    pages, attempt,     \* the counters of the two loops
    records,    \* the records received, each version once
    total,      \* how many records were received
    watermark,  \* the watermark of the target's state row
    wrote,      \* the versions the runs wrote to the target
    reads,      \* how many runs were started
    steady,     \* history: the versions listed without a pause since the read began
    repeated,   \* history: the versions received twice in this read
    movedUp, movedDown, \* history: this read saw records move towards the head, or the end
    updated,    \* history: the keys whose record changed or arrived during this read
    wentOn,     \* history: this read went on after a page that was not full
    cut,        \* history: this read ended while the server had a further page
    holes       \* history: a read with a hole was written

server == <<served, stamp>>
reader == <<phase, asked, pages, attempt, records, total>>
target == <<watermark, wrote, reads>>
history == <<steady, repeated, movedUp, movedDown, updated, wentOn, cut>>
vars == <<source, server, reader, target, history, holes>>

Version == [id: Id, stamp: 1..MaxStamp]

-----------------------------------------------------------------------------
(* The server *)

\* The request carries the contract's watermark_value when it has one.
Listed == {v \in served: v.stamp > source.since}

Before(v, w) == IF source.order = "oldest" THEN v.stamp < w.stamp ELSE v.stamp > w.stamp

Rank(v) == Cardinality({w \in Listed: Before(w, v)}) + 1

\* The listed records from where the request starts.
From(request) ==
    IF source.pagination # "cursor"
    THEN {v \in Listed: Rank(v) > (request - 1) * PageSize}
    ELSE {v \in Listed: request = Null \/ Before([stamp |-> request], v)}

Page(request) ==
    {v \in From(request):
        Cardinality({w \in From(request): Before(w, v)}) < PageSize}

Further(request) == From(request) # Page(request)

LastOf(page) == CHOOSE v \in page: \A w \in page: w = v \/ Before(w, v)

Reading == phase = "reading"

\* A record arrives: behind all others, or ahead of them.
Insert(i) ==
    /\ \A v \in served: v.id # i
    /\ stamp < MaxStamp
    /\ stamp' = stamp + 1
    /\ served' = served \cup {[id |-> i, stamp |-> stamp + 1]}
    /\ movedDown' = (movedDown \/ (Reading /\ source.order = "newest"))
    /\ updated' = IF Reading THEN updated \cup {i} ELSE updated
    /\ UNCHANGED <<source, reader, target, steady, repeated, movedUp, wentOn, cut, holes>>

Remove(v) ==
    /\ v \in served
    /\ served' = served \ {v}
    /\ steady' = steady \ {v}
    /\ movedUp' = (movedUp \/ Reading)
    /\ UNCHANGED <<source, stamp, reader, target, repeated, movedDown, updated, wentOn, cut, holes>>

\* A record changes and takes the place of the latest.
Update(v) ==
    /\ v \in served
    /\ stamp < MaxStamp
    /\ stamp' = stamp + 1
    /\ served' = (served \ {v}) \cup {[v EXCEPT !.stamp = stamp + 1]}
    /\ steady' = steady \ {v}
    /\ movedUp' = (movedUp \/ (Reading /\ source.order = "oldest"))
    /\ movedDown' = (movedDown \/ (Reading /\ source.order = "newest"))
    /\ updated' = IF Reading THEN updated \cup {v.id} ELSE updated
    /\ UNCHANGED <<source, reader, target, repeated, wentOn, cut, holes>>

-----------------------------------------------------------------------------
(* read_rest_api_records *)

FirstRequest == IF source.pagination = "cursor" THEN Null ELSE 1

\* A run resolves its source before anything else; the read starts afresh.
Start ==
    /\ phase = "idle"
    /\ reads < MaxRead
    /\ phase' = "reading"
    /\ reads' = reads + 1
    /\ asked' = FirstRequest
    /\ pages' = 0 /\ attempt' = 1 /\ records' = {} /\ total' = 0
    /\ steady' = Listed /\ repeated' = {} /\ movedUp' = FALSE /\ movedDown' = FALSE
    /\ updated' = {} /\ wentOn' = FALSE /\ cut' = FALSE
    /\ UNCHANGED <<source, server, watermark, wrote, holes>>

\* Mutant: next_url follows a link to the page it was found on.
NextRequestsOrAgain(request, page) ==
    CASE source.pagination \in {"page", "offset"} -> {request + 1}
      [] source.pagination = "link_header" ->
            IF Further(request) THEN {request + 1} ELSE {Null, request}
      [] source.pagination = "cursor" /\ Further(request) -> {LastOf(page).stamp}
      [] OTHER -> {Null}

\* The request after an answer: the next of page_urls, the cursor or link of the
\* answer, or none.  A last page that links to itself has no successor.
NextRequests(request, page) ==
    CASE source.pagination \in {"page", "offset"} -> {request + 1}
      [] source.pagination = "link_header" /\ Further(request) -> {request + 1}
      [] source.pagination = "cursor" /\ Further(request) -> {LastOf(page).stamp}
      [] OTHER -> {Null}

Limit == source.maxRecords

\* _enforce_record_limit (the byte limits fail alike).
Limited(count) == Limit > 0 /\ count > Limit

\* pages >= max_pages_for_source ends the loop, whatever the server still has.
LastPage(count) == count >= source.maxPages

\* The answer of one request is taken in: the page as the server lists it now.
Answered ==
    /\ phase = "reading"
    /\ LET page == Page(asked)
       IN  /\ ~Limited(total + Cardinality(page))
           /\ pages' = pages + 1
           /\ records' = records \cup page
           /\ repeated' = repeated \cup (records \cap page)
           /\ total' = total + Cardinality(page)
           /\ attempt' = 1
           /\ \E next \in NextRequests(asked, page):
                IF LastPage(pages + 1) \/ next = Null
                THEN /\ phase' = "read"
                     /\ cut' = Further(asked)
                     /\ asked' = Null
                     /\ UNCHANGED wentOn
                ELSE /\ asked' = next
                     /\ wentOn' = (wentOn \/ Cardinality(page) < PageSize)
                     /\ UNCHANGED <<phase, cut>>
    /\ UNCHANGED <<source, server, target, steady, movedUp, movedDown, updated, holes>>

\* Mutant: a retry goes on with the request after the one that failed.
RetryTheNext ==
    /\ phase = "reading"
    /\ attempt < source.attempts
    /\ attempt' = attempt + 1
    /\ asked' = IF source.pagination \in {"page", "offset"} THEN asked + 1 ELSE asked
    /\ UNCHANGED <<source, server, phase, pages, records, total, target, history, holes>>

\* A lost answer, a 408, 429 or 5xx: the same request once more, POST or not.
Retry ==
    /\ phase = "reading"
    /\ attempt < source.attempts
    /\ attempt' = attempt + 1
    /\ UNCHANGED <<source, server, phase, asked, pages, records, total, target, history, holes>>

\* Mutant: a failed read hands over what it has.
FailsWithAPart ==
    /\ phase = "reading"
    /\ phase' = "read"
    /\ UNCHANGED <<source, server, asked, pages, attempt, records, total, target, history, holes>>

\* The last attempt fails, the server refuses (a page beyond the end, an expired
\* cursor), the answer does not parse, or a limit is exceeded: nothing is read.
\* An empty read without a declared schema has no watermark column to filter by.
\* The exception leaves the run before it has any evidence.
Fails ==
    /\ phase = "reading" \/ (phase = "read" /\ records = {})
    /\ phase' = "idle"
    /\ UNCHANGED <<source, server, asked, pages, attempt, records, total, target, history, holes>>

-----------------------------------------------------------------------------
(* The run over the records *)

Mark(v) == source.marks[v.stamp]

\* Mutant: >= instead of >.
KeptInclusive(v) == watermark = Null \/ Mark(v) >= watermark

\* render_watermark_filter_predicate: the previous watermark is not sent to the
\* server, the rows are filtered here.
Kept(v) == watermark = Null \/ Mark(v) > watermark

\* The read was cut off newest first, records may have moved up past its position,
\* or it went on after a short page, so that a record that came later may have taken a
\* place on it and another one a place after it.
HasHoles ==
    \/ cut /\ source.order = "newest"
    \/ source.pagination \in Positional /\ movedUp
    \/ wentOn /\ updated # {}

Greatest(marks) == CHOOSE m \in marks: \A n \in marks: n <= m

\* The rest of a run, undisturbed: it filters and writes the records and stores the
\* greatest watermark value of what it kept.
Write ==
    LET kept == {v \in records: Kept(v)}
    IN  /\ phase = "read"
        /\ watermark # Valueless
        /\ phase' = "idle"
        /\ wrote' = wrote \cup kept
        /\ watermark' = IF kept = {} THEN Valueless ELSE Greatest({Mark(v): v \in kept})
        /\ holes' = (holes \/ HasHoles)
        /\ UNCHANGED <<source, server, asked, pages, attempt, records, total, reads, history>>

\* A watermark payload without a value is not decoded: this run and every later
\* one fails in its preparation.
Undecodable ==
    /\ phase = "read"
    /\ watermark = Valueless
    /\ phase' = "stuck"
    /\ UNCHANGED <<source, server, asked, pages, attempt, records, total, target, history, holes>>

Init ==
    /\ source \in Source
    /\ served = {} /\ stamp = 0
    /\ phase = "idle" /\ asked = Null /\ pages = 0 /\ attempt = 1 /\ records = {} /\ total = 0
    /\ watermark = Null /\ wrote = {} /\ reads = 0
    /\ steady = {} /\ repeated = {} /\ movedUp = FALSE /\ movedDown = FALSE
    /\ updated = {} /\ wentOn = FALSE /\ cut = FALSE /\ holes = FALSE

ServerStep == (\E i \in Id: Insert(i)) \/ (\E v \in served: Remove(v) \/ Update(v))

Next ==
    \/ ServerStep
    \/ Start \/ Answered \/ Retry \/ Fails
    \/ Write \/ Undecodable

Spec == Init /\ [][Next]_vars

-----------------------------------------------------------------------------
(* Properties *)

TypeOK ==
    /\ source \in Source
    /\ served \subseteq Version /\ stamp \in 0..MaxStamp
    /\ phase \in {"idle", "reading", "read", "stuck"}
    /\ asked \in Nat \cup {Null}
    /\ pages \in 0..source.maxPages /\ attempt \in 1..source.attempts
    /\ records \subseteq Version /\ total \in Nat
    /\ watermark \in Nat \cup {Null, Valueless} /\ wrote \subseteq Version
    /\ reads \in 0..MaxRead
    /\ steady \subseteq Version /\ repeated \subseteq Version /\ updated \subseteq Id
    /\ {movedUp, movedDown, wentOn, cut, holes} \subseteq BOOLEAN

\* A read that ends without being cut off has every record that was listed all
\* the while, unless records ahead of it moved up under a paging by position;
\* retried requests and changes of other records take nothing away.
ReadIsComplete ==
    phase = "read" /\ ~cut /\ ~(source.pagination \in Positional /\ movedUp)
        => steady \subseteq records

\* A read has no version of a record twice unless records moved down under a
\* paging by position; above all a retry repeats nothing, and nor does a last
\* page that links to itself.  Two versions of one record, which a merge refuses
\* as duplicate keys, mean that it changed during the read; with a cursor, that
\* the oldest come first.
RepeatsNeedAMove ==
    /\ repeated # {} => source.pagination \in Positional /\ movedDown
    /\ \A v, w \in records:
          v.id = w.id /\ v # w =>
             v.id \in updated /\ (source.pagination = "cursor" => source.order = "oldest")

\* An earlier change with the same value of the watermark column was written.
Tied(v) == \E w \in wrote: w.stamp < v.stamp /\ Mark(w) = Mark(v)

\* A record on the server at or below the watermark is in the target, or it came
\* after one that is and has the same value of the watermark column, beyond which
\* the filter looks, or a run wrote a read with a hole: max_pages cut it off newest
\* first, records moved up past its position, or it asked for the page after a short
\* one while records arrived.
WatermarkCoversDelivery ==
    watermark \in Nat /\ ~holes =>
        \A v \in Listed: Mark(v) <= watermark => v \in wrote \/ Tied(v)

\* A version is written once: what a later run reads once more, it filters out.
NothingIsWrittenTwice ==
    phase = "read" /\ watermark # Valueless => {v \in records: Kept(v)} \cap wrote = {}
=============================================================================
