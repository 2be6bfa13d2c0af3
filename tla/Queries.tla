------------------------------ MODULE Queries ------------------------------
(***************************************************************************)
(* What the read routes return for a table, and how the frontend asks: the *)
(* listing, export and analytics queries of crud/ with their routes, and   *)
(* the query builders and helpers of lib/records_api.py, analytics_api.py  *)
(* and admin_api.py.  An optional value is the set of its values: {} is    *)
(* None.  A query string is a record from parameter names to such sets, a  *)
(* parameter that is not sent is {} or no field at all.  Titles,           *)
(* categories, values and times are numbers: only their order matters.     *)
(* Averages are total / count; a trend point, which has no total, gets one. *)
(***************************************************************************)
EXTENDS Integers, SequencesExt

CONSTANTS DayLength,       \* instants of a day
          HourLength,      \* instants of an hour; an instant is a minute
          MaxPageSize, ExportRowLimit,
          Formulas         \* the titles and categories that begin like a formula

ASSUME QueriesAssumption ==
  /\ {DayLength, HourLength, MaxPageSize, ExportRowLimit} \subseteq Nat \ {0}
  /\ Formulas \subseteq Nat \ {0}

---------------------------------------------------------------------------
(* crud/data_record.py and its routes.                                     *)

\* apply_filters().
Filtered(table, f) ==
  {r \in table :
    /\ \A c \in f.category : r.category = c
    /\ \A s \in f.source : r.source = s
    /\ \A t \in f.start : r.timestamp >= t
    /\ \A t \in f.end : r.timestamp <= t}

\* A query parameter as the route declares it.
Param(query, name) == IF name \in DOMAIN query THEN query[name] ELSE {}
Given(set, default) == IF set = {} THEN default ELSE CHOOSE x \in set : TRUE

RecordFilters(query) ==
  [category |-> Param(query, "category"), source |-> Param(query, "source"),
   start |-> Param(query, "start"), end |-> Param(query, "end")]

\* ORDER BY: the n-th row is the one that n - 1 rows come before.
Ranked(S, Before(_, _)) ==
  [n \in 1..Cardinality(S) |-> CHOOSE r \in S : Cardinality({s \in S : Before(s, r)}) = n - 1]

\* ORDER BY the column, then id descending.
Listed(S, sort_by, order) ==
  Ranked(S, LAMBDA r, s :
    \/ IF order = "asc" THEN r[sort_by] < s[sort_by] ELSE r[sort_by] > s[sort_by]
    \/ r[sort_by] = s[sort_by] /\ r.id > s.id)

Lesser(a, b) == IF a < b THEN a ELSE b
Greater(a, b) == IF a > b THEN a ELSE b
Ceiling(n, size) == (n + size - 1) \div size

WindowOffset_mutant(seq, page, size) ==
  SubSeq(seq, page * size + 1, Lesser((page + 1) * size, Len(seq)))

\* OFFSET and LIMIT.
Window(seq, page, size) ==
  SubSeq(seq, (page - 1) * size + 1, Lesser(page * size, Len(seq)))

\* GET /records: 422, or a page.
ListRecords(table, query) ==
  LET page == Given(Param(query, "page"), 1)
      size == Given(Param(query, "page_size"), 20)
      found == Filtered(table, RecordFilters(query))
      total == Cardinality(found)
      ordered == Listed(found, Given(Param(query, "sort_by"), "timestamp"),
                               Given(Param(query, "order"), "desc"))
  IN  IF page < 1 \/ size \notin 1..MaxPageSize THEN [ok |-> FALSE]
      ELSE [ok |-> TRUE, items |-> Window(ordered, page, size), total |-> total,
            page |-> page, page_size |-> size, pages |-> Ceiling(total, size)]

\* list_for_export(): oldest first.
Oldest(S) ==
  Ranked(S, LAMBDA r, s :
    r.timestamp < s.timestamp \/ (r.timestamp = s.timestamp /\ r.id < s.id))

\* services/excel.py: a leading apostrophe before a title or a category that would be a
\* formula, and the sheet below its header.
Apostrophe == 0
Cell(text) == IF text \in Formulas THEN <<Apostrophe, text>> ELSE <<text>>

WorkbookTitlesOnly_mutant(rows) ==
  [n \in DOMAIN rows |-> [rows[n] EXCEPT !.title = Cell(@), !.category = <<@>>]]

Workbook(rows) ==
  [n \in DOMAIN rows |-> [rows[n] EXCEPT !.title = Cell(@), !.category = Cell(@)]]

\* GET /records/export.xlsx.
ExportRecords(table, query) ==
  LET oldest == Oldest(Filtered(table, RecordFilters(query)))
      rows == SubSeq(oldest, 1, Lesser(ExportRowLimit, Len(oldest)))
  IN  [sheet |-> Workbook(rows), rows |-> Len(rows), truncated |-> Len(rows) >= ExportRowLimit]

---------------------------------------------------------------------------
(* crud/analytics.py and its routes; the counts of GET /admin/database-status. *)

Least(S) == {v \in S : \A w \in S : v <= w}
Most(S) == {v \in S : \A w \in S : v >= w}

Aggregate(S) ==
  LET values == {r.value : r \in S} IN
    [count |-> Cardinality(S), total |-> FoldSet(LAMBDA r, sum : r.value + sum, 0, S),
     minimum |-> Least(values), maximum |-> Most(values)]

AnalyticsFilters(query) ==
  [category |-> Param(query, "category"), source |-> Param(query, "source"),
   start |-> Param(query, "start_time"), end |-> Param(query, "end_time")]

Summary(table, query) == Aggregate(Filtered(table, AnalyticsFilters(query)))

\* GROUP BY and ORDER BY a key of the rows: each key with its aggregates.
Grouped(S, Key(_)) ==
  LET keys == Ranked({Key(r) : r \in S}, <)
  IN  [n \in DOMAIN keys |->
        [key |-> keys[n], of |-> Aggregate({r \in S : Key(r) = keys[n]})]]

ByCategory(table, query) ==
  Grouped(Filtered(table, [AnalyticsFilters(query) EXCEPT !.category = {}]),
          LAMBDA r : r.category)

\* _bucket_expression(): the timestamp cut down to its interval.
Bucket(t, interval) ==
  LET width == CASE interval = "minute" -> 1
                 [] interval = "hour" -> HourLength
                 [] interval = "day" -> DayLength
  IN  (t \div width) * width

Trend(table, query) ==
  LET interval == Given(Param(query, "interval"), "minute")
  IN  Grouped(Filtered(table, AnalyticsFilters(query)), LAMBDA r : Bucket(r.timestamp, interval))

\* The counts and the latest reading that GET /admin/database-status reports.
DatabaseStatus(table) ==
  LET realtime == {r \in table : r.source = "REALTIME"}
  IN  [data_records |-> Cardinality(table), realtime_records |-> Cardinality(realtime),
       latest_realtime_timestamp |-> Most({r.timestamp : r \in realtime})]

---------------------------------------------------------------------------
(* The frontend's side.                                                    *)

\* records_api.build_query().
BuildQuery(page, page_size, f, sort_by, order) ==
  [page |-> {page}, page_size |-> {page_size}, sort_by |-> {sort_by}, order |-> {order},
   category |-> f.category, source |-> f.source, start |-> f.start, end |-> f.end]

\* records_api.export_query().
ExportQuery(f) ==
  [category |-> f.category, source |-> f.source, start |-> f.start, end |-> f.end]

AnalyticsQueryOtherNames_mutant(f, interval) ==
  [start |-> f.start, end |-> f.end,
   category |-> f.category, source |-> f.source, interval |-> interval]

\* analytics_api.build_query().
AnalyticsQuery(f, interval) ==
  [start_time |-> f.start, end_time |-> f.end,
   category |-> f.category, source |-> f.source, interval |-> interval]

\* admin_api.realtime_history().
HistoryQuery(page, page_size, category) ==
  BuildQuery(page, page_size,
    [category |-> category, source |-> {"REALTIME"}, start |-> {}, end |-> {}],
    "timestamp", "desc")

\* ui.start_of_day(), ui.end_of_day().
StartOfDay(day) == day * DayLength
EndOfDay(day) == day * DayLength + DayLength - 1

\* records_api.total_pages(), clamp_page().
TotalPages(total, page_size) == IF total <= 0 \/ page_size <= 0 THEN 0 ELSE Ceiling(total, page_size)

ClampPageNot_mutant(page, pages) == Greater(page, pages)

ClampPage(page, pages) == IF pages <= 0 THEN 1 ELSE Greater(1, Lesser(page, pages))

\* records_api.can_modify(), modifiable().
CanModify(record, user) ==
  \/ user.role = "ADMIN"
  \/ user.role # "VIEWER" /\ record.owner # "nobody" /\ record.owner = user.id

Modifiable(records, user) ==
  LET kept == Ranked({n \in DOMAIN records : CanModify(records[n], user)}, <)
  IN  [k \in DOMAIN kept |-> records[kept[k]]]

\* records_api.changed_fields(): the PATCH body, as a function on the changed fields.
ChangedFields(record, submitted) ==
  [f \in {g \in DOMAIN submitted : submitted[g] # record[g]} |-> submitted[f]]

\* update() of crud/data_record.py: the fields of the body are set.
Patched(record, changes) ==
  [f \in DOMAIN record |-> IF f \in DOMAIN changes THEN changes[f] ELSE record[f]]

\* The server's rule for PATCH and DELETE: require_write, _ensure_may_modify.
MayModify(record, user) ==
  user.role \in {"ADMIN", "USER"} /\ (user.role = "ADMIN" \/ record.owner = user.id)
=============================================================================
