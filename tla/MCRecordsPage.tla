--------------------------- MODULE MCRecordsPage ---------------------------
(* Three records of two kinds, two of them alike, under two filters.          *)
EXTENDS RecordsPage

CONSTANT me

MCAccounts == {[id |-> me, role |-> role] : role \in {"ADMIN", "USER", "VIEWER"}}
MCViewer == {[id |-> me, role |-> "VIEWER"]}

Filter(category, days, sort_by, order, size) ==
  [category |-> category, source |-> {}, days |-> days, sort_by |-> sort_by,
   order |-> order, page_size |-> size]
Day(day) == {[from |-> day, to |-> day]}
MCDefault == Filter({}, {}, "timestamp", "desc", 2)
MCFilters == {MCDefault, Filter({1}, Day(0), "title", "asc", 1)}

Content(id, title, category, value, timestamp, source, owner) ==
  [id |-> id, title |-> title, category |-> category, value |-> value, timestamp |-> timestamp,
   source |-> source, owner |-> owner]
MCContents == <<Content(1, 1, 1, 1, 1, "MANUAL", me),
                Content(2, 2, 1, 2, 5, "REALTIME", "nobody"),
                Content(3, 1, 1, 3, 1, "IMPORT", me)>>
MCEditFields == {"category"}
MCTyped == {2}
MCNone == {}
MCFormulas == {2}
=============================================================================
