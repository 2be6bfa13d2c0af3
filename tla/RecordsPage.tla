---------------------------- MODULE RecordsPage ----------------------------
(***************************************************************************)
(* views/records.py: one browser on the records page of a session, and the *)
(* table it looks at, which others change at any time.  Every event of the *)
(* browser runs the whole script again: it fetches the list anew, and what *)
(* was clicked on the screen before is handled on what is there now.       *)
(* Streamlit is modelled by how the script uses it: st.rerun() drops the   *)
(* click; a select box keeps its choice while its labels are the same and  *)
(* goes back to the first option otherwise; an input keeps what was typed  *)
(* while its default is the same; a run that ends before it draws them may *)
(* lose both.  The browser sends one event at a time.  A request answered  *)
(* 401 signs the user out of this page and is not modelled.                *)
(***************************************************************************)
EXTENDS Queries

CONSTANTS MaxId,          \* bound: records ever inserted
          Me, Accounts,   \* the id of the session's user, and the users it may be
          Filters,        \* what the filter widgets are set to
          Default,        \* their defaults
          Contents,       \* per id, the record as it is inserted
          EditFields, Typed \* the inputs of the edit form, and what is typed there

Fields == {"id", "title", "category", "value", "timestamp", "source", "owner"}
IsContent(r) ==
  /\ DOMAIN r = Fields
  /\ \A f \in {"id", "title", "category", "value", "timestamp"} : r[f] \in Int

ASSUME RecordsPageAssumption ==
  /\ MaxId \in Nat
  /\ \A user \in Accounts : user.id = Me /\ user.role \in {"ADMIN", "USER", "VIEWER"}
  /\ Default \in Filters
  /\ \A w \in Filters :
       /\ w.page_size \in 1..MaxPageSize
       /\ w.sort_by \in {"timestamp", "value", "title", "category", "id"}
       /\ \A days \in w.days : days.from \in Int /\ days.to \in Int
  /\ \A id \in 1..MaxId : IsContent(Contents[id]) /\ Contents[id].id = id
  /\ EditFields \subseteq {"title", "category", "value", "timestamp"} /\ Typed \subseteq Int

VARIABLES user,       \* USER_KEY
          table,      \* data_records
          born,       \* ids given so far
          widgets,    \* the filters
          signature,  \* FILTER_KEY: {} or the filters of the last run
          page,       \* PAGE_KEY
          pending,    \* CONFIRM_KEY: {} or an id
          exported,   \* EXPORT_KEY, EXPORT_ROWS_KEY: {} or the filters of the export they are of
          screen,     \* what the last run fetched
          choice,     \* the positions in the select boxes of edit and delete
          typed,      \* inputs of the edit form that were changed: field, default, value
          phase,      \* "shown"; "run", a run begins; "fetch", it waits; "act", it has the list
          click,      \* what was clicked, and the record the user saw with it
          sent        \* history: the last PATCH or DELETE, and that record

vars == <<user, table, born, widgets, signature, page, pending, exported, screen,
          choice, typed, phase, click, sent>>
outside == <<user, table, born, exported>>
store == <<signature, page, pending>>
inputs == <<widgets, choice, typed>>

Ids == 1..MaxId
NoClick == [on |-> "nothing"]
Nothing == {}
First == [edit |-> 1, delete |-> 1]
Blank == [items |-> <<>>, total |-> 0, page |-> 1, pages |-> 0]

\* The filters as lines 52-54 give them to the requests.
RequestFilters(w) ==
  [category |-> w.category, source |-> w.source,
   start |-> {StartOfDay(days.from) : days \in w.days},
   end |-> {EndOfDay(days.to) : days \in w.days}]

MayWrite == user.role \in {"ADMIN", "USER"}
Editable(records) == IF MayWrite THEN Modifiable(records, user) ELSE <<>>

\* describe(): the label of an option.
Label(r) == <<r.id, r.title, r.value, r.category>>
Labels(records) == [n \in DOMAIN records |-> Label(records[n])]

Chosen(box) == Editable(screen.items)[choice[box]]

\* A run ends before it draws the select boxes and inputs.
Undrawn ==
  \/ UNCHANGED <<choice, typed>>
  \/ choice' = First /\ typed' = {}

Init ==
  /\ user \in Accounts
  /\ table = {} /\ born = 0
  /\ widgets = Default /\ signature = {} /\ page = 1
  /\ pending = {} /\ exported = {}
  /\ screen = Blank /\ choice = First /\ typed = {}
  /\ phase = "run" /\ click = NoClick /\ sent = Nothing

---------------------------------------------------------------------------
(* Others.                                                                 *)

\* The generator or another session inserts a record, this user's or not.
Insert ==
  /\ born < MaxId /\ born' = born + 1
  /\ table' = table \cup {Contents[born']}
  /\ UNCHANGED <<user, exported, inputs, store, screen, phase, click, sent>>

\* Another session deletes a record.
Vanish(r) ==
  /\ r \in table /\ table' = table \ {r}
  /\ UNCHANGED <<user, exported, born, inputs, store, screen, phase, click, sent>>

---------------------------------------------------------------------------
(* The browser.                                                            *)

\* An event: the script runs.
Event(what) ==
  /\ phase = "shown" /\ phase' = "run"
  /\ click' = what /\ sent' = Nothing
  /\ UNCHANGED <<outside, screen>>

SetFilters(w) ==
  /\ w # widgets /\ widgets' = w
  /\ Event(NoClick)
  /\ UNCHANGED <<store, choice, typed>>

\* "Reset filters", handled in lines 45-50 of the run and followed by another.
ResetFilters ==
  /\ widgets' = Default /\ signature' = {} /\ page' = 1
  /\ Event(NoClick) /\ Undrawn
  /\ UNCHANGED pending

\* Another record is selected in one of the boxes.
Select(box, n) ==
  /\ n \in DOMAIN Editable(screen.items) /\ n # choice[box]
  /\ choice' = [choice EXCEPT ![box] = n]
  /\ Event(NoClick)
  /\ UNCHANGED <<store, widgets, typed>>

\* Something is typed into the edit form, which waits for its button.
Type(field, value) ==
  /\ phase = "shown" /\ Editable(screen.items) # <<>> /\ typed = {}
  /\ value # Chosen("edit")[field]
  /\ typed' = {[field |-> field, default |-> Chosen("edit")[field], value |-> value]}
  /\ UNCHANGED <<outside, store, widgets, screen, choice, phase, click, sent>>

\* A button that is on the screen.
Press(button) ==
  /\ \/ button = "previous" /\ screen.page > 1
     \/ button = "next" /\ screen.page < screen.pages
     \/ button = "export"
     \/ button = "create" /\ MayWrite
  /\ Event([on |-> button])
  /\ UNCHANGED <<store, inputs>>

\* A button that comes with a record: of the edit form, "Delete record" or, after
\* the warning, "Yes, delete" or "Cancel".
PressOn(button) ==
  /\ Editable(screen.items) # <<>>
  /\ LET r == Chosen(IF button = "save" THEN "edit" ELSE "delete") IN
       /\ \/ button = "save"
          \/ button = "delete" /\ pending # {r.id}
          \/ button \in {"confirm", "cancel"} /\ pending = {r.id}
       /\ Event([on |-> button, seen |-> r])
  /\ UNCHANGED <<store, inputs>>

---------------------------------------------------------------------------
(* A run of the script, lines 52-94: the list is fetched.                  *)

\* Any change of filters returns to the first page.
BeginRun ==
  /\ phase = "run" /\ phase' = "fetch"
  /\ signature' = {widgets}
  /\ page' = IF signature = {widgets} THEN page ELSE 1
  /\ sent' = Nothing
  /\ UNCHANGED <<outside, inputs, pending, screen, click>>

Answer ==
  ListRecords(table, BuildQuery(page, widgets.page_size, RequestFilters(widgets),
                                widgets.sort_by, widgets.order))

RenderedKeepsChoice_mutant(records) ==
  LET options == Editable(records)
  IN  /\ choice' = choice
      /\ typed' = {input \in typed : options # <<>>
                     /\ choice'.edit \in DOMAIN options
                     /\ options[choice'.edit][input.field] = input.default}

\* After a run the select boxes and inputs that are still the same keep their state.
Rendered(records) ==
  LET options == Editable(records)
  IN  /\ choice' = IF Labels(options) = Labels(Editable(screen.items)) THEN choice ELSE First
      /\ typed' = {input \in typed : options # <<>>
                     /\ options[choice'.edit][input.field] = input.default}

Shown(answer) ==
  /\ screen' = [items |-> answer.items, total |-> answer.total,
                page |-> page, pages |-> answer.pages]
  /\ Rendered(answer.items)
  /\ phase' = "act" /\ UNCHANGED <<page, click>>

FetchedUnclamped_mutant(answer) == Shown(answer)

\* The list is there.  Lines 92-94: if the page is gone, the run ends and another begins.
Fetched(answer) ==
  \/ page <= Greater(answer.pages, 1) /\ Shown(answer)
  \/ /\ page > Greater(answer.pages, 1)
     /\ page' = ClampPage(page, answer.pages)
     /\ phase' = "run" /\ click' = NoClick /\ Undrawn
     /\ UNCHANGED screen

Fetch ==
  /\ phase = "fetch"
  /\ \E answer \in {Answer} : answer.ok /\ Fetched(answer)
  /\ UNCHANGED <<outside, widgets, signature, pending, sent>>

\* Lines 79-85: no answer, or an error; only its message is shown.
FetchFails ==
  /\ phase = "fetch" /\ phase' = "shown" /\ click' = NoClick
  /\ screen' = Blank /\ Undrawn
  /\ UNCHANGED <<outside, store, widgets, sent>>

---------------------------------------------------------------------------
(* The rest of the run: the click is handled.                              *)

Handles(button) == phase = "act" /\ click.on = button
Done == phase' = "shown" /\ click' = NoClick
Rerun == phase' = "run" /\ click' = NoClick

\* Nothing was clicked, or the button is not drawn this time.
Unhandled ==
  /\ phase = "act"
  /\ \/ click.on = "nothing"
     \/ click.on \in {"save", "delete", "confirm", "cancel"} /\ Editable(screen.items) = <<>>
     \/ /\ click.on \in {"confirm", "cancel"} /\ Editable(screen.items) # <<>>
        /\ pending # {Chosen("delete").id}
     \/ /\ click.on = "delete" /\ Editable(screen.items) # <<>>
        /\ pending = {Chosen("delete").id}
  /\ Done
  /\ UNCHANGED <<outside, store, inputs, screen, sent>>

Turn ==
  /\ \/ Handles("previous") /\ page' = page - 1
     \/ Handles("next") /\ page' = page + 1
  /\ Rerun /\ Undrawn
  /\ UNCHANGED <<outside, widgets, signature, pending, screen, sent>>

\* The bytes of ExportRecords and their number of rows are kept for the download button
\* and its caption, or an error is shown and those of an earlier export stay.
Export ==
  /\ Handles("export") /\ Done
  /\ exported' \in {{RequestFilters(widgets)}, exported}
  /\ UNCHANGED <<user, table, born, store, inputs, screen, sent>>

\* The create form and, one row at a time, the import tab.  The request succeeds,
\* succeeds without its answer arriving, or does not.
Create ==
  /\ Handles("create")
  /\ \/ /\ born < MaxId /\ born' = born + 1
        /\ Contents[born'].owner = Me
        /\ table' = table \cup {Contents[born']}
        /\ \/ Rerun /\ Undrawn
           \/ Done /\ UNCHANGED <<choice, typed>>
     \/ Done /\ UNCHANGED <<table, born, choice, typed>>
  /\ UNCHANGED <<user, exported, store, widgets, screen, sent>>

\* A PATCH or DELETE for the record r, that leaves the table as after.  Executed by
\* the server, it brings another run, or its answer is lost; it is refused if the
\* record is gone, and maybe for other reasons.  Then a message is shown.
Send(method, r, fields, after) ==
  /\ sent' = {[method |-> method, record |-> r, fields |-> fields, seen |-> click.seen]}
  /\ \/ /\ \E s \in table : s.id = r.id /\ MayModify(s, user)
        /\ table' = after
        /\ Rerun \/ Done
     \/ Done /\ UNCHANGED table

\* Lines 253-288: the form's values for the record that is chosen now.  The run after
\* a success begins before the other box is drawn.
Save ==
  /\ Handles("save") /\ Editable(screen.items) # <<>>
  /\ LET r == Chosen("edit")
         submitted == [f \in EditFields |->
           IF \E input \in typed : input.field = f
           THEN (CHOOSE input \in typed : input.field = f).value ELSE r[f]]
         changes == ChangedFields(r, submitted)
     IN  \/ DOMAIN changes = {} /\ Done /\ UNCHANGED <<table, sent>>
         \/ /\ DOMAIN changes # {}
            /\ Send("PATCH", r, DOMAIN changes,
                    {IF s.id = r.id THEN Patched(s, changes) ELSE s : s \in table})
  /\ choice' \in {choice, [choice EXCEPT !.delete = 1]}
  /\ choice' # choice => phase' = "run"
  /\ UNCHANGED <<user, exported, born, store, widgets, typed, screen>>

\* Lines 303-305.
AskToDelete ==
  /\ Handles("delete") /\ Editable(screen.items) # <<>>
  /\ pending # {Chosen("delete").id}
  /\ pending' = {Chosen("delete").id}
  /\ Rerun
  /\ UNCHANGED <<outside, signature, page, inputs, screen, sent>>

DeleteUnchecked_mutant ==
  /\ Handles("confirm") /\ Editable(screen.items) # <<>>
  /\ pending # {} /\ pending' = {}
  /\ LET r == Chosen("delete") IN
       Send("DELETE", r, {}, {s \in table : s.id # r.id})
  /\ UNCHANGED <<user, exported, born, signature, page, inputs, screen>>

\* Lines 309-320.
Delete ==
  /\ Handles("confirm") /\ Editable(screen.items) # <<>>
  /\ pending = {Chosen("delete").id} /\ pending' = {}
  /\ LET r == Chosen("delete") IN
       Send("DELETE", r, {}, {s \in table : s.id # r.id})
  /\ UNCHANGED <<user, exported, born, signature, page, inputs, screen>>

\* Lines 321-323.
Cancel ==
  /\ Handles("cancel") /\ Editable(screen.items) # <<>>
  /\ pending = {Chosen("delete").id} /\ pending' = {}
  /\ Rerun
  /\ UNCHANGED <<outside, signature, page, inputs, screen, sent>>

Browser ==
  \/ \E w \in Filters : SetFilters(w)
  \/ ResetFilters
  \/ \E box \in {"edit", "delete"}, n \in 1..MaxPageSize : Select(box, n)
  \/ \E field \in EditFields, value \in Typed : Type(field, value)
  \/ \E button \in {"previous", "next", "export", "create"} : Press(button)
  \/ \E button \in {"save", "delete", "confirm", "cancel"} : PressOn(button)

Script ==
  \/ BeginRun \/ FetchFails \/ Fetch
  \/ Unhandled \/ Turn \/ Export \/ Create \/ Save \/ AskToDelete \/ Delete \/ Cancel

Next ==
  \/ Insert
  \/ \E r \in table : Vanish(r)
  \/ Browser \/ Script

Spec == Init /\ [][Next]_vars

\* Streamlit runs the script to its end.
FairSpec == Spec /\ WF_vars(Script)
---------------------------------------------------------------------------
(* Properties.                                                             *)

IsRecord(r) == IsContent(r) /\ r.id \in 1..born

TypeOK ==
  /\ user \in Accounts
  /\ \A r \in table : IsRecord(r) /\ \A s \in table : s.id = r.id => s = r
  /\ born \in 0..MaxId
  /\ widgets \in Filters /\ signature \in {{}} \cup {{w} : w \in Filters}
  /\ page \in Nat \ {0}
  /\ pending \subseteq Ids /\ Cardinality(pending) <= 1
  /\ exported \in {{}} \cup {{RequestFilters(w)} : w \in Filters}
  /\ \A n \in DOMAIN screen.items : IsRecord(screen.items[n])
  /\ choice \in [{"edit", "delete"} -> Nat \ {0}]
  /\ Editable(screen.items) # <<>> =>
       \A box \in {"edit", "delete"} : choice[box] \in DOMAIN Editable(screen.items)
  /\ Cardinality(typed) <= 1
  /\ phase \in {"shown", "run", "fetch", "act"}
  /\ Cardinality(sent) <= 1

\* The records the user asks for with the filters, as the widgets say it.
Wanted ==
  {r \in table :
    /\ widgets.category \subseteq {r.category} /\ widgets.source \subseteq {r.source}
    /\ \A days \in widgets.days : r.timestamp \div DayLength \in days.from..days.to}

\* Browsing through all pages shows every wanted record once, sorted, on full pages
\* but the last, and the frontend counts the pages as the backend does, also when
\* sort keys repeat (crud/data_record.py:132-147, routes/records.py:125).
PagesPartition ==
  LET size == widgets.page_size
      Page(n) == ListRecords(table, BuildQuery(n, size, RequestFilters(widgets),
                                               widgets.sort_by, widgets.order))
      pages == TotalPages(Cardinality(Wanted), size)
      shown == [i \in 1..Cardinality(Wanted) |->
                  Page((i - 1) \div size + 1).items[((i - 1) % size) + 1]]
      Key(i) == shown[i][widgets.sort_by]
  IN  /\ Page(1).pages = pages /\ Page(1).total = Cardinality(Wanted)
      /\ \A n \in 1..pages :
           Len(Page(n).items) = Lesser(size, Cardinality(Wanted) - (n - 1) * size)
      /\ Page(pages + 1).items = <<>>
      /\ {shown[i] : i \in DOMAIN shown} = Wanted
      /\ \A i, j \in DOMAIN shown : i < j =>
           IF widgets.order = "asc" THEN Key(i) <= Key(j) ELSE Key(i) >= Key(j)

\* The workbook holds what the pages hold, oldest first and with every title and
\* category, which users choose, readable as text and none taken for a formula; and
\* the response says when it was cut at the limit (routes/records.py:197-221,
\* excel.py:31-46).
ExportIsListing ==
  LET export == ExportRecords(table, ExportQuery(RequestFilters(widgets)))
      ids == {export.sheet[n].id : n \in DOMAIN export.sheet}
      Reads(cell, text) == cell[1] \notin Formulas /\ cell[Len(cell)] = text
  IN  /\ Cardinality(ids) = export.rows /\ ids \subseteq {r.id : r \in Wanted}
      /\ ~export.truncated => ids = {r.id : r \in Wanted}
      /\ export.truncated => export.rows = ExportRowLimit
      /\ \A m, n \in DOMAIN export.sheet : m < n =>
           export.sheet[m].timestamp <= export.sheet[n].timestamp
      /\ \A n \in DOMAIN export.sheet, r \in Wanted : r.id = export.sheet[n].id =>
           /\ Reads(export.sheet[n].title, r.title)
           /\ Reads(export.sheet[n].category, r.category)

\* Every page of the application counts the same records: the summary of the
\* analytics page is over what the records page lists, its categories and the
\* buckets of its trend add up to it, and the realtime history has as many rows, and
\* as its first one the reading, that the database status reports
\* (crud/analytics.py:49-159, admin.py:241-254, analytics_api.py:16-35).
CountsAgree ==
  LET f == RequestFilters(widgets)
      summary == Summary(table, AnalyticsQuery(f, {}))
      all == Summary(table, AnalyticsQuery([f EXCEPT !.category = {}], {}))
      AddUp(groups, whole, field) ==
        FoldSet(LAMBDA n, sum : groups[n].of[field] + sum, 0, DOMAIN groups) = whole[field]
      history == ListRecords(table, HistoryQuery(1, MaxPageSize, {}))
      status == DatabaseStatus(table)
  IN  /\ summary = Aggregate(Wanted)
      /\ \A field \in {"count", "total"} :
           /\ AddUp(ByCategory(table, AnalyticsQuery(f, {})), all, field)
           /\ \A interval \in {"minute", "hour", "day"} :
                AddUp(Trend(table, AnalyticsQuery(f, {interval})), summary, field)
      /\ history.total = status.realtime_records
      /\ status.latest_realtime_timestamp =
           {history.items[n].timestamp : n \in DOMAIN history.items \cap {1}}

\* "{n} rows match the current filters." (views/records.py:150): what the caption beside
\* a list says of the export that is offered for download.
CaptionTrue ==
  phase = "shown" /\ screen.items # <<>> => \A f \in exported : f = RequestFilters(widgets)

\* The user is never left on a page beyond the end that was there when it was
\* fetched, with records on the earlier ones and nothing to see (views/records.py:91-94).
NoPageBeyondEnd ==
  /\ screen.page <= Greater(screen.pages, 1)
  /\ screen.total > 0 => screen.items # <<>>

\* A DELETE is only sent for the record whose number the user saw in the warning when
\* he confirmed, although the list, the select box and its choice are made anew
\* between the warning and the request (views/records.py:294-312).
DeleteOnlyConfirmed ==
  \A s \in sent : s.method = "DELETE" => s.record.id = s.seen.id

\* A PATCH goes to the record the user saw in the form, or, when the list has changed
\* under the form, to one that had the same value in every field it changes: an input
\* whose default differs is made anew, without what was typed (views/records.py:247-280).
EditHitsSeenOrTwin ==
  \A s \in sent : s.method = "PATCH" =>
    \/ s.record.id = s.seen.id
    \/ \A f \in s.fields : s.record[f] = s.seen[f]

\* Whatever changed between the screen and the request, a write goes where the user
\* saw it go.
WritesAsSeen == DeleteOnlyConfirmed /\ EditHitsSeenOrTwin

\* Every run comes to its end, also if the table shrinks while the page follows it
\* with st.rerun() (views/records.py:91-94).
RunsEnd == (phase # "shown") ~> (phase = "shown")
=============================================================================
