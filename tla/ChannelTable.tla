---------------------------- MODULE ChannelTable ----------------------------
(***************************************************************************)
(* The table of channels of the administrator's web interface              *)
(* (web/src/hooks/channels/useChannelsData.jsx and the components that     *)
(* call it): one page of the channels is on the screen while requests for  *)
(* pages, searches and operations on single rows are under way.            *)
(*                                                                         *)
(* Plain loads are numbered and only the answer to the newest is used;     *)
(* searches are not numbered; operations on a row keep the list of the     *)
(* render they were clicked in and put it back when they succeed.  A GET   *)
(* for an address that is already under way shares its answer              *)
(* (helpers/api.js).                                                       *)
(*                                                                         *)
(* A handler up to its next await is one step.  The server answers from    *)
(* its table at a moment of its own between the request and the answer.    *)
(* Status filter and type tab are one filter; tag mode, page size and sort *)
(* order, which are changed the same way, are left out.                    *)
(***************************************************************************)
EXTENDS Integers, Sequences, FiniteSets, FiniteSetsExt

CONSTANTS
  Ids,        \* the channels, by id
  NewIds,     \* those of them that do not exist yet
  OffIds,     \* those of the others that are disabled when the page is opened
  KeyIds,     \* the channels the search terms match
  PageSize,   \* rows of a page
  Pages,      \* the pages the user asks for
  Wants,      \* what is done to rows: "on", "off", "gone", "test", "edit", "copy"
  MaxActs     \* bound on what the user does

ASSUME ChannelTableAssumption ==
  /\ Ids \subseteq Nat /\ NewIds \subseteq Ids /\ OffIds \subseteq Ids /\ KeyIds \subseteq Ids
  /\ PageSize \in Nat \ {0}
  /\ 1 \in Pages /\ Pages \subseteq Nat \ {0}
  /\ Wants \subseteq {"on", "off", "gone", "test", "edit", "copy"} /\ MaxActs \in Nat

VARIABLES
  db,         \* the server's table: status of each channel
  lists,      \* every list the page has had; its row objects are shared by its copies
  shown,      \* channels: the list on the screen
  page,       \* activePage; ClickEvent: the event of a click has got there
  filter,     \* statusFilter, activeTypeKey, enableTagMode
  form,       \* the search terms in the form now, "none": every field is empty
  counter,    \* requestCounter.current
  loading,
  searching,
  calls,      \* calls of loadChannels and searchChannels that wait for an answer
  wire,       \* the GET requests under way: whether the server has read its table, and what
  rowCalls,   \* operations on rows under way
  timers,     \* pending refreshes of the reset button, with the page and filter they keep
  acts,       \* what the user has done so far
  odd         \* history: the irregular things that have happened

screen == <<page, filter, form>>
spinner == <<loading, searching>>
vars == <<db, lists, shown, screen, counter, spinner, calls, wire, rowCalls, timers, acts, odd>>

Filters == {"all", "enabled"}
Terms == {"none", "key"}
\* The refresh button passes the event of the click for a page number.
ClickEvent == 0
PageArgs == Pages \union {ClickEvent}
Queries == [page : PageArgs, filter : Filters, key : Terms]
Query(p, f, k) == [page |-> p, filter |-> f, key |-> k]
Oddities == {"race", "reverted", "failed", "unpaged", "stale", "joined"}
NoRows == [i \in {} |-> "on"]

-----------------------------------------------------------------------------
(* The server's side of a list.                                            *)

\* GetPageQuery: what is no number is the first page
PageServed(p) == IF p = ClickEvent THEN 1 ELSE p

Matches(q) ==
  {i \in Ids : /\ db[i] \in {"on", "off"}
               /\ q.filter = "enabled" => db[i] = "on"
               /\ q.key = "key" => i \in KeyIds}

\* Limit and offset give the size of a page.  Which channels are on it is left open: they are
\* in the order of their priorities, which anybody may edit, and ties are in any order.
PageRows(q) ==
  LET left == Cardinality(Matches(q)) - (PageServed(q.page) - 1) * PageSize
      size == Min({PageSize, Max({0, left})})
  IN  {[i \in S |-> db[i]] : S \in {S \in SUBSET Matches(q) : Cardinality(S) = size}}

\* GetAllChannels, SearchChannels
Serve(q) ==
  /\ q \in DOMAIN wire /\ ~wire[q].served
  /\ \E rows \in PageRows(q) : wire' = [wire EXCEPT ![q] = [served |-> TRUE, rows |-> rows]]
  /\ UNCHANGED <<db, lists, shown, screen, counter, spinner, calls, rowCalls, timers, acts, odd>>

-----------------------------------------------------------------------------
(* Asking for a list.                                                      *)

\* the GET of patchAPIInstance: one request for all callers of an address
Get(q) ==
  wire' = IF q \in DOMAIN wire THEN wire
          ELSE [x \in DOMAIN wire \union {q} |->
                  IF x = q THEN [served |-> FALSE, rows |-> NoRows] ELSE wire[x]]

Raced(key) == calls # {} /\ (key # "none" \/ \E c \in calls : c.id = 0)
Mark(cond, what) == IF cond THEN {what} ELSE {}
Asked(p, f, k) ==
  Mark(Raced(k), "race") \union Mark(Query(p, f, k) \in DOMAIN wire, "joined")

\* loadChannels without search terms; sets: the caller resets searching when it is over
Load(q, sets) ==
  /\ counter' = counter + 1
  /\ calls' = calls \union {[q |-> q, id |-> counter + 1, spin |-> FALSE, sets |-> sets]}
  /\ loading' = TRUE /\ searching' = (searching \/ sets)
  /\ Get(q)

\* searchChannels with search terms; spin: loadChannels called it and resets loading
Search(q, spin) ==
  /\ calls' = calls \union {[q |-> q, id |-> 0, spin |-> spin, sets |-> TRUE]}
  /\ loading' = (loading \/ spin) /\ searching' = TRUE
  /\ Get(q) /\ UNCHANGED counter

LoadChannels(p, f, k) ==
  IF k = "none" THEN Load(Query(p, f, k), FALSE) ELSE Search(Query(p, f, k), TRUE)

SearchChannels(p, f, k) ==
  IF k = "none" THEN Load(Query(p, f, k), TRUE) ELSE Search(Query(p, f, k), FALSE)

\* refresh, handlePageChange, the sort switch
Refresh(p, f, k) ==
  IF k = "none" THEN Load(Query(p, f, k), FALSE) ELSE Search(Query(p, f, k), FALSE)

\* the page on mount
Init ==
  /\ db = [i \in Ids |->
             IF i \in NewIds THEN "new" ELSE IF i \in OffIds THEN "off" ELSE "on"]
  /\ lists = << [q |-> Query(1, "all", "none"), rows |-> NoRows] >> /\ shown = 1
  /\ page = 1 /\ filter = "all" /\ form = "none"
  /\ counter = 1 /\ loading = TRUE /\ searching = FALSE
  /\ calls = {[q |-> Query(1, "all", "none"), id |-> 1, spin |-> FALSE, sets |-> FALSE]}
  /\ wire = [q \in {Query(1, "all", "none")} |-> [served |-> FALSE, rows |-> NoRows]]
  /\ rowCalls = {} /\ timers = << >> /\ acts = 0 /\ odd = {}

-----------------------------------------------------------------------------
(* Answers to lists.                                                       *)

Waiting(q) == {c \in calls : c.q = q}

\* mutant of Over: the address stays registered as under way
OverKeepsRequest(q) ==
  /\ calls' = calls \ Waiting(q) /\ UNCHANGED wire
  /\ searching' = (searching /\ \A c \in Waiting(q) : ~c.sets)

Over(q) ==
  /\ calls' = calls \ Waiting(q)
  /\ wire' = [x \in DOMAIN wire \ {q} |-> wire[x]]
  /\ searching' = (searching /\ \A c \in Waiting(q) : ~c.sets)

\* mutant of Applies: the number of the request is not compared
AppliesAlways(q) == Waiting(q) # {}

\* the newest load is among the callers, or they are searches
Applies(q) == \E c \in Waiting(q) : c.id \in {0, counter}

\* mutant of StopsSpinner: forgotten by a loadChannels that searched
StopsSpinnerLoadOnly(q) == \E c \in Waiting(q) : c.id = counter

\* setLoading(false), by the newest load and by a loadChannels that searched
StopsSpinner(q) == \E c \in Waiting(q) : c.id = counter \/ c.spin

\* success; a search also sets the page
Answer(q) ==
  /\ q \in DOMAIN wire /\ wire[q].served
  /\ Over(q)
  /\ IF Applies(q)
     THEN /\ lists' = Append(lists, [q |-> q, rows |-> wire[q].rows])
          /\ shown' = Len(lists) + 1
          /\ page' = IF q.key = "none" THEN page ELSE q.page
     ELSE UNCHANGED <<lists, shown, page>>
  /\ loading' = (loading /\ ~StopsSpinner(q))
  /\ UNCHANGED <<db, filter, form, counter, rowCalls, timers, acts, odd>>

\* success is false: a message, and the list stays
AnswerRefused(q) ==
  /\ q \in DOMAIN wire
  /\ Over(q)
  /\ loading' = (loading /\ ~StopsSpinner(q))
  /\ odd' = odd \union {"failed"}
  /\ UNCHANGED <<db, lists, shown, screen, counter, rowCalls, timers, acts>>

\* the promise is rejected: nothing resets loading
AnswerRejected(q) ==
  /\ q \in DOMAIN wire
  /\ Over(q)
  /\ odd' = odd \union {"failed"}
  /\ UNCHANGED <<db, lists, shown, screen, counter, loading, rowCalls, timers, acts>>

-----------------------------------------------------------------------------
(* The controls of the page.                                               *)

Act == acts < MaxActs /\ acts' = acts + 1

PageChange(p) ==
  /\ Act /\ p # page
  /\ page' = p
  /\ Refresh(p, filter, form)
  /\ odd' = odd \union Asked(p, filter, form)
  /\ UNCHANGED <<db, lists, shown, filter, form, rowCalls, timers>>

FilterChange(f) ==
  /\ Act /\ f # filter
  /\ filter' = f /\ page' = 1
  /\ LoadChannels(1, f, form)
  /\ odd' = odd \union Asked(1, f, form)
  /\ UNCHANGED <<db, lists, shown, form, rowCalls, timers>>

Type(k) ==
  /\ Act /\ k # form /\ form' = k
  /\ UNCHANGED <<db, lists, shown, page, filter, counter, spinner, calls, wire, rowCalls, timers, odd>>

\* the first page, but only the answer to a search says so to the paginator
Submit ==
  /\ Act
  /\ SearchChannels(1, filter, form)
  /\ odd' = odd \union Asked(1, filter, form) \union Mark(form = "none" /\ page # 1, "unpaged")
  /\ UNCHANGED <<db, lists, shown, screen, rowCalls, timers>>

\* onClick={refresh}: an answer to a search makes the event the page of the paginator too
RefreshClick ==
  /\ Act
  /\ Refresh(ClickEvent, filter, form)
  /\ odd' = odd \union Asked(ClickEvent, filter, form)
                \union Mark(form # "none" \/ page # 1, "unpaged")
  /\ UNCHANGED <<db, lists, shown, screen, rowCalls, timers>>

\* the form is emptied, and the refresh of this render is called after 100 ms
Reset ==
  /\ Act /\ form' = "none"
  /\ timers' = Append(timers, [page |-> page, filter |-> filter])
  /\ UNCHANGED <<db, lists, shown, page, filter, counter, spinner, calls, wire, rowCalls, odd>>

Stale(r) == r.page # page \/ r.filter # filter

ResetTimer ==
  /\ timers # << >> /\ timers' = Tail(timers)
  /\ Refresh(Head(timers).page, Head(timers).filter, form)
  /\ odd' = odd \union Asked(Head(timers).page, Head(timers).filter, form)
                \union Mark(Stale(Head(timers)), "stale")
  /\ UNCHANGED <<db, lists, shown, screen, rowCalls, acts>>

-----------------------------------------------------------------------------
(* Operations on a row: manageChannel, updateChannelBalance, testChannel,  *)
(* copySelectedChannel and the submission of the edit dialog, like which   *)
(* the tag dialogs, the batch tags and the repair of abilities end.        *)

\* A spinner (external) covers the rows, but not a dialog, while a list is awaited.
RowClick(i, want) ==
  /\ Act /\ i \in DOMAIN lists[shown].rows
  /\ want # "edit" => ~loading /\ ~searching
  /\ rowCalls' = rowCalls \union
       {[row |-> i, want |-> want, list |-> shown, page |-> page, filter |-> filter, state |-> "sent"]}
  /\ UNCHANGED <<db, lists, shown, screen, counter, spinner, calls, wire, timers, odd>>

SetState(c, st) == rowCalls' = (rowCalls \ {c}) \union {[c EXCEPT !.state = st]}

\* CopyChannel inserts a channel with the status of the original
Copied(i) == \E new \in Ids : db[new] = "new" /\ db' = [db EXCEPT ![new] = db[i]]

\* UpdateChannel, TestChannel and CopyChannel refuse a channel that is gone, DeleteChannel
\* deletes it again; any of them may meet an error of the database.
RowServe(c) ==
  /\ c.state = "sent"
  /\ \/ SetState(c, "refused") /\ UNCHANGED db
     \/ /\ db[c.row] = "gone" => c.want = "gone"
        /\ SetState(c, "ok")
        /\ CASE c.want \in {"on", "off", "gone"} -> db' = [db EXCEPT ![c.row] = c.want]
             [] c.want = "copy" -> Copied(c.row)
             [] OTHER -> UNCHANGED db
  /\ UNCHANGED <<lists, shown, screen, counter, spinner, calls, wire, timers, acts, odd>>

\* Success: the row object takes the new status, and the list of the click is shown again.
RowAnswer(c) ==
  /\ c.state = "ok" /\ c.want \in {"on", "off", "test"}
  /\ rowCalls' = rowCalls \ {c}
  /\ lists' = IF c.want = "test" THEN lists ELSE [lists EXCEPT ![c.list].rows[c.row] = c.want]
  /\ shown' = c.list
  /\ odd' = odd \union Mark(c.list # shown, "reverted")
  /\ UNCHANGED <<db, screen, counter, spinner, calls, wire, timers, acts>>

\* mutant of DeleteAnswer: no refresh
DeleteAnswerOnly(c) ==
  /\ c.state # "sent" /\ c.want = "gone"
  /\ rowCalls' = rowCalls \ {c}
  /\ UNCHANGED <<db, lists, shown, screen, counter, spinner, calls, wire, timers, acts, odd>>

\* A deletion, refused or not, is followed by the refresh of the render of the click.  (The
\* timer after it looks at the list of the click, which is not empty, and does nothing.)
DeleteAnswer(c) ==
  /\ c.state # "sent" /\ c.want = "gone"
  /\ rowCalls' = rowCalls \ {c}
  /\ shown' = IF c.state = "ok" THEN c.list ELSE shown
  /\ Refresh(c.page, c.filter, form)
  /\ odd' = odd \union Mark(c.list # shown, "reverted") \union Mark(Stale(c), "stale")
                \union Asked(c.page, c.filter, form)
  /\ UNCHANGED <<db, lists, screen, timers, acts>>

\* An edited or copied channel is followed by that refresh too; the list stays until then.
EditAnswer(c) ==
  /\ c.state = "ok" /\ c.want \in {"edit", "copy"}
  /\ rowCalls' = rowCalls \ {c}
  /\ Refresh(c.page, c.filter, form)
  /\ odd' = odd \union Mark(Stale(c), "stale") \union Asked(c.page, c.filter, form)
  /\ UNCHANGED <<db, lists, shown, screen, timers, acts>>

RowFails(c) ==
  /\ rowCalls' = rowCalls \ {c}
  /\ c.state = "refused" => c.want # "gone"
  /\ odd' = odd \union Mark(c.state = "ok", "failed")
  /\ UNCHANGED <<db, lists, shown, screen, counter, spinner, calls, wire, timers, acts>>

-----------------------------------------------------------------------------
Next ==
  \/ \E q \in DOMAIN wire : Serve(q) \/ Answer(q) \/ AnswerRefused(q) \/ AnswerRejected(q)
  \/ \E p \in Pages : PageChange(p)
  \/ \E f \in Filters : FilterChange(f)
  \/ \E k \in Terms : Type(k)
  \/ Submit \/ RefreshClick \/ Reset \/ ResetTimer
  \/ \E i \in Ids, want \in Wants : RowClick(i, want)
  \/ \E c \in rowCalls :
       RowServe(c) \/ RowAnswer(c) \/ DeleteAnswer(c) \/ EditAnswer(c) \/ RowFails(c)

Spec == Init /\ [][Next]_vars

\* Every request is answered, be it with an error.
FairSpec ==
  Spec /\ \A q \in Queries : WF_vars(Serve(q)) /\ WF_vars(Answer(q) \/ AnswerRefused(q) \/ AnswerRejected(q))

-----------------------------------------------------------------------------
(* Properties.                                                             *)

Statuses == {"new", "on", "off", "gone"}
CallType == [q : Queries, id : 0 .. counter, spin : BOOLEAN, sets : BOOLEAN]
RowCallType ==
  [row : Ids, want : Wants, list : 1 .. Len(lists), page : PageArgs, filter : Filters,
   state : {"sent", "ok", "refused"}]

\* The variables keep their types; a call waits for a request that is under way, and every
\* request has a caller.
TypeOK ==
  /\ db \in [Ids -> Statuses] /\ shown \in DOMAIN lists
  /\ \A v \in DOMAIN lists : lists[v].q \in Queries /\ DOMAIN lists[v].rows \subseteq Ids
  /\ page \in PageArgs /\ filter \in Filters /\ form \in Terms
  /\ counter \in Nat /\ loading \in BOOLEAN /\ searching \in BOOLEAN
  /\ calls \subseteq CallType /\ rowCalls \subseteq RowCallType
  /\ DOMAIN wire = {c.q : c \in calls}
  /\ acts \in 0 .. MaxActs /\ odd \subseteq Oddities

Idle == calls = {} /\ rowCalls = {} /\ timers = << >>

\* At rest the rows are those of the page and the filter that the controls show, unless a
\* search overlapped another request, an operation on a row put an older list back, a list
\* could not be read, an empty search was submitted or the refresh button pressed on a later
\* page (or the latter with search terms), or a refresh used the page and filter of an older
\* render.
ShowsWhatIsAsked ==
  Idle /\ odd \subseteq {"joined"} =>
    PageServed(lists[shown].q.page) = page /\ lists[shown].q.filter = filter

\* At rest no deleted channel is on the screen, unless a refresh shared the answer of an
\* older request, an operation on a row put an older list back, a search
\* overlapped another request, or an answer was lost.
DeletedGone ==
  Idle /\ odd \subseteq {"stale", "unpaged"} =>
    \A i \in DOMAIN lists[shown].rows : db[i] # "gone"

\* The spinner stops, unless an answer was lost.
SpinnerStops == (loading \/ searching) ~> ((~loading /\ ~searching) \/ "failed" \in odd)
=============================================================================
