------------------------- MODULE ChannelTableProofs -------------------------
(***************************************************************************)
(* Proofs about ChannelTable: its type invariant and the two promises of   *)
(* the screen at rest, for every set of channels, page size and number of  *)
(* acts of the user.                                                       *)
(***************************************************************************)
EXTENDS ChannelTable, TLAPS

Rows == UNION {[D -> Statuses] : D \in SUBSET Ids}
ListType == [q : Queries, rows : Rows]
ReplyType == [served : BOOLEAN, rows : Rows]
TimerType == [page : PageArgs, filter : Filters]

\* The types of all but the calls, those of the lists and the timers included.
Plain ==
  /\ db \in [Ids -> Statuses] /\ lists \in Seq(ListType) /\ shown \in 1 .. Len(lists)
  /\ page \in PageArgs /\ filter \in Filters /\ form \in Terms
  /\ loading \in BOOLEAN /\ searching \in BOOLEAN
  /\ rowCalls \subseteq RowCallType /\ timers \in Seq(TimerType)
  /\ acts \in 0 .. MaxActs /\ odd \subseteq Oddities

\* The call whose answer will be shown: a search, or the newest load.
Newest(c) == c \in calls /\ c.id \in {0, counter}

\* The calls and their requests: a search, and no other call, has search terms and no
\* number, the newest load is one, and a search is alone unless it has overlapped another
\* call.
CallsOK ==
  /\ counter \in Nat \ {0} /\ calls \subseteq CallType
  /\ wire \in [{c.q : c \in calls} -> ReplyType]
  /\ \A c \in calls : (c.id = 0) <=> (c.q.key = "key")
  /\ \A c, d \in calls : c.id = counter /\ d.id = counter => c = d
  /\ "race" \notin odd => \A c, d \in calls : c.id = 0 => d = c

\* The page and the filter are those of the list on the screen or of the call whose answer
\* comes next; only the answer to a search sets the page.
OnScreen == PageServed(lists[shown].q.page) = page /\ lists[shown].q.filter = filter
Comes(c) ==
  /\ c.q.filter = filter
  /\ IF c.id = 0 THEN c.q.page # ClickEvent ELSE PageServed(c.q.page) = page

Asks ==
  odd \subseteq {"joined"} =>
    /\ page # ClickEvent
    /\ \A c \in calls : Newest(c) => Comes(c)
    /\ (\A c \in calls : ~Newest(c)) => OnScreen

\* Why a deleted channel will not be on the screen at rest: its deletion has not been
\* answered, or the list that is or comes on the screen was read after it.
Pending(i) == \E c \in rowCalls : c.row = i /\ c.want = "gone" /\ c.state = "ok"
Lacks(q, i) == ~wire[q].served \/ i \notin DOMAIN wire[q].rows
Cleared(i) ==
  /\ \A c \in calls : Newest(c) => Lacks(c.q, i)
  /\ (\A c \in calls : ~Newest(c)) => i \notin DOMAIN lists[shown].rows

Deletes ==
  odd \subseteq {"stale", "unpaged"} =>
    \A i \in Ids : db[i] = "gone" => Pending(i) \/ Cleared(i)

IInv == Plain /\ CallsOK /\ Asks /\ Deletes

-----------------------------------------------------------------------------
(* Operators of the model.                                                 *)

\* The rows of a list are channels.
LEMMA ListRows ==
  ASSUME lists \in Seq(ListType), NEW v \in DOMAIN lists
  PROVE  lists[v].q \in Queries /\ DOMAIN lists[v].rows \subseteq Ids
<1>0. lists[v] \in ListType
  OBVIOUS
<1>1. lists[v].q \in Queries /\ lists[v].rows \in Rows
  BY <1>0 DEF ListType
<1>2. PICK D \in SUBSET Ids : lists[v].rows \in [D -> Statuses]
  BY <1>1 DEF Rows
<1> QED
  BY <1>1, <1>2

\* What the server reads from its table are rows, none of them a deleted channel.
LEMMA RowsOfTable ==
  ASSUME db \in [Ids -> Statuses], NEW q, NEW rows \in PageRows(q)
  PROVE  rows \in Rows /\ \A i \in DOMAIN rows : db[i] # "gone"
<1>1. PICK S \in SUBSET Matches(q) : rows = [i \in S |-> db[i]]
  BY DEF PageRows
<1>2. S \subseteq Ids /\ \A i \in S : db[i] # "gone"
  BY <1>1 DEF Matches
<1>3. rows \in [S -> Statuses]
  BY <1>1, <1>2
<1> QED
  BY <1>2, <1>3 DEF Rows

\* A request that is not under way gets an unanswered entry; the others stay.
LEMMA GetEffect ==
  ASSUME NEW D, wire \in [D -> ReplyType], NEW q, Get(q)
  PROVE  /\ wire' \in [D \union {q} -> ReplyType]
         /\ \A x \in D : wire'[x] = wire[x]
         /\ q \notin D => ~wire'[q].served
<1> DEFINE fresh == [served |-> FALSE, rows |-> NoRows]
<1>1. NoRows \in [{} -> Statuses]
  BY DEF NoRows
<1>2. fresh \in ReplyType /\ fresh.served = FALSE
  BY <1>1 DEF ReplyType, Rows
<1>3. wire' = IF q \in D THEN wire ELSE [x \in D \union {q} |-> IF x = q THEN fresh ELSE wire[x]]
  BY DEF Get
<1> HIDE DEF fresh
<1> QED
  BY <1>2, <1>3

\* What every way of asking for a list has in common: one more call, numbered if it has no
\* search terms, and its request.
Asking(q) ==
  \E c \in [q : {q}, id : Nat, spin : BOOLEAN, sets : BOOLEAN] :
    /\ calls' = calls \union {c} /\ Get(q)
    /\ \/ q.key = "none" /\ counter' = counter + 1 /\ c.id = counter'
       \/ q.key = "key" /\ counter' = counter /\ c.id = 0
    /\ loading' \in BOOLEAN /\ searching' \in BOOLEAN

\* Loading, searching and refreshing are ways of asking.
LEMMA AskForms ==
  ASSUME NEW p \in PageArgs, NEW f \in Filters, NEW k \in Terms, counter \in Nat,
         loading \in BOOLEAN, searching \in BOOLEAN,
         LoadChannels(p, f, k) \/ SearchChannels(p, f, k) \/ Refresh(p, f, k)
  PROVE  Query(p, f, k) \in Queries /\ Asking(Query(p, f, k))
<1> PICK q : q = Query(p, f, k)
  OBVIOUS
<1>1. q \in Queries /\ q.key = k /\ q.key \in {"none", "key"}
  BY DEF Queries, Query, Terms
<1>2. \/ k = "none" /\ \E sets \in BOOLEAN : Load(q, sets)
      \/ k # "none" /\ \E spin \in BOOLEAN : Search(q, spin)
  BY DEF LoadChannels, SearchChannels, Refresh
<1>3. CASE k = "none" /\ \E sets \in BOOLEAN : Load(q, sets)
  <2>1. PICK sets \in BOOLEAN : Load(q, sets)
    BY <1>3
  <2> DEFINE c == [q |-> q, id |-> counter + 1, spin |-> FALSE, sets |-> sets]
  <2>2. c \in [q : {q}, id : Nat, spin : BOOLEAN, sets : BOOLEAN] /\ c.id = counter + 1
    OBVIOUS
  <2>3. calls' = calls \union {c} /\ Get(q) /\ counter' = counter + 1
        /\ loading' \in BOOLEAN /\ searching' \in BOOLEAN
    BY <2>1 DEF Load
  <2> HIDE DEF c
  <2> QED
    BY <1>1, <1>3, <2>2, <2>3 DEF Asking
<1>4. CASE k # "none" /\ \E spin \in BOOLEAN : Search(q, spin)
  <2>1. PICK spin \in BOOLEAN : Search(q, spin)
    BY <1>4
  <2> DEFINE c == [q |-> q, id |-> 0, spin |-> spin, sets |-> TRUE]
  <2>2. c \in [q : {q}, id : Nat, spin : BOOLEAN, sets : BOOLEAN] /\ c.id = 0
    OBVIOUS
  <2>3. calls' = calls \union {c} /\ Get(q) /\ counter' = counter
        /\ loading' \in BOOLEAN /\ searching' \in BOOLEAN
    BY <2>1 DEF Search
  <2> HIDE DEF c
  <2> QED
    BY <1>1, <1>4, <2>2, <2>3 DEF Asking
<1> QED
  BY <1>1, <1>2, <1>3, <1>4

-----------------------------------------------------------------------------
(* Asking for a list.                                                      *)

\* One more call: a load becomes the newest, a search is alone or the overlap is on record.
LEMMA AskCalls ==
  ASSUME CallsOK, NEW q \in Queries, Asking(q), odd \subseteq odd', Raced(q.key) => "race" \in odd'
  PROVE  CallsOK'
<1>1. PICK c \in [q : {q}, id : Nat, spin : BOOLEAN, sets : BOOLEAN] :
         /\ calls' = calls \union {c} /\ Get(q)
         /\ \/ q.key = "none" /\ counter' = counter + 1 /\ c.id = counter'
            \/ q.key = "key" /\ counter' = counter /\ c.id = 0
  BY DEF Asking
<1> PICK m, n : m = counter /\ n = counter'
  OBVIOUS
<1>a. c.q = q /\ c.id \in Nat /\ m \in Nat \ {0}
  BY DEF CallsOK
<1>b. (q.key = "none" /\ n = m + 1 /\ c.id = n) \/ (q.key = "key" /\ n = m /\ c.id = 0)
  BY <1>1
<1>2. c.q = q /\ c.id \in 0 .. n /\ (c.id = 0 <=> c.q.key = "key") /\ n \in Nat \ {0} /\ n >= m
  BY <1>a, <1>b
<1>3. calls' \subseteq CallType'
  <2>1. c \in [q : Queries, id : 0 .. counter', spin : BOOLEAN, sets : BOOLEAN]
    BY <1>2
  <2>2. \A d \in calls : d \in [q : Queries, id : 0 .. counter', spin : BOOLEAN, sets : BOOLEAN]
    BY <1>2 DEF CallsOK, CallType
  <2> QED
    BY <1>1, <2>1, <2>2 DEF CallType
<1>4. wire' \in [{d.q : d \in calls}' -> ReplyType]
  <2>1. wire' \in [{d.q : d \in calls} \union {q} -> ReplyType]
    BY <1>1, GetEffect DEF CallsOK
  <2>2. {d.q : d \in calls}' = {d.q : d \in calls} \union {q}
    BY <1>1, <1>2
  <2> QED
    BY <2>1, <2>2
<1>5. \A d \in calls' : (d.id = 0) <=> (d.q.key = "key")
  BY <1>1, <1>2 DEF CallsOK
<1>6. \A d, e \in calls' : d.id = counter' /\ e.id = counter' => d = e
  <2>1. \A d \in calls : d.id \in 0 .. m
    BY DEF CallsOK, CallType
  <2>2. \A d, e \in calls : d.id = m /\ e.id = m => d = e
    BY DEF CallsOK
  <2>3. calls' = calls \union {c}
    BY <1>1
  <2>4. \A d, e \in calls \union {c} : d.id = n /\ e.id = n => d = e
    BY <1>a, <1>b, <2>1, <2>2
  <2> QED
    BY <2>3, <2>4
<1>7. "race" \notin odd' => \A d, e \in calls' : d.id = 0 => e = d
  <2> SUFFICES ASSUME "race" \notin odd' PROVE \A d, e \in calls' : d.id = 0 => e = d
    OBVIOUS
  <2>1. calls = {} \/ (q.key = "none" /\ \A d \in calls : d.id # 0)
    BY DEF Raced
  <2> QED
    BY <1>1, <1>2, <2>1
<1> QED
  BY <1>2, <1>3, <1>4, <1>5, <1>6, <1>7 DEF CallsOK

\* The page and the filter are those of the new call.
LEMMA AskAsks ==
  ASSUME CallsOK, NEW q \in Queries, Asking(q), Raced(q.key) => "race" \in odd',
         odd' \subseteq {"joined"} =>
           /\ q.filter = filter' /\ page' # ClickEvent
           /\ IF q.key = "none" THEN PageServed(q.page) = page' ELSE q.page # ClickEvent
  PROVE  Asks'
<1> SUFFICES ASSUME odd' \subseteq {"joined"}
             PROVE  /\ page' # ClickEvent
                    /\ (\A d \in calls : Newest(d) => Comes(d))' /\ ~(\A d \in calls : ~Newest(d))'
  BY DEF Asks
<1>1. PICK c \in [q : {q}, id : Nat, spin : BOOLEAN, sets : BOOLEAN] :
         /\ calls' = calls \union {c}
         /\ \/ q.key = "none" /\ counter' = counter + 1 /\ c.id = counter'
            \/ q.key = "key" /\ counter' = counter /\ c.id = 0
  BY DEF Asking
<1>2. c.q = q /\ (\A d \in calls : d.id \in 0 .. counter) /\ counter \in Nat
  BY DEF CallsOK, CallType
<1>3. calls = {} \/ (q.key = "none" /\ \A d \in calls : d.id # 0)
  BY DEF Raced
<1> PICK m, n : m = counter /\ n = counter'
  OBVIOUS
<1>a. (q.key = "none" /\ n = m + 1 /\ c.id = n) \/ (q.key = "key" /\ n = m /\ c.id = 0)
  BY <1>1
<1>b. \A d \in calls \union {c} : d.id \in {0, n} => d = c
  BY <1>2, <1>3, <1>a
<1>4. \A d \in calls' : d.id \in {0, counter'} => d = c
  BY <1>1, <1>b
<1>5. c \in calls' /\ c.id \in {0, counter'}
  BY <1>1
<1>6. /\ q.filter = filter' /\ page' # ClickEvent
      /\ IF c.id = 0 THEN q.page # ClickEvent ELSE PageServed(q.page) = page'
  <2>1. q.key = "key" <=> c.id = 0
    BY <1>a, <1>2
  <2> QED
    BY <1>1, <2>1
<1> QED
  BY <1>2, <1>4, <1>5, <1>6 DEF Newest, Comes

\* A request of its own has read nothing yet, so no deleted channel can come with it.
LEMMA AskDeletes ==
  ASSUME CallsOK, NEW q \in Queries, Asking(q), Raced(q.key) => "race" \in odd',
         q \in DOMAIN wire => "joined" \in odd'
  PROVE  Deletes'
<1> SUFFICES ASSUME odd' \subseteq {"stale", "unpaged"}, NEW i \in Ids
             PROVE  Cleared(i)'
  BY DEF Deletes
<1>1. PICK c \in [q : {q}, id : Nat, spin : BOOLEAN, sets : BOOLEAN] :
         /\ calls' = calls \union {c} /\ Get(q)
         /\ \/ q.key = "none" /\ counter' = counter + 1 /\ c.id = counter'
            \/ q.key = "key" /\ counter' = counter /\ c.id = 0
  BY DEF Asking
<1>2. c.q = q /\ (\A d \in calls : d.id \in 0 .. counter) /\ counter \in Nat
  BY DEF CallsOK, CallType
<1>3. calls = {} \/ (q.key = "none" /\ \A d \in calls : d.id # 0)
  BY DEF Raced
<1> PICK m, n : m = counter /\ n = counter'
  OBVIOUS
<1>a. (q.key = "none" /\ n = m + 1 /\ c.id = n) \/ (q.key = "key" /\ n = m /\ c.id = 0)
  BY <1>1
<1>b. \A d \in calls \union {c} : d.id \in {0, n} => d = c
  BY <1>2, <1>3, <1>a
<1>4. \A d \in calls' : d.id \in {0, counter'} => d = c
  BY <1>1, <1>b
<1>5. c \in calls' /\ c.id \in {0, counter'}
  BY <1>1
<1>6. ~wire'[q].served
  BY <1>1, GetEffect DEF CallsOK
<1> QED
  BY <1>2, <1>4, <1>5, <1>6 DEF Newest, Cleared, Lacks

-----------------------------------------------------------------------------
(* The server reads its table, and answers.                                *)

\* The server reads its table: no deleted channel is in the answer.
LEMMA ServeStep ==
  ASSUME IInv, NEW q \in DOMAIN wire, Serve(q)
  PROVE  IInv'
<1>0. PICK rows \in PageRows(q) : wire' = [wire EXCEPT ![q] = [served |-> TRUE, rows |-> rows]]
  BY DEF Serve
<1> DEFINE reply == [served |-> TRUE, rows |-> rows]
<1>1. reply \in ReplyType /\ \A i \in DOMAIN reply.rows : db[i] # "gone"
  BY RowsOfTable DEF ReplyType, IInv, Plain
<1>2. wire' = [wire EXCEPT ![q] = reply]
      /\ UNCHANGED <<db, lists, shown, page, filter, form, counter, loading, searching,
                     calls, rowCalls, timers, acts, odd>>
  BY <1>0 DEF Serve, screen, spinner
<1> HIDE DEF reply
<1>3. Plain'
  BY <1>2 DEF IInv, Plain, RowCallType
<1>4. CallsOK'
  BY <1>1, <1>2 DEF IInv, CallsOK, CallType
<1>5. Asks'
  BY <1>2 DEF IInv, Asks, OnScreen, Comes, Newest
<1>6. Deletes'
  <2> SUFFICES ASSUME odd \subseteq {"stale", "unpaged"}, NEW i \in Ids, db[i] = "gone"
               PROVE  Pending(i)' \/ Cleared(i)'
    BY <1>2 DEF Deletes
  <2>1. CASE Pending(i)
    BY <1>2, <2>1 DEF Pending
  <2>2. CASE Cleared(i)
    <3>1. i \notin DOMAIN reply.rows
      BY <1>1
    <3>2. \A x \in DOMAIN wire : wire'[x] = IF x = q THEN reply ELSE wire[x]
      BY <1>2 DEF IInv, CallsOK
    <3>3. \A c \in calls : c.q \in DOMAIN wire
      BY DEF IInv, CallsOK
    <3>4. \A c \in calls : Lacks(c.q, i) => Lacks(c.q, i)'
      BY <3>1, <3>2, <3>3 DEF Lacks
    <3> QED
      BY <1>2, <2>2, <3>4 DEF Cleared, Newest
  <2> QED
    BY <2>1, <2>2 DEF IInv, Deletes
<1> QED
  BY <1>3, <1>4, <1>5, <1>6 DEF IInv

\* The calls for the address are over, the others stay.
LEMMA OverCalls ==
  ASSUME CallsOK, NEW q, Over(q), UNCHANGED counter, odd \subseteq odd'
  PROVE  /\ CallsOK'
         /\ calls' = {c \in calls : c.q # q}
         /\ \A c \in calls' : wire'[c.q] = wire[c.q]
<1>1. calls' = {c \in calls : c.q # q}
  BY DEF Over, Waiting
<1>2. wire' = [x \in DOMAIN wire \ {q} |-> wire[x]]
  BY DEF Over
<1>3. {c.q : c \in calls}' = {c.q : c \in calls} \ {q}
  BY <1>1
<1>4. wire' \in [{c.q : c \in calls}' -> ReplyType]
  BY <1>2, <1>3 DEF CallsOK
<1>5. \A c \in calls' : wire'[c.q] = wire[c.q]
  BY <1>1, <1>2 DEF CallsOK
<1>6. counter' \in Nat \ {0} /\ calls' \subseteq CallType'
  BY <1>1 DEF CallsOK, CallType
<1>7. /\ \A c \in calls' : (c.id = 0) <=> (c.q.key = "key")
      /\ \A c, d \in calls' : c.id = counter' /\ d.id = counter' => c = d
      /\ "race" \notin odd' => \A c, d \in calls' : c.id = 0 => d = c
  BY <1>1 DEF CallsOK
<1> QED
  BY <1>1, <1>4, <1>5, <1>6, <1>7 DEF CallsOK

\* The answer of a request reaches the calls that share it; the newest one is shown.
LEMMA AnswerStep ==
  ASSUME IInv, NEW q \in DOMAIN wire, Answer(q)
  PROVE  IInv'
<1>1. /\ Over(q) /\ wire[q].served /\ loading' \in BOOLEAN /\ searching' \in BOOLEAN
      /\ UNCHANGED <<db, filter, form, counter, rowCalls, timers, acts, odd>>
  BY DEF Answer, Over, IInv, Plain
<1>2. /\ CallsOK'
      /\ calls' = {c \in calls : c.q # q}
      /\ \A c \in calls' : wire'[c.q] = wire[c.q]
  BY <1>1, OverCalls DEF IInv
<1>3. q \in Queries /\ wire[q].rows \in Rows
  BY DEF IInv, CallsOK, CallType, ReplyType
<1>4. CASE Applies(q)
  <2> DEFINE new == [q |-> q, rows |-> wire[q].rows]
  <2>1. new \in ListType /\ new.q = q /\ new.rows = wire[q].rows
    BY <1>3 DEF ListType
  <2>2. /\ lists' = Append(lists, new) /\ shown' = Len(lists) + 1
        /\ page' = IF q.key = "none" THEN page ELSE q.page
    BY <1>4 DEF Answer
  <2> HIDE DEF new
  <2>3. lists' \in Seq(ListType) /\ Len(lists') = Len(lists) + 1 /\ lists'[shown'] = new
        /\ shown' \in 1 .. Len(lists')
    BY <2>1, <2>2 DEF IInv, Plain
  <2>4. page' \in PageArgs
    BY <1>3, <2>2 DEF IInv, Plain, Queries
  <2>5. rowCalls' \subseteq RowCallType'
    BY <1>1, <2>3 DEF IInv, Plain, RowCallType
  <2>6. Plain'
    BY <1>1, <2>3, <2>4, <2>5 DEF IInv, Plain
  <2>7. PICK c \in calls : c.q = q /\ c.id \in {0, counter}
    BY <1>4 DEF Applies, Waiting
  <2>8. "race" \notin odd => \A d \in calls' : d.id \notin {0, counter}
    BY <1>2, <2>7 DEF IInv, CallsOK
  <2>9. Asks'
    <3> SUFFICES ASSUME odd \subseteq {"joined"} PROVE OnScreen' /\ page' # ClickEvent
      BY <1>1, <2>8 DEF Asks, Newest
    <3>1. Comes(c) /\ page # ClickEvent
      BY <2>7 DEF IInv, Asks, Newest
    <3>2. c.id = 0 => q.key # "none"
      BY <2>7 DEF IInv, CallsOK
    <3>3. c.id # 0 => q.key = "none"
      BY <1>3, <2>7 DEF IInv, CallsOK, Queries, Terms
    <3> QED
      BY <1>1, <2>1, <2>2, <2>3, <2>7, <3>1, <3>2, <3>3 DEF OnScreen, Comes, PageServed
  <2>10. Deletes'
    <3> SUFFICES ASSUME odd \subseteq {"stale", "unpaged"}, NEW i \in Ids, db[i] = "gone"
                 PROVE  Pending(i)' \/ i \notin DOMAIN (lists[shown].rows)'
      BY <1>1, <2>8 DEF Deletes, Cleared, Newest
    <3>1. CASE Pending(i)
      BY <1>1, <3>1 DEF Pending
    <3>2. CASE Cleared(i)
      BY <1>1, <2>1, <2>3, <2>7, <3>2 DEF Cleared, Newest, Lacks
    <3> QED
      BY <3>1, <3>2 DEF IInv, Deletes
  <2> QED
    BY <1>2, <2>6, <2>9, <2>10 DEF IInv
<1>5. CASE ~Applies(q)
  <2>1. UNCHANGED <<lists, shown, page>>
    BY <1>5 DEF Answer
  <2>2. Plain'
    BY <1>1, <2>1 DEF IInv, Plain, RowCallType
  <2>3. \A c : Newest(c)' <=> Newest(c)
    BY <1>1, <1>2, <1>5 DEF Newest, Applies, Waiting
  <2>4. (\A c \in calls : ~Newest(c))' <=> (\A c \in calls : ~Newest(c))
    BY <2>3 DEF Newest
  <2>5. Asks'
    BY <1>1, <1>2, <2>1, <2>3, <2>4 DEF IInv, Asks, OnScreen, Comes
  <2>6. Deletes'
    BY <1>1, <1>2, <2>1, <2>3, <2>4 DEF IInv, Deletes, Pending, Cleared, Lacks
  <2> QED
    BY <1>2, <2>2, <2>5, <2>6 DEF IInv
<1> QED
  BY <1>4, <1>5

\* A list that cannot be read is on record.
LEMMA FailedStep ==
  ASSUME IInv, NEW q \in DOMAIN wire, AnswerRefused(q) \/ AnswerRejected(q)
  PROVE  IInv'
<1>1. /\ Over(q) /\ loading' \in BOOLEAN /\ searching' \in BOOLEAN
      /\ odd' = odd \union {"failed"}
      /\ UNCHANGED <<db, lists, shown, page, filter, form, counter, rowCalls, timers, acts>>
  BY DEF AnswerRefused, AnswerRejected, Over, screen, IInv, Plain
<1>2. CallsOK'
  BY <1>1, OverCalls DEF IInv
<1>3. Plain'
  BY <1>1 DEF IInv, Plain, RowCallType, Oddities
<1>4. Asks' /\ Deletes'
  BY <1>1 DEF Asks, Deletes
<1> QED
  BY <1>2, <1>3, <1>4 DEF IInv

-----------------------------------------------------------------------------
(* The controls of the page.                                               *)

\* What is put on record when a list is asked for.
LEMMA AskedIs ==
  ASSUME NEW p, NEW f, NEW k, NEW more, odd' = odd \union Asked(p, f, k) \union more,
         odd \subseteq Oddities, more \subseteq Oddities
  PROVE  /\ odd' \subseteq Oddities /\ odd \subseteq odd' /\ more \subseteq odd'
         /\ Raced(k) => "race" \in odd'
         /\ Query(p, f, k) \in DOMAIN wire => "joined" \in odd'
BY DEF Asked, Mark, Oddities

\* A step that asks for a list keeps the invariant: the page and filter on the screen become
\* those asked for, or a stale or unpaged request is on record.
LEMMA AskStep ==
  ASSUME IInv, NEW p \in PageArgs, NEW f \in Filters, NEW k \in Terms, NEW more \in SUBSET Oddities,
         LoadChannels(p, f, k) \/ SearchChannels(p, f, k) \/ Refresh(p, f, k),
         odd' = odd \union Asked(p, f, k) \union more,
         odd' \subseteq {"joined"} =>
           /\ f = filter' /\ page' # ClickEvent
           /\ IF k = "none" THEN PageServed(p) = page' ELSE p # ClickEvent,
         page' \in PageArgs, filter' \in Filters, form' \in Terms, shown' \in 1 .. Len(lists),
         rowCalls' \subseteq rowCalls, timers' \in Seq(TimerType), acts' \in 0 .. MaxActs,
         UNCHANGED <<db, lists>>
  PROVE  IInv'
<1> PICK q : q = Query(p, f, k)
  OBVIOUS
<1>1. q.page = p /\ q.filter = f /\ q.key = k
  BY DEF Query
<1>2. q \in Queries /\ Asking(q)
  BY AskForms DEF IInv, Plain, CallsOK
<1>3. /\ odd' \subseteq Oddities /\ odd \subseteq odd'
      /\ Raced(q.key) => "race" \in odd'
      /\ q \in DOMAIN wire => "joined" \in odd'
  BY <1>1, AskedIs DEF IInv, Plain
<1>4. CallsOK'
  BY <1>2, <1>3, AskCalls DEF IInv
<1>5. Asks'
  BY <1>1, <1>2, <1>3, AskAsks DEF IInv
<1>6. Deletes'
  BY <1>2, <1>3, AskDeletes DEF IInv
<1>7. Plain'
  <2>1. loading' \in BOOLEAN /\ searching' \in BOOLEAN
    BY <1>2 DEF Asking
  <2> QED
    BY <1>3, <2>1 DEF IInv, Plain, RowCallType
<1> QED
  BY <1>4, <1>5, <1>6, <1>7 DEF IInv

\* Page, filter and search ask for another list.
LEMMA ControlStep ==
  ASSUME IInv,
         \/ \E p \in Pages : PageChange(p)
         \/ \E f \in Filters : FilterChange(f)
         \/ Submit \/ RefreshClick \/ ResetTimer
  PROVE  IInv'
<1>0. /\ page \in PageArgs /\ 1 \in PageArgs /\ ClickEvent \in PageArgs /\ filter \in Filters /\ form \in Terms
      /\ shown \in 1 .. Len(lists) /\ timers \in Seq(TimerType)
      /\ acts \in 0 .. MaxActs /\ MaxActs \in Nat
  BY ChannelTableAssumption DEF IInv, Plain, PageArgs
<1>n. /\ odd \subseteq {"joined"} => page # ClickEvent
      /\ \A p \in Pages : p \in PageArgs /\ p # ClickEvent
      /\ \A p : p # ClickEvent => PageServed(p) = p
      /\ PageServed(ClickEvent) = 1 /\ 1 # ClickEvent
  BY ChannelTableAssumption DEF IInv, Asks, PageArgs, PageServed, ClickEvent
<1>1. Act => acts' \in 0 .. MaxActs
  BY <1>0 DEF Act
<1>2. {} \in SUBSET Oddities /\ \A b : Mark(b, "unpaged") \in SUBSET Oddities
      /\ Mark(b, "stale") \in SUBSET Oddities
  BY DEF Oddities, Mark
<1>3. ASSUME NEW p \in Pages, PageChange(p) PROVE IInv'
  <2>1. /\ Refresh(p, filter, form) /\ Act /\ page' = p
        /\ odd' = odd \union Asked(p, filter, form) \union {}
        /\ UNCHANGED <<db, lists, shown, filter, form, rowCalls, timers>>
    BY <1>3 DEF PageChange
  <2>2. p \in PageArgs /\ p # ClickEvent /\ PageServed(p) = p
    BY <1>n
  <2> QED
    BY <1>0, <1>1, <1>2, <2>1, <2>2, AskStep
<1>4. ASSUME NEW f \in Filters, FilterChange(f) PROVE IInv'
  <2>1. /\ LoadChannels(1, f, form) /\ Act /\ page' = 1 /\ filter' = f
        /\ odd' = odd \union Asked(1, f, form) \union {}
        /\ UNCHANGED <<db, lists, shown, form, rowCalls, timers>>
    BY <1>4 DEF FilterChange
  <2>2. 1 # ClickEvent /\ PageServed(1) = 1
    BY <1>n
  <2> QED
    BY <1>0, <1>1, <1>2, <2>1, <2>2, AskStep
<1>5. ASSUME Submit PROVE IInv'
  <2> DEFINE more == Mark(form = "none" /\ page # 1, "unpaged")
  <2>1. /\ SearchChannels(1, filter, form) /\ Act
        /\ odd' = odd \union Asked(1, filter, form) \union more
        /\ UNCHANGED <<db, lists, shown, page, filter, form, rowCalls, timers>>
    BY <1>5 DEF Submit, screen
  <2>2. odd' \subseteq {"joined"} =>
          page' # ClickEvent /\ IF form = "none" THEN PageServed(1) = page' ELSE 1 # ClickEvent
    BY <1>n, <2>1 DEF Mark
  <2>3. more \in SUBSET Oddities
    BY <1>2
  <2> HIDE DEF more
  <2> QED
    BY <1>0, <1>1, <2>1, <2>2, <2>3, AskStep
<1>7. ASSUME RefreshClick PROVE IInv'
  <2> DEFINE more == Mark(form # "none" \/ page # 1, "unpaged")
  <2>1. /\ Refresh(ClickEvent, filter, form) /\ Act
        /\ odd' = odd \union Asked(ClickEvent, filter, form) \union more
        /\ UNCHANGED <<db, lists, shown, page, filter, form, rowCalls, timers>>
    BY <1>7 DEF RefreshClick, screen
  <2>2. odd' \subseteq {"joined"} => page' = 1 /\ form = "none"
    BY <2>1 DEF Mark
  <2>3. odd' \subseteq {"joined"} => page' # ClickEvent /\ PageServed(ClickEvent) = page'
    BY <1>n, <2>2
  <2>4. more \in SUBSET Oddities
    BY <1>2
  <2> HIDE DEF more
  <2> QED
    BY <1>0, <1>1, <2>1, <2>2, <2>3, <2>4, AskStep
<1>6. ASSUME ResetTimer PROVE IInv'
  <2> PICK p, f : p = Head(timers).page /\ f = Head(timers).filter
    OBVIOUS
  <2> DEFINE more == Mark(Stale(Head(timers)), "stale")
  <2>1. /\ timers # << >> /\ timers' = Tail(timers) /\ Refresh(p, f, form)
        /\ odd' = odd \union Asked(p, f, form) \union more
        /\ UNCHANGED <<db, lists, shown, page, filter, form, rowCalls, acts>>
    BY <1>6 DEF ResetTimer, screen
  <2>2. p \in PageArgs /\ f \in Filters /\ timers' \in Seq(TimerType)
    <3>1. Head(timers) \in TimerType /\ Tail(timers) \in Seq(TimerType)
      BY <1>0, <2>1
    <3> QED
      BY <2>1, <3>1 DEF TimerType
  <2>3. odd' \subseteq {"joined"} =>
          /\ f = filter' /\ page' # ClickEvent
          /\ IF form = "none" THEN PageServed(p) = page' ELSE p # ClickEvent
    <3>1. odd' \subseteq {"joined"} => f = filter /\ p = page /\ odd \subseteq {"joined"}
      BY <2>1 DEF Mark, Stale
    <3> QED
      BY <1>n, <2>1, <3>1
  <2>4. more \in SUBSET Oddities
    BY <1>2
  <2> HIDE DEF more
  <2> QED
    BY <1>0, <2>1, <2>2, <2>3, <2>4, AskStep
<1> QED
  BY <1>3, <1>4, <1>5, <1>6, <1>7

\* Typing and resetting the form change nothing that was asked.
LEMMA FormStep ==
  ASSUME IInv, (\E k \in Terms : Type(k)) \/ Reset
  PROVE  IInv'
<1>1. /\ form' \in Terms /\ Act
      /\ UNCHANGED <<db, lists, shown, page, filter, counter, loading, searching, calls, wire,
                     rowCalls, odd>>
  BY DEF Type, Reset, Terms, spinner
<1>2. timers' \in Seq(TimerType)
  <2> DEFINE t == [page |-> page, filter |-> filter]
  <2>1. t \in TimerType /\ timers \in Seq(TimerType)
    BY DEF IInv, Plain, TimerType
  <2>2. timers' = timers \/ timers' = Append(timers, t)
    BY DEF Type, Reset
  <2> HIDE DEF t
  <2> QED
    BY <2>1, <2>2
<1>3. acts' \in 0 .. MaxActs
  BY <1>1, ChannelTableAssumption DEF Act, IInv, Plain
<1>4. Plain' /\ CallsOK'
  BY <1>1, <1>2, <1>3 DEF IInv, Plain, CallsOK, RowCallType, CallType
<1>5. Asks' /\ Deletes'
  BY <1>1 DEF IInv, Asks, OnScreen, Comes, Newest, Deletes, Pending, Cleared, Lacks
<1> QED
  BY <1>4, <1>5 DEF IInv

-----------------------------------------------------------------------------
(* Operations on rows.                                                     *)

\* An operation on a row starts.
LEMMA RowClickStep ==
  ASSUME IInv, NEW i \in Ids, NEW want \in Wants, RowClick(i, want)
  PROVE  IInv'
<1> DEFINE c == [row |-> i, want |-> want, list |-> shown, page |-> page, filter |-> filter,
                 state |-> "sent"]
<1>1. c \in RowCallType
  BY DEF IInv, Plain, RowCallType
<1>2. /\ rowCalls' = rowCalls \union {c} /\ Act
      /\ UNCHANGED <<db, lists, shown, page, filter, form, counter, loading, searching, calls, wire,
                     timers, odd>>
  BY DEF RowClick, screen, spinner
<1> HIDE DEF c
<1>3. acts' \in 0 .. MaxActs
  BY <1>2, ChannelTableAssumption DEF Act, IInv, Plain
<1>4. Plain' /\ CallsOK'
  BY <1>1, <1>2, <1>3 DEF IInv, Plain, CallsOK, RowCallType, CallType
<1>5. Asks'
  BY <1>2 DEF IInv, Asks, OnScreen, Comes, Newest
<1>6. Deletes'
  BY <1>2 DEF IInv, Deletes, Pending, Cleared, Lacks, Newest
<1> QED
  BY <1>4, <1>5, <1>6 DEF IInv

\* A channel that is gone stays so, and one that goes has a deletion to be answered.
LEMMA RowServeStep ==
  ASSUME IInv, NEW c \in rowCalls, RowServe(c)
  PROVE  IInv'
<1>0. c \in RowCallType /\ db \in [Ids -> Statuses]
  BY DEF IInv, Plain
<1>w. c.row \in Ids /\ (c.want \in {"on", "off", "gone"} => c.want \in Statuses)
  BY <1>0 DEF RowCallType, Statuses
<1>1. PICK st \in {"ok", "refused"} :
        /\ SetState(c, st)
        /\ db' \in [Ids -> Statuses]
        /\ \A i \in Ids : db[i] = "gone" => db'[i] = "gone"
        /\ \A i \in Ids : db'[i] = "gone" /\ db[i] # "gone" => i = c.row /\ st = "ok" /\ c.want = "gone"
  <2>1. CASE SetState(c, "refused") /\ UNCHANGED db
    BY <1>0, <2>1
  <2>2. CASE /\ db[c.row] = "gone" => c.want = "gone"
             /\ SetState(c, "ok")
             /\ CASE c.want \in {"on", "off", "gone"} -> db' = [db EXCEPT ![c.row] = c.want]
                  [] c.want = "copy" -> Copied(c.row)
                  [] OTHER -> UNCHANGED db
    <3>1. CASE c.want \in {"on", "off", "gone"}
      <4>1. db' = [db EXCEPT ![c.row] = c.want]
        BY <2>2, <3>1
      <4> QED
        BY <1>0, <1>w, <2>2, <3>1, <4>1
    <3>2. CASE c.want = "copy"
      <4>1. Copied(c.row)
        BY <2>2, <3>2
      <4>2. PICK new \in Ids : db[new] = "new" /\ db' = [db EXCEPT ![new] = db[c.row]]
        BY <4>1 DEF Copied
      <4>3. db[c.row] # "gone" /\ db[c.row] \in Statuses
        BY <1>0, <1>w, <2>2, <3>2
      <4> QED
        BY <1>0, <2>2, <4>2, <4>3
    <3>3. CASE c.want \notin {"on", "off", "gone", "copy"}
      <4>1. UNCHANGED db
        BY <2>2, <3>3
      <4> QED
        BY <1>0, <2>2, <4>1
    <3> QED
      BY <3>1, <3>2, <3>3
  <2> QED
    BY <2>1, <2>2 DEF RowServe
<1> DEFINE d == [c EXCEPT !.state = st]
<1>2. d \in RowCallType /\ d.row = c.row /\ d.want = c.want /\ d.state = st
  BY <1>0 DEF RowCallType
<1>3. /\ rowCalls' = (rowCalls \ {c}) \union {d} /\ c.state = "sent"
      /\ UNCHANGED <<lists, shown, page, filter, form, counter, loading, searching, calls, wire,
                     timers, acts, odd>>
  BY <1>1 DEF RowServe, SetState, screen, spinner
<1> HIDE DEF d
<1>5. db' \in [Ids -> Statuses]
  BY <1>1
<1>6. Plain' /\ CallsOK'
  BY <1>2, <1>3, <1>5 DEF IInv, Plain, CallsOK, RowCallType, CallType
<1>7. Asks'
  BY <1>3 DEF IInv, Asks, OnScreen, Comes, Newest
<1>8. Deletes'
  <2> SUFFICES ASSUME odd \subseteq {"stale", "unpaged"}, NEW i \in Ids, db'[i] = "gone"
               PROVE  Pending(i)' \/ Cleared(i)'
    BY <1>3 DEF Deletes
  <2>1. CASE db[i] = "gone"
    <3>1. Pending(i) => Pending(i)'
      BY <1>3 DEF Pending
    <3>2. Cleared(i) => Cleared(i)'
      BY <1>3 DEF Cleared, Lacks, Newest
    <3> QED
      BY <2>1, <3>1, <3>2 DEF IInv, Deletes
  <2>2. CASE db[i] # "gone"
    <3>1. i = c.row /\ st = "ok" /\ c.want = "gone"
      BY <1>1, <2>2
    <3> QED
      BY <1>2, <1>3, <3>1 DEF Pending
  <2> QED
    BY <2>1, <2>2
<1> QED
  BY <1>6, <1>7, <1>8 DEF IInv

\* The list that is put back is the one on the screen, or the reversion is on record.
LEMMA RowAnswerStep ==
  ASSUME IInv, NEW c \in rowCalls, RowAnswer(c)
  PROVE  IInv'
<1>0. /\ c.row \in Ids /\ c.list \in 1 .. Len(lists) /\ lists \in Seq(ListType)
      /\ c.want \in {"on", "off", "test"} /\ (c.want # "test" => c.want \in Statuses)
  BY DEF IInv, Plain, RowCallType, RowAnswer, Statuses
<1>1. /\ rowCalls' = rowCalls \ {c} /\ shown' = c.list
      /\ odd' = odd \union Mark(c.list # shown, "reverted")
      /\ UNCHANGED <<db, page, filter, form, counter, loading, searching, calls, wire, timers, acts>>
  BY DEF RowAnswer, screen, spinner
<1>2. /\ lists' \in Seq(ListType) /\ Len(lists') = Len(lists)
      /\ \A v \in 1 .. Len(lists) :
           lists'[v].q = lists[v].q /\ DOMAIN lists'[v].rows = DOMAIN lists[v].rows
  <2>1. CASE c.want = "test"
    BY <1>0, <2>1 DEF RowAnswer
  <2>2. CASE c.want # "test"
    <3> PICK L : L = lists[c.list]
      OBVIOUS
    <3>1. L \in ListType
      BY <1>0
    <3> DEFINE rows == [L.rows EXCEPT ![c.row] = c.want]
    <3>2. rows \in Rows /\ DOMAIN rows = DOMAIN L.rows
      <4>1. PICK D \in SUBSET Ids : L.rows \in [D -> Statuses]
        BY <3>1 DEF ListType, Rows
      <4>2. rows \in [D -> Statuses]
        BY <1>0, <2>2, <4>1
      <4> QED
        BY <4>1, <4>2 DEF Rows
    <3> DEFINE new == [L EXCEPT !.rows = rows]
    <3>3. lists' = [lists EXCEPT ![c.list] = new]
      BY <2>2 DEF RowAnswer
    <3> HIDE DEF rows
    <3>4. new \in ListType /\ new.q = L.q /\ new.rows = rows
      BY <3>1, <3>2 DEF ListType
    <3> HIDE DEF new
    <3> QED
      BY <1>0, <3>2, <3>3, <3>4
  <2> QED
    BY <2>1, <2>2
<1>3. odd' \subseteq Oddities /\ odd \subseteq odd' /\ (c.list # shown => "reverted" \in odd')
  BY <1>1 DEF Mark, Oddities, IInv, Plain
<1>4. Plain'
  BY <1>0, <1>1, <1>2, <1>3 DEF IInv, Plain, RowCallType
<1>5. CallsOK'
  BY <1>1, <1>3 DEF IInv, CallsOK, CallType
<1>6. Asks'
  BY <1>0, <1>1, <1>2, <1>3 DEF IInv, Asks, OnScreen, Comes, Newest
<1>7. Deletes'
  <2> SUFFICES ASSUME odd' \subseteq {"stale", "unpaged"}, NEW i \in Ids, db[i] = "gone"
               PROVE  Pending(i)' \/ Cleared(i)'
    BY <1>1 DEF Deletes
  <2>1. Pending(i) \/ Cleared(i)
    BY <1>3 DEF IInv, Deletes
  <2>2. Pending(i) => Pending(i)'
    BY <1>0, <1>1 DEF Pending
  <2>3. shown' = shown /\ DOMAIN lists'[shown].rows = DOMAIN lists[shown].rows
    BY <1>0, <1>1, <1>2, <1>3
  <2>4. Cleared(i) => Cleared(i)'
    BY <1>1, <2>3 DEF Cleared, Lacks, Newest
  <2> QED
    BY <2>1, <2>2, <2>4
<1> QED
  BY <1>4, <1>5, <1>6, <1>7 DEF IInv

\* A refresh of an older render asks for the page and filter of now, or is on record.
LEMMA StaleIs ==
  ASSUME Asks, NEW r, odd \subseteq {"joined"}, ~Stale(r), UNCHANGED <<page, filter>>
  PROVE  /\ r.filter = filter' /\ page' # ClickEvent
         /\ r.page # ClickEvent /\ PageServed(r.page) = page'
BY DEF Asks, Stale, PageServed

\* The answer to a deletion asks for a list that is read after it.
LEMMA DeleteAnswerStep ==
  ASSUME IInv, NEW c \in rowCalls, DeleteAnswer(c)
  PROVE  IInv'
<1> DEFINE more == Mark(c.list # shown, "reverted") \union Mark(Stale(c), "stale")
<1>1. /\ rowCalls' = rowCalls \ {c} /\ shown' \in {c.list, shown}
      /\ Refresh(c.page, c.filter, form)
      /\ odd' = odd \union Asked(c.page, c.filter, form) \union more
      /\ UNCHANGED <<db, lists, page, filter, form, timers, acts>>
  BY DEF DeleteAnswer, screen
<1>2. c.page \in PageArgs /\ c.filter \in Filters /\ c.list \in 1 .. Len(lists)
  BY DEF IInv, Plain, RowCallType
<1>3. more \in SUBSET Oddities
  BY DEF Mark, Oddities
<1>4. odd' \subseteq {"joined"} =>
        /\ c.filter = filter' /\ page' # ClickEvent
        /\ IF form = "none" THEN PageServed(c.page) = page' ELSE c.page # ClickEvent
  <2>1. odd' \subseteq {"joined"} => odd \subseteq {"joined"} /\ ~Stale(c)
    BY <1>1 DEF Mark
  <2> QED
    BY <1>1, <2>1, StaleIs DEF IInv
<1> HIDE DEF more
<1> QED
  BY <1>1, <1>2, <1>3, <1>4, AskStep DEF IInv, Plain

\* The refresh after an edited or copied channel.
LEMMA EditAnswerStep ==
  ASSUME IInv, NEW c \in rowCalls, EditAnswer(c)
  PROVE  IInv'
<1> DEFINE more == Mark(Stale(c), "stale")
<1>1. /\ rowCalls' = rowCalls \ {c} /\ Refresh(c.page, c.filter, form)
      /\ odd' = odd \union Asked(c.page, c.filter, form) \union more
      /\ UNCHANGED <<db, lists, shown, page, filter, form, timers, acts>>
  BY DEF EditAnswer, screen
<1>2. c.page \in PageArgs /\ c.filter \in Filters
  BY DEF IInv, Plain, RowCallType
<1>3. more \in SUBSET Oddities
  BY DEF Mark, Oddities
<1>4. odd' \subseteq {"joined"} =>
        /\ c.filter = filter' /\ page' # ClickEvent
        /\ IF form = "none" THEN PageServed(c.page) = page' ELSE c.page # ClickEvent
  <2>1. odd' \subseteq {"joined"} => odd \subseteq {"joined"} /\ ~Stale(c)
    BY <1>1 DEF Mark
  <2> QED
    BY <1>1, <2>1, StaleIs DEF IInv
<1> HIDE DEF more
<1> QED
  BY <1>1, <1>2, <1>3, <1>4, AskStep DEF IInv, Plain

\* An operation on a row fails.
LEMMA RowFailsStep ==
  ASSUME IInv, NEW c \in rowCalls, RowFails(c)
  PROVE  IInv'
<1>1. /\ rowCalls' = rowCalls \ {c} /\ odd' = odd \union Mark(c.state = "ok", "failed")
      /\ UNCHANGED <<db, lists, shown, page, filter, form, counter, loading, searching, calls, wire,
                     timers, acts>>
  BY DEF RowFails, screen, spinner
<1>2. odd' \subseteq Oddities /\ odd \subseteq odd' /\ (c.state = "ok" => "failed" \in odd')
  BY <1>1 DEF Mark, Oddities, IInv, Plain
<1>3. Plain' /\ CallsOK'
  BY <1>1, <1>2 DEF IInv, Plain, CallsOK, RowCallType, CallType
<1>4. Asks'
  BY <1>1, <1>2 DEF IInv, Asks, OnScreen, Comes, Newest
<1>5. Deletes'
  BY <1>1, <1>2 DEF IInv, Deletes, Pending, Cleared, Lacks, Newest
<1> QED
  BY <1>3, <1>4, <1>5 DEF IInv

-----------------------------------------------------------------------------
(* The theorems.                                                           *)

\* The page as it is mounted.
LEMMA InitIInv == Init => IInv
<1> SUFFICES ASSUME Init PROVE IInv
  OBVIOUS
<1> PICK q : q = Query(1, "all", "none")
  OBVIOUS
<1>1. q \in Queries /\ q.page = 1 /\ q.filter = "all" /\ q.key = "none"
  BY ChannelTableAssumption DEF Queries, Query, Filters, Terms, PageArgs
<1>2. NoRows \in Rows
  <2>1. NoRows \in [{} -> Statuses]
    BY DEF NoRows
  <2> QED
    BY <2>1 DEF Rows
<1> DEFINE L == [q |-> q, rows |-> NoRows]
           c == [q |-> q, id |-> 1, spin |-> FALSE, sets |-> FALSE]
           w == [served |-> FALSE, rows |-> NoRows]
<1>3. L \in ListType /\ L.q = q
  BY <1>1, <1>2 DEF ListType
<1>4. c \in [q : Queries, id : 0 .. 1, spin : BOOLEAN, sets : BOOLEAN] /\ c.q = q /\ c.id = 1
  BY <1>1
<1>5. w \in ReplyType
  BY <1>2 DEF ReplyType
<1>6. /\ lists = <<L>> /\ calls = {c} /\ wire = [x \in {q} |-> w]
      /\ shown = 1 /\ page = 1 /\ filter = "all" /\ form = "none" /\ counter = 1
      /\ loading = TRUE /\ searching = FALSE /\ rowCalls = {} /\ timers = << >>
      /\ acts = 0 /\ odd = {} /\ db \in [Ids -> {"new", "on", "off"}]
  BY DEF Init
<1> HIDE DEF L, c, w
<1>7. Plain
  <2>1. db \in [Ids -> Statuses]
    BY <1>6 DEF Statuses
  <2>2. lists \in Seq(ListType) /\ shown \in 1 .. Len(lists) /\ timers \in Seq(TimerType)
    BY <1>3, <1>6
  <2>3. page \in PageArgs /\ filter \in Filters /\ form \in Terms /\ acts \in 0 .. MaxActs
    BY <1>6, ChannelTableAssumption DEF Filters, Terms, PageArgs
  <2> QED
    BY <1>6, <2>1, <2>2, <2>3 DEF Plain
<1>8. CallsOK
  BY <1>1, <1>4, <1>5, <1>6 DEF CallsOK, CallType
<1>9. Asks
  BY <1>1, <1>3, <1>4, <1>6 DEF Asks, Newest, Comes, OnScreen, PageServed, ClickEvent
<1>10. Deletes
  BY <1>6 DEF Deletes
<1> QED
  BY <1>7, <1>8, <1>9, <1>10 DEF IInv

\* The invariant is inductive.
LEMMA NextIInv == IInv /\ [Next]_vars => IInv'
<1> SUFFICES ASSUME IInv, [Next]_vars PROVE IInv'
  OBVIOUS
<1>1. CASE Next
  BY <1>1, ServeStep, AnswerStep, FailedStep, ControlStep, FormStep, RowClickStep, RowServeStep,
     RowAnswerStep, DeleteAnswerStep, EditAnswerStep, RowFailsStep DEF Next
<1>2. CASE UNCHANGED vars
  <2>1. UNCHANGED <<db, lists, shown, page, filter, form, counter, loading, searching, calls, wire,
                    rowCalls, timers, acts, odd>>
    BY <1>2 DEF vars, screen, spinner
  <2>2. Plain' /\ CallsOK'
    BY <2>1 DEF IInv, Plain, CallsOK, RowCallType, CallType
  <2>3. Asks' /\ Deletes'
    BY <2>1 DEF IInv, Asks, OnScreen, Comes, Newest, Deletes, Pending, Cleared, Lacks
  <2> QED
    BY <2>2, <2>3 DEF IInv
<1> QED
  BY <1>1, <1>2

\* The newest call and the list on the screen agree with the controls and with the table of
\* the server, in every reachable state.
THEOREM Invariance == Spec => []IInv
BY InitIInv, NextIInv, PTL DEF Spec

\* The variables keep their types, and the requests under way are those that a call of
\* loadChannels or searchChannels waits for.
THEOREM TypeCorrect == Spec => []TypeOK
<1>1. IInv => TypeOK
  <2> SUFFICES ASSUME IInv PROVE TypeOK
    OBVIOUS
  <2>1. \A v \in DOMAIN lists : lists[v].q \in Queries /\ DOMAIN lists[v].rows \subseteq Ids
    BY ListRows DEF IInv, Plain
  <2> QED
    BY <2>1 DEF IInv, Plain, CallsOK, TypeOK
<1> QED
  BY <1>1, Invariance, PTL

\* At rest the rows on the screen are those of the page and the filter that the controls
\* show, unless one of the irregular things named there has happened.
THEOREM ScreenAgrees == Spec => []ShowsWhatIsAsked
<1>1. IInv => ShowsWhatIsAsked
  BY DEF IInv, Asks, OnScreen, ShowsWhatIsAsked, Idle
<1> QED
  BY <1>1, Invariance, PTL

\* At rest no deleted channel is on the screen, unless one of the irregular things named
\* there has happened.
THEOREM NoDeletedRows == Spec => []DeletedGone
<1>1. IInv => DeletedGone
  <2> SUFFICES ASSUME IInv, Idle, odd \subseteq {"stale", "unpaged"},
                      NEW i \in DOMAIN lists[shown].rows
               PROVE  db[i] # "gone"
    BY DEF DeletedGone
  <2>1. i \in Ids
    BY ListRows DEF IInv, Plain
  <2>2. ~Pending(i) /\ ~Cleared(i)
    BY DEF Idle, Pending, Cleared
  <2> QED
    BY <2>1, <2>2 DEF IInv, Deletes
<1> QED
  BY <1>1, Invariance, PTL
=============================================================================
