-------------------------- MODULE PlaygroundProofs --------------------------
(***************************************************************************)
(* Proofs about Playground, for every bound on requests, timers and        *)
(* clicks: the type invariant; that late events are harmless; that what is *)
(* on the screen is stored; that answers do not mix; and when an updater   *)
(* may throw.                                                              *)
(***************************************************************************)
EXTENDS Playground, SumTheorems, TLAPS

Lists == Seq(MessageType)
TimerKinds == {"send", "regen", "default"}
NetType == [kind : ReqKinds, open : BOOLEAN]
DeleteModal == [type : {"delete"}, index : Nat, target : MessageType]
EditModal == [type : {"edit"}, index : Nat, seen : Lists, list : Lists]

\* The types of all but the clicks and the flags, those of the dialogs included.
Types ==
  /\ msgs \in Lists /\ stored \in Lists /\ saves \in Seq(Lists)
  /\ timers \in Seq(TimerKinds)
  /\ net \in Seq(NetType) /\ Len(net) <= MaxReq
  /\ sseRef \in {0} \union {r \in DOMAIN net : net[r].kind = "sse"} /\ nextId \in Nat \ {0}
  /\ editing \in [index : Nat, id : Nat]
  /\ \/ modal = NoModal \/ modal \in DeleteModal
     \/ modal \in EditModal /\ modal.index <= Len(modal.list)
  /\ crashed \in BOOLEAN /\ unsaved \in BOOLEAN /\ odd \subseteq Oddities

\* The list that localStorage will have when the pending timers have fired is the one on the
\* screen, unless something else will save or has to be excused.
LastSaved == IF saves = << >> THEN stored ELSE saves[Len(saves)]
Saved == ~AnyGenerating /\ timers = << >> /\ ~crashed /\ ~unsaved => LastSaved = msgs

\* Without an overlap one request is under way, and sseSourceRef has it if it is a stream.
OneRequest ==
  "overlap" \notin odd =>
    /\ \A r, q \in DOMAIN net : net[r].open /\ net[q].open => r = q
    /\ \A r \in DOMAIN net : Streaming(r) => sseRef = r

\* In a regular history the message of a stream that is open is being generated.
Live == odd \subseteq {"hollow", "cut"} => \A r \in DOMAIN net : Streaming(r) => LastGenerating

\* A message that no event adds text to, or whose text nobody claims.
Settled(m) == Finished(m) \/ m.role = "user" \/ m.req = 0

\* The text of every answer is its own.
Good(list) ==
  \A i \in DOMAIN list :
    list[i].role # "user" /\ list[i].req # 0 =>
      list[i].text \subseteq {0, list[i].req} /\ list[i].st # "none"

\* The messages of new are messages of old, but for the role of an answer and what the user
\* types.
From(old, new) ==
  \A i \in DOMAIN new : \E j \in DOMAIN old :
    /\ new[i].st = old[j].st /\ new[i].req = old[j].req
    /\ (new[i].role = "user") <=> (old[j].role = "user")
    /\ new[i].text \subseteq old[j].text \union {0}

\* Answers do not mix, on the screen and in every copy of the list, because the last message
\* is that of the request under way, or takes no text.
Own ==
  odd \intersect {"overlap", "stale"} = {} =>
    /\ Good(msgs) /\ Good(stored) /\ \A i \in DOMAIN saves : Good(saves[i])
    /\ modal.type = "edit" => Good(modal.list) /\ From(modal.seen, modal.list)
    /\ \A r \in DOMAIN net :
         net[r].open /\ msgs # << >> => Settled(Last(msgs)) \/ Last(msgs).req = r

Core == Types /\ Saved /\ OneRequest /\ Live /\ ThrowsOnlyWhenCleared /\ Own
Flags == bare \in BOOLEAN /\ fresh \in BOOLEAN
IInv == Core /\ Flags /\ clicks \in 0 .. MaxClicks
-----------------------------------------------------------------------------
(* The list without an id.                                                 *)

\* What g[n] is when g has the shorter lists.
Kept(list, id, g, n) ==
  IF n = 0 THEN << >> ELSE IF list[n].id = id THEN g[n - 1] ELSE Append(g[n - 1], list[n])
Keeps(list, id, g) == g = [n \in 0 .. Len(list) |-> Kept(list, id, g, n)]

\* The recursive function exists.
LEMMA KeptExists ==
  ASSUME NEW T, NEW list \in Seq(T), NEW id
  PROVE  \E g : Keeps(list, id, g)
<1> DEFINE Upto(n) == \E g \in [0 .. n -> Seq(T)] : \A k \in 0 .. n : g[k] = Kept(list, id, g, k)
           G == {n \in Nat : n <= Len(list) => Upto(n)}
<1>0. Len(list) \in Nat /\ DOMAIN list = 1 .. Len(list)
  OBVIOUS
<1>1. 0 \in G
  <2> DEFINE g == [k \in 0 .. 0 |-> << >>]
  <2>1. g \in [0 .. 0 -> Seq(T)] /\ \A k \in 0 .. 0 : g[k] = Kept(list, id, g, k)
    BY DEF Kept
  <2> QED
    BY <2>1
<1>2. ASSUME NEW n \in Nat, n \in G PROVE n + 1 \in G
  <2> SUFFICES ASSUME n + 1 <= Len(list) PROVE Upto(n + 1)
    <3> HIDE DEF Upto
    <3> QED
      OBVIOUS
  <2>1. PICK g \in [0 .. n -> Seq(T)] : \A k \in 0 .. n : g[k] = Kept(list, id, g, k)
    BY <1>0, <1>2
  <2> DEFINE v == IF list[n + 1].id = id THEN g[n] ELSE Append(g[n], list[n + 1])
             h == [k \in 0 .. n + 1 |-> IF k = n + 1 THEN v ELSE g[k]]
  <2>2. v \in Seq(T)
    BY <1>0
  <2>3. h \in [0 .. n + 1 -> Seq(T)]
    <3> HIDE DEF v
    <3> QED
      BY <2>2
  <2>4. \A k \in 0 .. n : h[k] = g[k]
    OBVIOUS
  <2>5. h[n + 1] = v
    OBVIOUS
  <2> HIDE DEF h
  <2>6. ASSUME NEW k \in 0 .. n + 1 PROVE h[k] = Kept(list, id, h, k)
    <3>1. CASE k = n + 1
      BY <2>4, <2>5, <3>1 DEF Kept
    <3>2. CASE k \in 0 .. n
      <4>1. k = 0 \/ k - 1 \in 0 .. n
        BY <3>2
      <4>2. Kept(list, id, h, k) = Kept(list, id, g, k)
        BY <2>4, <3>2, <4>1 DEF Kept
      <4> QED
        BY <2>1, <2>4, <3>2, <4>2
    <3> QED
      BY <3>1, <3>2
  <2> QED
    BY <2>3, <2>6
<1> HIDE DEF Upto
<1>3. G = Nat
  BY <1>1, <1>2, NatSet
<1>4. Upto(Len(list))
  BY <1>0, <1>3
<1> QED
  BY <1>0, <1>4 DEF Upto, Keeps

\* Filtering by an id leads to a list of the same messages.
LEMMA WithoutIdType ==
  ASSUME NEW T, NEW list \in Seq(T), NEW id
  PROVE  WithoutId(list, id) \in Seq(T)
<1> DEFINE g == CHOOSE g : Keeps(list, id, g)
           G == {n \in Nat : n <= Len(list) => g[n] \in Seq(T)}
<1>0. Len(list) \in Nat /\ DOMAIN list = 1 .. Len(list)
  OBVIOUS
<1>1. WithoutId(list, id) = g[Len(list)]
  BY DEF WithoutId, Keeps, Kept
<1>2. Keeps(list, id, g)
  BY KeptExists
<1> HIDE DEF g
<1>3. \A n \in 0 .. Len(list) : g[n] = Kept(list, id, g, n)
  BY <1>2 DEF Keeps
<1>4. 0 \in G
  <2>1. g[0] = << >>
    BY <1>0, <1>3 DEF Kept
  <2>2. << >> \in Seq(T)
    OBVIOUS
  <2> QED
    BY <2>1, <2>2
<1>5. ASSUME NEW n \in Nat, n \in G PROVE n + 1 \in G
  <2> SUFFICES ASSUME n + 1 <= Len(list) PROVE g[n + 1] \in Seq(T)
    BY DEF G
  <2>1. g[n] \in Seq(T) /\ list[n + 1] \in T
    BY <1>0, <1>5
  <2>2. g[n + 1] = IF list[n + 1].id = id THEN g[n] ELSE Append(g[n], list[n + 1])
    BY <1>0, <1>3 DEF Kept
  <2> QED
    BY <2>1, <2>2
<1>6. G = Nat
  BY <1>4, <1>5, NatSet
<1> QED
  BY <1>0, <1>1, <1>6

\* Filtering by an id keeps what holds of every message.
LEMMA WithoutIdParts ==
  ASSUME NEW list \in Lists, NEW id
  PROVE  /\ WithoutId(list, id) \in Lists
         /\ \A i \in DOMAIN WithoutId(list, id) :
              \E j \in DOMAIN list : WithoutId(list, id)[i] = list[j]
<1> DEFINE T == {list[j] : j \in DOMAIN list}
<1>1. list \in Seq(T) /\ DOMAIN list = 1 .. Len(list)
  BY DEF Lists
<1>2. WithoutId(list, id) \in Seq(T)
  BY <1>1, WithoutIdType
<1>3. WithoutId(list, id) \in Lists
  BY WithoutIdType DEF Lists
<1> QED
  BY <1>2, <1>3

-----------------------------------------------------------------------------
(* The last message of a list.                                             *)

\* The last message of a list that has one.
LEMMA LastIs ==
  ASSUME NEW list \in Lists, list # << >>
  PROVE  /\ Len(list) \in Nat \ {0} /\ DOMAIN list = 1 .. Len(list) /\ Len(list) \in DOMAIN list
         /\ Last(list) = list[Len(list)] /\ Last(list) \in MessageType
BY DEF Last, Lists

\* Writing the last message leaves the others and the length alone.
LEMMA SetLastIs ==
  ASSUME NEW list \in Lists, list # << >>, NEW m \in MessageType
  PROVE  /\ SetLast(list, m) \in Lists /\ SetLast(list, m) # << >>
         /\ Len(SetLast(list, m)) = Len(list) /\ DOMAIN SetLast(list, m) = DOMAIN list
         /\ \A i \in DOMAIN list : SetLast(list, m)[i] = IF i = Len(list) THEN m ELSE list[i]
         /\ Last(SetLast(list, m)) = m
<1>1. Len(list) \in Nat \ {0} /\ DOMAIN list = 1 .. Len(list)
  BY DEF Lists
<1> DEFINE new == SetLast(list, m)
<1>2. /\ new \in Lists /\ Len(new) = Len(list) /\ DOMAIN new = DOMAIN list
      /\ \A i \in DOMAIN list : new[i] = IF i = Len(list) THEN m ELSE list[i]
  BY <1>1 DEF SetLast, Lists
<1> HIDE DEF new
<1>3. new # << >> /\ Last(new) = m
  BY <1>1, <1>2 DEF Last
<1> QED
  BY <1>2, <1>3 DEF new

\* Setting the last message twice.
LEMMA SetLastTwice ==
  ASSUME NEW list \in Lists, list # << >>, NEW m \in MessageType, NEW n \in MessageType
  PROVE  SetLast(SetLast(list, m), n) = SetLast(list, n)
<1>1. Len(list) \in Nat \ {0} /\ DOMAIN list = 1 .. Len(list)
  BY DEF Lists
<1>2. SetLast(list, m) \in Lists /\ Len(SetLast(list, m)) = Len(list)
  BY SetLastIs
<1> QED
  BY <1>1, <1>2 DEF SetLast

Stati == {"none", "loading", "incomplete", "complete", "error"}

\* The changes of a message.
LEMMA MessageFields ==
  ASSUME NEW m \in MessageType
  PROVE  /\ m.id \in Nat /\ m.role \in {"user", "assistant", "system"} /\ m.st \in Stati
         /\ m.text \subseteq 0 .. MaxReq /\ m.req \in 0 .. MaxReq
BY DEF MessageType, Stati

\* A message with another status.
LEMMA SetStatus ==
  ASSUME NEW m \in MessageType, NEW st \in Stati
  PROVE  LET n == [m EXCEPT !.st = st]
         IN  /\ n \in MessageType /\ n.st = st /\ n.text = m.text
             /\ n.id = m.id /\ n.role = m.role /\ n.req = m.req
BY DEF MessageType, Stati

-----------------------------------------------------------------------------
(* What the network does to the list.                                      *)

\* The last message, which is not finished, gets a status and text of request r.
Written(list, new, r) ==
  /\ list # << >> /\ ~Finished(Last(list))
  /\ \E m \in MessageType :
       /\ new = SetLast(list, m) /\ m.st # "none"
       /\ m.role = Last(list).role /\ m.req = Last(list).req
       /\ m.text \subseteq Last(list).text \union {r}

\* What an event of request r may do to the list on the screen.
Writes(r) == msgs' = msgs \/ Written(msgs, msgs', r)

\* streamMessageUpdate leaves the list alone, or adds to its last message.
LEMMA StreamUpdateIs ==
  ASSUME NEW list \in Lists, NEW r \in 0 .. MaxReq
  PROVE  LET new == StreamUpdate(list, r)
         IN  \/ new = list
             \/ /\ list # << >> /\ Generating(Last(list)) /\ ~Finished(Last(list))
                /\ \E m \in MessageType :
                     /\ new = SetLast(list, m) /\ m.st = "incomplete"
                     /\ m.role = Last(list).role /\ m.req = Last(list).req
                     /\ m.text \subseteq Last(list).text \union {r}
<1> DEFINE changes == list # << >> /\ Last(list).role = "assistant" /\ Generating(Last(list))
<1>1. CASE ~changes
  BY <1>1 DEF StreamUpdate
<1>2. CASE changes
  <2> PICK l : l = Last(list)
    OBVIOUS
  <2>1. l \in MessageType
    BY <1>2, LastIs
  <2> PICK t : t = l.text \union {r}
    OBVIOUS
  <2>2. t \in SUBSET (0 .. MaxReq) /\ "incomplete" \in Stati
    BY <2>1, MessageFields DEF Stati
  <2> DEFINE m == [l EXCEPT !.st = "incomplete", !.text = t]
  <2>3. m \in MessageType /\ m.st = "incomplete" /\ m.role = l.role /\ m.req = l.req /\ m.text = t
    BY <2>1, <2>2 DEF MessageType
  <2>4. StreamUpdate(list, r) = SetLast(list, m)
    BY <1>2 DEF StreamUpdate
  <2>5. ~Finished(Last(list))
    BY <1>2 DEF Generating, Finished
  <2> HIDE DEF m
  <2> QED
    BY <1>2, <2>3, <2>4, <2>5
<1> QED
  BY <1>1, <1>2

\* completeMessage throws, leaves a finished list alone, or finishes and saves it.
LEMMA CompleteIs ==
  ASSUME Types, NEW list \in Lists, NEW st \in {"complete", "error"}, CompleteMessage(list, st)
  PROVE  \/ list = << >> /\ crashed' = TRUE /\ UNCHANGED <<msgs, saves, unsaved>>
         \/ /\ list # << >> /\ Finished(Last(list)) /\ msgs' = list
            /\ UNCHANGED <<saves, unsaved, crashed>>
         \/ /\ list # << >> /\ ~Finished(Last(list)) /\ saves' = Append(saves, msgs')
            /\ unsaved' = FALSE /\ UNCHANGED crashed
            /\ \E m \in MessageType :
                 /\ msgs' = SetLast(list, m) /\ m.st = st /\ m.text = Last(list).text
                 /\ m.role = Last(list).role /\ m.req = Last(list).req
<1>1. CASE list = << >>
  BY <1>1 DEF CompleteMessage
<1>2. CASE list # << >> /\ Finished(Last(list))
  BY <1>2 DEF CompleteMessage
<1>3. CASE list # << >> /\ ~Finished(Last(list))
  <2> PICK l : l = Last(list)
    OBVIOUS
  <2>1. l \in MessageType /\ st \in Stati
    BY <1>3, LastIs DEF Stati
  <2> DEFINE m == [l EXCEPT !.st = st]
  <2>2. m \in MessageType /\ m.st = st /\ m.role = l.role /\ m.req = l.req /\ m.text = l.text
    BY <2>1, SetStatus
  <2>3. msgs' = SetLast(list, m) /\ saves' = Append(saves, SetLast(list, m)) /\ unsaved' = FALSE
        /\ UNCHANGED crashed
    BY <1>3 DEF CompleteMessage
  <2> HIDE DEF m
  <2> QED
    BY <1>3, <2>2, <2>3
<1> QED
  BY <1>1, <1>2, <1>3

\* A list that was written is a list of the same length, and only its last message differs.
LEMMA WrittenIs ==
  ASSUME NEW list \in Lists, NEW new, NEW r, Written(list, new, r)
  PROVE  /\ new \in Lists /\ new # << >> /\ Len(new) = Len(list) /\ DOMAIN new = DOMAIN list
         /\ \A i \in DOMAIN list : i # Len(list) => new[i] = list[i]
         /\ Last(new).role = Last(list).role /\ Last(new).req = Last(list).req
         /\ Last(new).text \subseteq Last(list).text \union {r} /\ Last(new).st # "none"
         /\ Last(new) = new[Len(list)] /\ Len(list) \in DOMAIN list
<1>1. PICK m \in MessageType :
        /\ new = SetLast(list, m) /\ m.st # "none"
        /\ m.role = Last(list).role /\ m.req = Last(list).req
        /\ m.text \subseteq Last(list).text \union {r}
  BY DEF Written
<1>2. list # << >>
  BY DEF Written
<1>3. Len(list) \in DOMAIN list
  BY <1>2, LastIs
<1> QED
  BY <1>1, <1>2, <1>3, SetLastIs

\* An event leaves texts their own: the last message is that of its request.
LEMMA WrittenGood ==
  ASSUME NEW list \in Lists, NEW new, NEW r, Written(list, new, r), Good(list),
         Settled(Last(list)) \/ Last(list).req = r
  PROVE  Good(new)
<1>1. /\ new \in Lists /\ DOMAIN new = DOMAIN list
      /\ \A i \in DOMAIN list : i # Len(list) => new[i] = list[i]
      /\ Last(new).role = Last(list).role /\ Last(new).req = Last(list).req
      /\ Last(new).text \subseteq Last(list).text \union {r} /\ Last(new).st # "none"
      /\ Last(new) = new[Len(list)] /\ Len(list) \in DOMAIN list /\ Last(list) = list[Len(list)]
  BY WrittenIs DEF Last
<1>2. Last(list).role = "user" \/ Last(list).req = 0 \/ Last(list).req = r
  BY DEF Written, Settled
<1> SUFFICES ASSUME NEW i \in DOMAIN new, new[i].role # "user", new[i].req # 0
             PROVE  new[i].text \subseteq {0, new[i].req} /\ new[i].st # "none"
  BY DEF Good
<1>3. CASE i = Len(list)
  <2>1. Last(list).text \subseteq {0, Last(list).req}
    BY <1>1, <1>3 DEF Good
  <2> QED
    BY <1>1, <1>2, <1>3, <2>1
<1>4. CASE i # Len(list)
  BY <1>1, <1>4 DEF Good
<1> QED
  BY <1>3, <1>4

\* Requests go on or are closed.
Fewer == /\ net' \in Seq(NetType) /\ Len(net') = Len(net) /\ DOMAIN net' = DOMAIN net
         /\ \A q \in DOMAIN net : net'[q].kind = net[q].kind /\ (net'[q].open => net[q].open)

\* Closing a request opens none.
LEMMA CloseIs ==
  ASSUME Types, NEW r \in DOMAIN net, Close(r)
  PROVE  Fewer /\ ~net'[r].open
<1> DEFINE n == [net[r] EXCEPT !.open = FALSE]
<1>1. net \in Seq(NetType) /\ net[r] \in NetType /\ DOMAIN net = 1 .. Len(net)
  BY DEF Types
<1>2. n \in NetType /\ n.open = FALSE /\ n.kind = net[r].kind
  BY <1>1 DEF NetType
<1>3. net' = [net EXCEPT ![r] = n]
  BY DEF Close
<1> HIDE DEF n
<1>4. net' \in Seq(NetType) /\ Len(net') = Len(net) /\ DOMAIN net' = DOMAIN net
      /\ \A q \in DOMAIN net : net'[q] = IF q = r THEN n ELSE net[q]
  BY <1>1, <1>2, <1>3
<1> QED
  BY <1>2, <1>4 DEF Fewer

\* A list is saved only as it is on the screen.
Saves == saves' = saves \/ saves' = Append(saves, msgs')

\* What is saved is a list.
LEMMA SavesType ==
  ASSUME Types, Saves, msgs' \in Lists
  PROVE  saves' \in Seq(Lists)
<1>1. saves \in Seq(Lists)
  BY DEF Types
<1>2. CASE saves' = saves
  BY <1>1, <1>2
<1>3. CASE saves' = Append(saves, msgs')
  BY <1>1, <1>3
<1> QED
  BY <1>2, <1>3 DEF Saves

\* Every snapshot to save keeps its texts apart when the list on the screen does.
LEMMA SavesGood ==
  ASSUME Types, Saves, msgs' \in Lists, Good(msgs'), \A i \in DOMAIN saves : Good(saves[i])
  PROVE  \A i \in DOMAIN saves' : Good(saves'[i])
<1>1. CASE saves' = saves
  BY <1>1
<1>2. CASE saves' = Append(saves, msgs')
  <2>1. /\ saves \in Seq(Lists) /\ DOMAIN saves = 1 .. Len(saves) /\ DOMAIN saves' = 1 .. Len(saves) + 1
        /\ Len(saves) \in Nat
    BY <1>2 DEF Types
  <2>2. \A i \in DOMAIN saves' : saves'[i] = IF i = Len(saves) + 1 THEN msgs' ELSE saves[i]
    BY <1>2, <2>1
  <2> QED
    BY <2>1, <2>2
<1> QED
  BY <1>1, <1>2 DEF Saves

\* An event of an open request keeps the types, the single request and the texts.
LEMMA EventStep ==
  ASSUME Core, NEW r \in DOMAIN net, net[r].open, msgs' = msgs \/ Written(msgs, msgs', r), Saves,
         Fewer, sseRef' = sseRef \/ (sseRef' = 0 /\ ~net'[r].open),
         UNCHANGED <<stored, ui>>, odd \subseteq odd', odd' \subseteq Oddities,
         crashed' \in BOOLEAN, unsaved' \in BOOLEAN
  PROVE  Types' /\ OneRequest' /\ Own'
<1>1. msgs \in Lists /\ msgs' \in Lists
  BY WrittenIs DEF Core, Types
<1>2. UNCHANGED <<timers, nextId, editing, modal>>
  BY DEF ui
<1>3. Types'
  <2>1. saves' \in Seq(Lists)
    BY <1>1, SavesType DEF Core
  <2>2. sseRef' \in {0} \union {q \in DOMAIN net' : net'[q].kind = "sse"}
    BY DEF Core, Types, Fewer
  <2>3. net' \in Seq(NetType) /\ Len(net') <= MaxReq
    BY DEF Core, Types, Fewer
  <2> QED
    BY <1>1, <1>2, <2>1, <2>2, <2>3 DEF Core, Types
<1>4. OneRequest'
  <2> SUFFICES ASSUME "overlap" \notin odd'
               PROVE  /\ \A p, q \in DOMAIN net' : net'[p].open /\ net'[q].open => p = q
                      /\ \A q \in DOMAIN net' : Streaming(q)' => sseRef' = q
    BY DEF OneRequest
  <2>1. /\ \A p, q \in DOMAIN net : net[p].open /\ net[q].open => p = q
        /\ \A q \in DOMAIN net : Streaming(q) => sseRef = q
    BY DEF Core, OneRequest
  <2>2. \A q \in DOMAIN net' : Streaming(q)' => Streaming(q) /\ net'[q].open
    BY DEF Streaming, Open, Fewer
  <2> QED
    BY <2>1, <2>2 DEF Fewer
<1>5. Own'
  <2> SUFFICES ASSUME odd' \intersect {"overlap", "stale"} = {}
               PROVE  /\ Good(msgs') /\ Good(stored') /\ \A i \in DOMAIN saves' : Good(saves'[i])
                      /\ modal'.type = "edit" => Good(modal'.list) /\ From(modal'.seen, modal'.list)
                      /\ \A q \in DOMAIN net' :
                           net'[q].open /\ msgs' # << >> => Settled(Last(msgs')) \/ Last(msgs').req = q
    BY DEF Own
  <2>1. /\ Good(msgs) /\ Good(stored) /\ \A i \in DOMAIN saves : Good(saves[i])
        /\ modal.type = "edit" => Good(modal.list) /\ From(modal.seen, modal.list)
        /\ \A q \in DOMAIN net :
             net[q].open /\ msgs # << >> => Settled(Last(msgs)) \/ Last(msgs).req = q
    BY DEF Core, Own
  <2>2. Good(msgs')
    <3>1. CASE Written(msgs, msgs', r)
      <4>1. msgs # << >>
        BY <3>1 DEF Written
      <4> QED
        BY <1>1, <2>1, <3>1, <4>1, WrittenGood
    <3> QED
      BY <2>1, <3>1
  <2>3. \A i \in DOMAIN saves' : Good(saves'[i])
    BY <1>1, <2>1, <2>2, SavesGood DEF Core
  <2>4. ASSUME NEW q \in DOMAIN net', net'[q].open, msgs' # << >>
        PROVE  Settled(Last(msgs')) \/ Last(msgs').req = q
    <3>1. q \in DOMAIN net /\ net[q].open
      BY <2>4 DEF Fewer
    <3>2. CASE msgs' = msgs
      BY <2>1, <2>4, <3>1, <3>2
    <3>3. CASE Written(msgs, msgs', r)
      <4>1. /\ msgs # << >> /\ ~Finished(Last(msgs))
            /\ Last(msgs').role = Last(msgs).role /\ Last(msgs').req = Last(msgs).req
        BY <1>1, <3>3, WrittenIs DEF Written
      <4> QED
        BY <2>1, <3>1, <4>1 DEF Settled
    <3> QED
      BY <3>2, <3>3
  <2> QED
    BY <1>2, <2>1, <2>2, <2>3, <2>4
<1> QED
  BY <1>3, <1>4, <1>5

-----------------------------------------------------------------------------
(* What will be stored.                                                    *)

\* A list that is saved as it is shown will be stored.
LEMMA SavedNew ==
  ASSUME Types, saves' = Append(saves, msgs'), msgs' \in Lists
  PROVE  Saved'
<1>1. saves \in Seq(Lists) /\ Len(saves) \in Nat
  BY DEF Types
<1>2. saves' # << >> /\ Len(saves') = Len(saves) + 1 /\ saves'[Len(saves) + 1] = msgs'
  BY <1>1
<1>3. LastSaved' = msgs'
  BY <1>2 DEF LastSaved
<1> QED
  BY <1>3 DEF Saved

\* Nothing is to be saved when the list stays.
LEMMA SavedSame ==
  ASSUME Saved, UNCHANGED <<msgs, stored, saves, timers>>,
         crashed => crashed', unsaved => unsaved'
  PROVE  Saved'
BY DEF Saved, LastSaved, AnyGenerating

\* A message that is being generated excuses the list from being stored.
LEMMA GeneratingLast ==
  ASSUME NEW list \in Lists, list # << >>, Generating(Last(list))
  PROVE  \E i \in DOMAIN list : Generating(list[i])
BY LastIs

-----------------------------------------------------------------------------
(* Events of a request.                                                    *)

\* After the end of the only request there is no stream to be kept alive.
LEMMA LiveClosed ==
  ASSUME OneRequest, NEW r \in DOMAIN net, net[r].open, Fewer, ~net'[r].open, odd \subseteq odd'
  PROVE  Live'
<1> SUFFICES ASSUME odd' \subseteq {"hollow", "cut"}, NEW q \in DOMAIN net', Streaming(q)' PROVE FALSE
  BY DEF Live
<1>1. q \in DOMAIN net /\ net[q].open /\ q # r
  BY DEF Fewer, Streaming, Open
<1> QED
  BY <1>1 DEF OneRequest

\* A piece of a streamed answer.
LEMMA ChunkStep ==
  ASSUME Core, NEW r \in DOMAIN net, Chunk(r)
  PROVE  Core' /\ Writes(r)
<1>1. /\ Streaming(r) /\ msgs' = StreamUpdate(msgs, r)
      /\ UNCHANGED <<stored, saves, net, sseRef, ui, crashed, unsaved, odd>>
      /\ msgs \in Lists /\ net[r].open /\ r \in 0 .. MaxReq
  BY PlaygroundAssumption DEF Chunk, Streaming, Open, Core, Types
<1>2. \/ msgs' = msgs
      \/ Written(msgs, msgs', r) /\ msgs' \in Lists /\ msgs' # << >> /\ Generating(Last(msgs'))
  <2>1. CASE msgs' = msgs
    BY <2>1
  <2>2. CASE /\ msgs # << >> /\ ~Finished(Last(msgs))
             /\ \E m \in MessageType :
                  /\ msgs' = SetLast(msgs, m) /\ m.st = "incomplete"
                  /\ m.role = Last(msgs).role /\ m.req = Last(msgs).req
                  /\ m.text \subseteq Last(msgs).text \union {r}
    <3>1. PICK m \in MessageType :
            /\ msgs' = SetLast(msgs, m) /\ m.st = "incomplete"
            /\ m.role = Last(msgs).role /\ m.req = Last(msgs).req
            /\ m.text \subseteq Last(msgs).text \union {r}
      BY <2>2
    <3>2. msgs' \in Lists /\ msgs' # << >> /\ Last(msgs') = m
      BY <1>1, <2>2, <3>1, SetLastIs
    <3> QED
      BY <2>2, <3>1, <3>2 DEF Written, Generating
  <2> QED
    BY <1>1, <2>1, <2>2, StreamUpdateIs
<1>3. Fewer /\ Saves
  BY <1>1 DEF Fewer, Saves, Core, Types
<1>4. Types' /\ OneRequest' /\ Own'
  BY <1>1, <1>2, <1>3, EventStep DEF Core, Types
<1>5. Saved'
  <2>1. CASE msgs' = msgs
    BY <1>1, <2>1, SavedSame DEF Core, ui
  <2>2. CASE msgs' \in Lists /\ msgs' # << >> /\ Generating(Last(msgs'))
    BY <2>2, GeneratingLast DEF Saved, AnyGenerating
  <2> QED
    BY <1>2, <2>1, <2>2
<1>6. Live'
  BY <1>1, <1>2 DEF Core, Live, Streaming, Open, LastGenerating
<1>7. ThrowsOnlyWhenCleared'
  BY <1>1 DEF Core, ThrowsOnlyWhenCleared
<1> QED
  BY <1>2, <1>4, <1>5, <1>6, <1>7 DEF Core, Writes

\* The list after completeMessage on the list of the screen.
LEMMA CompleteStep ==
  ASSUME Core, NEW r \in DOMAIN net, NEW st \in {"complete", "error"}, CompleteMessage(msgs, st),
         UNCHANGED <<stored, timers>>
  PROVE  /\ Saved' /\ Saves /\ (msgs' = msgs \/ Written(msgs, msgs', r))
         /\ unsaved' \in BOOLEAN /\ crashed' \in BOOLEAN
         /\ crashed' => crashed \/ msgs = << >>
<1>0. msgs \in Lists /\ Types /\ crashed \in BOOLEAN /\ unsaved \in BOOLEAN
  BY DEF Core, Types
<1>1. CASE msgs = << >> /\ crashed' = TRUE /\ UNCHANGED <<msgs, saves, unsaved>>
  BY <1>0, <1>1 DEF Saves, Saved
<1>2. CASE /\ msgs # << >> /\ Finished(Last(msgs)) /\ msgs' = msgs
           /\ UNCHANGED <<saves, unsaved, crashed>>
  BY <1>0, <1>2, SavedSame DEF Saves, Core
<1>3. CASE /\ msgs # << >> /\ ~Finished(Last(msgs)) /\ saves' = Append(saves, msgs')
           /\ unsaved' = FALSE /\ UNCHANGED crashed
           /\ \E m \in MessageType :
                /\ msgs' = SetLast(msgs, m) /\ m.st = st /\ m.text = Last(msgs).text
                /\ m.role = Last(msgs).role /\ m.req = Last(msgs).req
  <2>1. Written(msgs, msgs', r)
    BY <1>3 DEF Written
  <2>2. msgs' \in Lists
    BY <1>0, <2>1, WrittenIs
  <2> QED
    BY <1>0, <1>3, <2>1, <2>2, SavedNew DEF Saves
<1> QED
  BY <1>0, <1>1, <1>2, <1>3, CompleteIs

\* The end of a stream; the list is empty then in irregular histories only.
LEMMA DoneStep ==
  ASSUME Core, ~crashed, NEW r \in DOMAIN net, Done(r)
  PROVE  Core' /\ Writes(r)
<1>1. /\ Streaming(r) /\ Close(r) /\ sseRef' = 0 /\ CompleteMessage(msgs, "complete")
      /\ UNCHANGED <<stored, ui, odd>> /\ UNCHANGED timers /\ net[r].open
  BY DEF Done, ui, Streaming, Open
<1>2. Fewer /\ ~net'[r].open
  BY <1>1, CloseIs DEF Core
<1>3. /\ Saved' /\ Saves /\ (msgs' = msgs \/ Written(msgs, msgs', r))
      /\ unsaved' \in BOOLEAN /\ crashed' \in BOOLEAN
      /\ crashed' => msgs = << >>
  BY <1>1, CompleteStep
<1>4. Types' /\ OneRequest' /\ Own'
  BY <1>1, <1>2, <1>3, EventStep DEF Core, Types
<1>5. ThrowsOnlyWhenCleared'
  BY <1>1, <1>3 DEF Core, Live, LastGenerating, ThrowsOnlyWhenCleared, Oddities, Types
<1>6. Live'
  BY <1>1, <1>2, LiveClosed DEF Core
<1> QED
  BY <1>3, <1>4, <1>5, <1>6 DEF Core, Writes

\* Data that does not parse: the message is written, then finished with an error.
LEMMA ParseErrorStep ==
  ASSUME Core, ~crashed, NEW r \in DOMAIN net, ParseError(r)
  PROVE  Core' /\ Writes(r)
<1> PICK list : list = StreamUpdate(msgs, r)
  OBVIOUS
<1>1. /\ Streaming(r) /\ net[r].open /\ CompleteMessage(list, "error")
      /\ odd' = odd \union {"unparsed"}
      /\ UNCHANGED <<stored, net, sseRef, ui>> /\ UNCHANGED timers
  BY DEF ParseError, ui, Streaming, Open
<1>2. msgs \in Lists /\ Types /\ r \in 0 .. MaxReq /\ crashed \in BOOLEAN /\ unsaved \in BOOLEAN
  BY PlaygroundAssumption DEF Core, Types
<1>3. Fewer /\ odd \subseteq odd' /\ odd' \subseteq Oddities
  BY <1>1 DEF Fewer, Core, Types, Oddities
<1>4. Saved' /\ Saves /\ unsaved' \in BOOLEAN /\ crashed' \in BOOLEAN
      /\ (msgs' = msgs \/ Written(msgs, msgs', r))
  <2>1. CASE list = msgs
    BY <1>1, <2>1, CompleteStep
  <2>2. CASE /\ msgs # << >> /\ ~Finished(Last(msgs))
             /\ \E m \in MessageType :
                  /\ list = SetLast(msgs, m) /\ m.st = "incomplete"
                  /\ m.role = Last(msgs).role /\ m.req = Last(msgs).req
                  /\ m.text \subseteq Last(msgs).text \union {r}
    <3>1. PICK m \in MessageType :
            /\ list = SetLast(msgs, m) /\ m.st = "incomplete"
            /\ m.role = Last(msgs).role /\ m.req = Last(msgs).req
            /\ m.text \subseteq Last(msgs).text \union {r}
      BY <2>2
    <3>2. list \in Lists /\ list # << >> /\ Last(list) = m /\ ~Finished(Last(list))
      BY <1>2, <2>2, <3>1, SetLastIs DEF Finished
    <3>3. /\ saves' = Append(saves, msgs') /\ unsaved' = FALSE /\ UNCHANGED crashed
          /\ \E n \in MessageType :
               /\ msgs' = SetLast(list, n) /\ n.st = "error" /\ n.text = m.text
               /\ n.role = m.role /\ n.req = m.req
      BY <1>1, <1>2, <3>2, CompleteIs
    <3>4. PICK n \in MessageType :
            /\ msgs' = SetLast(list, n) /\ n.st = "error" /\ n.text = m.text
            /\ n.role = m.role /\ n.req = m.req
      BY <3>3
    <3>5. msgs' = SetLast(msgs, n)
      BY <1>2, <2>2, <3>1, <3>4, SetLastTwice
    <3>6. Written(msgs, msgs', r)
      BY <2>2, <3>1, <3>4, <3>5 DEF Written
    <3>7. msgs' \in Lists
      BY <1>2, <3>6, WrittenIs
    <3> QED
      BY <1>2, <3>3, <3>6, <3>7, SavedNew DEF Saves
  <2> QED
    BY <1>2, <2>1, <2>2, StreamUpdateIs
<1>5. Types' /\ OneRequest' /\ Own'
  BY <1>1, <1>3, <1>4, EventStep
<1>6. ThrowsOnlyWhenCleared' /\ Live'
  BY <1>1 DEF ThrowsOnlyWhenCleared, Live
<1> QED
  BY <1>4, <1>5, <1>6 DEF Core, Writes

\* The error of a stream.
LEMMA SseErrorStep ==
  ASSUME Core, ~crashed, NEW r \in DOMAIN net, NEW http \in BOOLEAN, SseError(r, http)
  PROVE  Core' /\ Writes(r)
<1>1. /\ Streaming(r) /\ Close(r) /\ sseRef' = 0 /\ net[r].open
      /\ UNCHANGED <<stored, saves, ui, odd>> /\ UNCHANGED timers
  BY DEF SseError, ui, Streaming, Open
<1>2. /\ msgs \in Lists /\ r \in 0 .. MaxReq /\ unsaved \in BOOLEAN /\ crashed \in BOOLEAN
      /\ odd \subseteq Oddities
  BY PlaygroundAssumption DEF Core, Types
<1>3. Fewer /\ ~net'[r].open
  BY <1>1, CloseIs DEF Core
<1>4. \/ msgs' = msgs /\ UNCHANGED unsaved /\ crashed' \in BOOLEAN /\ (crashed' => msgs = << >>)
      \/ Written(msgs, msgs', r) /\ unsaved' = TRUE /\ UNCHANGED crashed
  <2>1. CASE msgs = << >>
    BY <2>1 DEF SseError
  <2>2. CASE msgs # << >> /\ Finished(Last(msgs))
    BY <1>2, <2>2 DEF SseError
  <2>3. CASE msgs # << >> /\ ~Finished(Last(msgs))
    <3> PICK l : l = Last(msgs)
      OBVIOUS
    <3>1. l \in MessageType
      BY <1>2, <2>3, LastIs
    <3> PICK t : t = l.text \union {r}
      OBVIOUS
    <3>2. t \in SUBSET (0 .. MaxReq)
      BY <1>2, <3>1, MessageFields
    <3> DEFINE m == [l EXCEPT !.st = "error", !.text = t]
    <3>3. m \in MessageType /\ m.st = "error" /\ m.role = l.role /\ m.req = l.req /\ m.text = t
      BY <3>1, <3>2 DEF MessageType
    <3>4. msgs' = SetLast(msgs, m) /\ unsaved' = TRUE /\ UNCHANGED crashed
      BY <2>3 DEF SseError
    <3> HIDE DEF m
    <3> QED
      BY <2>3, <3>3, <3>4 DEF Written
  <2> QED
    BY <2>1, <2>2, <2>3
<1>5. Types' /\ OneRequest' /\ Own'
  <2>1. Saves /\ crashed' \in BOOLEAN /\ unsaved' \in BOOLEAN
    BY <1>1, <1>2, <1>4 DEF Saves
  <2> QED
    BY <1>1, <1>2, <1>3, <1>4, <2>1, EventStep
<1>6. Saved'
  <2>1. CASE msgs' = msgs /\ UNCHANGED unsaved
    BY <1>1, <2>1, SavedSame DEF Core
  <2>2. CASE unsaved' = TRUE
    BY <2>2 DEF Saved
  <2> QED
    BY <1>4, <2>1, <2>2
<1>7. Live'
  BY <1>1, <1>3, LiveClosed DEF Core
<1>8. ThrowsOnlyWhenCleared'
  BY <1>1, <1>4 DEF Core, Live, LastGenerating, ThrowsOnlyWhenCleared, Types
<1> QED
  BY <1>4, <1>5, <1>6, <1>7, <1>8 DEF Core, Writes

\* The answer or the error of a fetch.
LEMMA FetchEndsStep ==
  ASSUME Core, ~crashed, NEW r \in DOMAIN net, NEW st \in {"complete", "error"}, FetchEnds(r, st)
  PROVE  Core' /\ Writes(r)
<1>1. /\ Close(r) /\ net[r].open
      /\ UNCHANGED <<stored, saves, sseRef, ui, crashed, odd>> /\ UNCHANGED timers
  BY DEF FetchEnds, ui, Fetching, Open
<1>2. /\ msgs \in Lists /\ r \in 0 .. MaxReq /\ unsaved \in BOOLEAN /\ crashed \in BOOLEAN
      /\ odd \subseteq Oddities
  BY PlaygroundAssumption DEF Core, Types
<1>3. Fewer /\ ~net'[r].open
  BY <1>1, CloseIs DEF Core
<1>4. (msgs' = msgs /\ UNCHANGED unsaved) \/ (Written(msgs, msgs', r) /\ unsaved' = TRUE)
  <2>1. CASE ~(msgs # << >> /\ Last(msgs).st = "loading")
    BY <2>1 DEF FetchEnds
  <2>2. CASE msgs # << >> /\ Last(msgs).st = "loading"
    <3> PICK l : l = Last(msgs)
      OBVIOUS
    <3>1. l \in MessageType
      BY <1>2, <2>2, LastIs
    <3> DEFINE m == [l EXCEPT !.st = st, !.text = {r}]
    <3>2. m \in MessageType /\ m.st = st /\ m.role = l.role /\ m.req = l.req /\ m.text = {r}
      BY <1>2, <3>1 DEF MessageType
    <3>3. msgs' = SetLast(msgs, m) /\ unsaved' = TRUE
      BY <2>2 DEF FetchEnds
    <3>4. ~Finished(Last(msgs))
      BY <2>2 DEF Finished
    <3> HIDE DEF m
    <3> QED
      BY <2>2, <3>2, <3>3, <3>4 DEF Written
  <2> QED
    BY <2>1, <2>2
<1>5. Types' /\ OneRequest' /\ Own'
  <2>1. Saves /\ crashed' \in BOOLEAN /\ unsaved' \in BOOLEAN
    BY <1>1, <1>2, <1>4 DEF Saves
  <2> QED
    BY <1>1, <1>2, <1>3, <1>4, <2>1, EventStep
<1>6. Saved'
  <2>1. CASE msgs' = msgs /\ UNCHANGED unsaved
    BY <1>1, <2>1, SavedSame DEF Core
  <2>2. CASE unsaved' = TRUE
    BY <2>2 DEF Saved
  <2> QED
    BY <1>4, <2>1, <2>2
<1>7. Live'
  BY <1>1, <1>3, LiveClosed DEF Core
<1>8. ThrowsOnlyWhenCleared'
  BY <1>1 DEF Core, ThrowsOnlyWhenCleared
<1> QED
  BY <1>4, <1>5, <1>6, <1>7, <1>8 DEF Core, Writes

\* An answer without choices, or a stream that is cut off.
LEMMA SilentEndStep ==
  ASSUME Core, NEW r \in DOMAIN net, FetchHollow(r) \/ StreamCut(r)
  PROVE  Core' /\ Writes(r)
<1> PICK x \in {"hollow", "cut"} : odd' = odd \union {x}
  BY DEF FetchHollow, StreamCut
<1>1. /\ Close(r) /\ net[r].open /\ odd' = odd \union {x}
      /\ UNCHANGED <<msgs, stored, saves, sseRef, ui, crashed, unsaved>> /\ UNCHANGED timers
  BY DEF FetchHollow, StreamCut, ui, Fetching, Streaming, Open
<1>2. Fewer /\ ~net'[r].open
  BY <1>1, CloseIs DEF Core
<1>3. odd \subseteq odd' /\ odd' \subseteq Oddities /\ Saves
  BY <1>1 DEF Core, Types, Oddities, Saves
<1>4. Types' /\ OneRequest' /\ Own'
  BY <1>1, <1>2, <1>3, EventStep DEF Core, Types
<1>5. Saved'
  BY <1>1, SavedSame DEF Core
<1>6. Live'
  BY <1>1, <1>2, <1>3, LiveClosed DEF Core
<1>7. ThrowsOnlyWhenCleared'
  BY <1>1 DEF Core, ThrowsOnlyWhenCleared
<1> QED
  BY <1>1, <1>4, <1>5, <1>6, <1>7 DEF Core, Writes

-----------------------------------------------------------------------------
(* Requests.                                                               *)

\* A new request is open, the others stay; one that overlaps another is on record.
LEMMA SendIs ==
  ASSUME Core, NEW k \in ReqKinds, SendRequest(k)
  PROVE  /\ net' \in Seq(NetType) /\ Len(net') <= MaxReq /\ DOMAIN net' = 1 .. Len(net) + 1
         /\ Len(net) + 1 \in 1 .. MaxReq
         /\ sseRef' \in {0} \union {r \in DOMAIN net' : net'[r].kind = "sse"}
         /\ odd \subseteq odd' /\ odd' \subseteq Oddities
         /\ "overlap" \notin odd' =>
              /\ \A q \in DOMAIN net' : net'[q].open => q = Len(net) + 1
              /\ net'[Len(net) + 1].kind = "sse" => sseRef' = Len(net) + 1
<1> DEFINE n == [kind |-> k, open |-> TRUE]
<1>1. n \in NetType /\ n.kind = k
  BY DEF NetType
<1>2. net \in Seq(NetType) /\ Len(net) \in Nat /\ DOMAIN net = 1 .. Len(net) /\ Len(net) < MaxReq
      /\ MaxReq \in Nat
  BY PlaygroundAssumption DEF SendRequest, Core, Types
<1>3. net' = Append(net, n)
  BY DEF SendRequest
<1> HIDE DEF n
<1>4. /\ net' \in Seq(NetType) /\ Len(net') = Len(net) + 1 /\ DOMAIN net' = 1 .. Len(net) + 1
      /\ net'[Len(net) + 1] = n /\ \A q \in DOMAIN net : net'[q] = net[q]
  BY <1>1, <1>2, <1>3
<1>5. sseRef' \in {0} \union {r \in DOMAIN net' : net'[r].kind = "sse"}
  <2>1. CASE k = "sse"
    BY <1>1, <1>2, <1>4, <2>1 DEF SendRequest
  <2>2. CASE k # "sse"
    BY <1>2, <1>4, <2>2 DEF SendRequest, Core, Types
  <2> QED
    BY <2>1, <2>2
<1>6. odd \subseteq odd' /\ odd' \subseteq Oddities
      /\ ("overlap" \notin odd' => \A q \in DOMAIN net : ~net[q].open)
  BY DEF SendRequest, Core, Types, Oddities
<1>7. \A q \in DOMAIN net' : q \in DOMAIN net \/ q = Len(net) + 1
  BY <1>2, <1>4
<1>8. "overlap" \notin odd' =>
        /\ \A q \in DOMAIN net' : net'[q].open => q = Len(net) + 1
        /\ net'[Len(net) + 1].kind = "sse" => sseRef' = Len(net) + 1
  BY <1>1, <1>4, <1>6, <1>7 DEF SendRequest
<1> QED
  BY <1>2, <1>4, <1>5, <1>6, <1>8

\* With a loading answer for the new request at the end of the list.
LEMMA RequestStep ==
  ASSUME Core, ~crashed, NEW k \in ReqKinds, SendRequest(k), msgs' \in Lists, msgs' # << >>,
         Last(msgs').st = "loading", Last(msgs').req = Len(net) + 1, Good(msgs) => Good(msgs'),
         Saves, Saved', nextId' \in Nat \ {0}, timers' \in Seq(TimerKinds),
         unsaved' \in BOOLEAN, UNCHANGED <<stored, editing, modal, crashed>>
  PROVE  Core'
<1>1. /\ net' \in Seq(NetType) /\ Len(net') <= MaxReq /\ DOMAIN net' = 1 .. Len(net) + 1
      /\ sseRef' \in {0} \union {r \in DOMAIN net' : net'[r].kind = "sse"}
      /\ odd \subseteq odd' /\ odd' \subseteq Oddities
      /\ "overlap" \notin odd' =>
           /\ \A q \in DOMAIN net' : net'[q].open => q = Len(net) + 1
           /\ net'[Len(net) + 1].kind = "sse" => sseRef' = Len(net) + 1
  BY SendIs
<1>2. Types'
  <2>1. saves' \in Seq(Lists)
    BY SavesType DEF Core
  <2> QED
    BY <1>1, <2>1 DEF Core, Types
<1>3. OneRequest'
  BY <1>1 DEF OneRequest, Streaming, Open
<1>4. Live'
  BY DEF Live, LastGenerating, Generating
<1>5. ThrowsOnlyWhenCleared'
  BY DEF ThrowsOnlyWhenCleared
<1>6. Own'
  <2> SUFFICES ASSUME odd' \intersect {"overlap", "stale"} = {}
               PROVE  /\ Good(msgs') /\ Good(stored') /\ \A i \in DOMAIN saves' : Good(saves'[i])
                      /\ modal'.type = "edit" => Good(modal'.list) /\ From(modal'.seen, modal'.list)
                      /\ \A q \in DOMAIN net' :
                           net'[q].open /\ msgs' # << >> => Settled(Last(msgs')) \/ Last(msgs').req = q
    BY DEF Own
  <2>1. /\ Good(msgs) /\ Good(stored) /\ \A i \in DOMAIN saves : Good(saves[i])
        /\ modal.type = "edit" => Good(modal.list) /\ From(modal.seen, modal.list)
    BY <1>1 DEF Core, Own
  <2>2. \A i \in DOMAIN saves' : Good(saves'[i])
    BY <2>1, SavesGood DEF Core
  <2> QED
    BY <1>1, <2>1, <2>2
<1> QED
  BY <1>2, <1>3, <1>4, <1>5, <1>6 DEF Core

\* The messages that are made.
LEMMA MessageIs ==
  ASSUME NEW id \in Nat, NEW role \in {"user", "assistant"}, NEW st \in Stati, NEW r \in 0 .. MaxReq
  PROVE  LET m == Message(id, role, st, r)
         IN  m \in MessageType /\ m.role = role /\ m.st = st /\ m.req = r /\ m.text = {}
BY DEF Message, MessageType, Stati

\* A message at the end of a list.
LEMMA AppendIs ==
  ASSUME NEW list \in Lists, NEW m \in MessageType
  PROVE  LET new == Append(list, m)
         IN  /\ new \in Lists /\ Len(new) = Len(list) + 1 /\ Len(list) \in Nat /\ new # << >>
             /\ DOMAIN list = 1 .. Len(list) /\ DOMAIN new = 1 .. Len(list) + 1
             /\ \A i \in DOMAIN list : new[i] = list[i]
             /\ new[Len(list) + 1] = m /\ Last(new) = m
BY DEF Lists, Last

\* Two messages at the end of a list.
LEMMA AppendTwo ==
  ASSUME NEW list \in Lists, NEW m \in MessageType, NEW n \in MessageType
  PROVE  list \o <<m, n>> = Append(Append(list, m), n)
BY DEF Lists

\* A message without text leaves texts their own.
LEMMA AppendGood ==
  ASSUME NEW list \in Lists, NEW m \in MessageType, m.role = "user" \/ (m.text = {} /\ m.st # "none")
  PROVE  Good(list) => Good(Append(list, m))
<1> PICK new : new = Append(list, m)
  OBVIOUS
<1>1. /\ Len(list) \in Nat /\ DOMAIN list = 1 .. Len(list) /\ DOMAIN new = 1 .. Len(list) + 1
      /\ \A i \in DOMAIN list : new[i] = list[i]
      /\ new[Len(list) + 1] = m
  BY AppendIs
<1>2. \A i \in DOMAIN new : i \in DOMAIN list \/ i = Len(list) + 1
  BY <1>1
<1> QED
  BY <1>1, <1>2 DEF Good

\* A message of the user with the answer to come, from the input or from a retry.
LEMMA SendMessageStep ==
  ASSUME Core, ~crashed, NEW k \in ReqKinds, SendMessage(k), timers' \in Seq(TimerKinds),
         UNCHANGED <<stored, editing, modal, crashed>>
  PROVE  Core'
<1> PICK u, a : /\ u = Message(nextId + 2, "user", "none", 0)
                /\ a = Message(nextId + 1, "assistant", "loading", Len(net) + 1)
  OBVIOUS
<1>1. /\ SendRequest(k) /\ msgs' = msgs \o <<u, a>> /\ saves' = Append(saves, msgs')
      /\ unsaved' = FALSE /\ nextId' = nextId + 3
  BY DEF SendMessage, Save
<1>2. msgs \in Lists /\ Types /\ nextId \in Nat \ {0} /\ Len(net) + 1 \in 0 .. MaxReq /\ 0 \in 0 .. MaxReq
  <2>1. Len(net) + 1 \in 1 .. MaxReq /\ MaxReq \in Nat
    BY <1>1, SendIs, PlaygroundAssumption
  <2>2. msgs \in Lists /\ Types /\ nextId \in Nat \ {0} /\ Len(net) \in Nat
    BY DEF Core, Types
  <2> QED
    BY <2>1, <2>2
<1>3. u \in MessageType /\ u.role = "user"
  <2> PICK i : i = nextId + 2
    OBVIOUS
  <2>1. i \in Nat /\ "none" \in Stati /\ "user" \in {"user", "assistant"} /\ 0 \in 0 .. MaxReq
    BY <1>2 DEF Stati
  <2>2. u = Message(i, "user", "none", 0)
    OBVIOUS
  <2>3. Message(i, "user", "none", 0) \in MessageType /\ Message(i, "user", "none", 0).role = "user"
    BY <2>1, MessageIs
  <2> QED
    BY <2>2, <2>3
<1>4. a \in MessageType /\ a.st = "loading" /\ a.req = Len(net) + 1 /\ a.text = {}
  <2> PICK i, r : i = nextId + 1 /\ r = Len(net) + 1
    OBVIOUS
  <2>1. i \in Nat /\ "loading" \in Stati /\ r \in 0 .. MaxReq
    BY <1>2 DEF Stati
  <2>2. a = Message(i, "assistant", "loading", r)
    OBVIOUS
  <2> QED
    BY <2>1, <2>2, MessageIs
<1>5. Append(msgs, u) \in Lists /\ msgs' = Append(Append(msgs, u), a)
  BY <1>1, <1>2, <1>3, <1>4, AppendIs, AppendTwo
<1>6. msgs' \in Lists /\ msgs' # << >> /\ Last(msgs') = a
  BY <1>4, <1>5, AppendIs
<1>7. Good(msgs) => Good(msgs')
  BY <1>2, <1>3, <1>4, <1>5, AppendGood
<1>8. Saved' /\ Saves
  BY <1>1, <1>2, <1>6, SavedNew DEF Saves
<1>9. nextId' \in Nat \ {0}
  BY <1>1, <1>2
<1> QED
  BY <1>1, <1>4, <1>6, <1>7, <1>8, <1>9, RequestStep

\* A new answer to an edited message.
LEMMA RegenStep ==
  ASSUME Core, NEW k \in ReqKinds, RegenTimer(k)
  PROVE  Core'
<1> PICK a : a = Message(nextId, "assistant", "loading", Len(net) + 1)
  OBVIOUS
<1>1. /\ SendRequest(k) /\ ~crashed /\ msgs' = Append(msgs, a) /\ nextId' = nextId + 1
      /\ timers # << >> /\ timers' = Tail(timers)
      /\ UNCHANGED <<stored, saves, editing, modal, crashed, unsaved>>
  BY DEF RegenTimer
<1>2. /\ msgs \in Lists /\ Types /\ nextId \in Nat \ {0} /\ Len(net) + 1 \in 0 .. MaxReq
      /\ timers' \in Seq(TimerKinds) /\ unsaved' \in BOOLEAN
  <2>1. Len(net) + 1 \in 0 .. MaxReq
    BY <1>1, SendIs
  <2>2. timers' \in Seq(TimerKinds)
    BY <1>1 DEF Core, Types
  <2> QED
    BY <1>1, <2>1, <2>2 DEF Core, Types
<1>3. a \in MessageType /\ a.st = "loading" /\ a.req = Len(net) + 1 /\ a.text = {}
  <2> PICK r : r = Len(net) + 1
    OBVIOUS
  <2>1. nextId \in Nat /\ "loading" \in Stati /\ r \in 0 .. MaxReq
    BY <1>2 DEF Stati
  <2>2. a = Message(nextId, "assistant", "loading", r)
    OBVIOUS
  <2> QED
    BY <2>1, <2>2, MessageIs
<1>4. msgs' \in Lists /\ msgs' # << >> /\ Last(msgs') = a
  BY <1>1, <1>2, <1>3, AppendIs
<1>5. Good(msgs) => Good(msgs')
  BY <1>1, <1>2, <1>3, AppendGood
<1>7. Saved' /\ Saves
  <2>1. AnyGenerating'
    BY <1>3, <1>4, GeneratingLast DEF AnyGenerating, Generating
  <2> QED
    BY <1>1, <2>1 DEF Saved, Saves
<1>8. nextId' \in Nat \ {0}
  BY <1>1, <1>2
<1> QED
  BY <1>1, <1>2, <1>3, <1>4, <1>5, <1>7, <1>8, RequestStep

-----------------------------------------------------------------------------
(* Steps of the user that leave the requests alone.                        *)

\* With nothing being generated every message is finished or the user's.
LEMMA QuietSettled ==
  ASSUME NEW list \in Lists, Good(list), \A i \in DOMAIN list : ~Generating(list[i])
  PROVE  \A i \in DOMAIN list : Settled(list[i])
<1> SUFFICES ASSUME NEW i \in DOMAIN list PROVE Settled(list[i])
  OBVIOUS
<1>1. list[i] \in MessageType
  BY DEF Lists
<1> QED
  BY <1>1, MessageFields DEF Good, Generating, Finished, Settled, Stati

\* What is made from messages with texts of their own has texts of their own.
LEMMA FromGood ==
  ASSUME NEW old, NEW new, From(old, new), Good(old)
  PROVE  Good(new)
<1> SUFFICES ASSUME NEW i \in DOMAIN new, new[i].role # "user", new[i].req # 0
             PROVE  new[i].text \subseteq {0, new[i].req} /\ new[i].st # "none"
  BY DEF Good
<1>1. PICK j \in DOMAIN old :
        /\ new[i].st = old[j].st /\ new[i].req = old[j].req
        /\ (new[i].role = "user") <=> (old[j].role = "user")
        /\ new[i].text \subseteq old[j].text \union {0}
  BY DEF From
<1>2. old[j].text \subseteq {0, old[j].req} /\ old[j].st # "none"
  BY <1>1 DEF Good
<1> QED
  BY <1>1, <1>2

\* When nothing is being generated, no event adds to the last message of a list made of
\* these messages.
LEMMA FromSettled ==
  ASSUME NEW old, NEW new, From(old, new), \A j \in DOMAIN old : Settled(old[j])
  PROVE  \A i \in DOMAIN new : Settled(new[i])
<1> SUFFICES ASSUME NEW i \in DOMAIN new PROVE Settled(new[i])
  OBVIOUS
<1>1. PICK j \in DOMAIN old :
        /\ new[i].st = old[j].st /\ new[i].req = old[j].req
        /\ (new[i].role = "user") <=> (old[j].role = "user")
  BY DEF From
<1> QED
  BY <1>1 DEF Settled, Finished

\* In a regular history nothing is streamed while nothing is being generated.
LEMMA QuietLive ==
  ASSUME Types, Live, ~AnyGenerating, odd \subseteq {"hollow", "cut"}, NEW r \in DOMAIN net
  PROVE  ~Streaming(r)
BY GeneratingLast DEF Types, Live, LastGenerating, AnyGenerating

\* A list made from the one on the screen while nothing is being generated, or on record.
LEMMA QuietStep ==
  ASSUME Core, Types', Saves, "stale" \in odd' \/ (~AnyGenerating /\ From(msgs, msgs')),
         UNCHANGED <<stored, net, sseRef, crashed>>, odd \subseteq odd',
         modal' = modal \/ modal'.type # "edit"
  PROVE  OneRequest' /\ Live' /\ ThrowsOnlyWhenCleared' /\ Own'
<1>1. OneRequest'
  BY DEF Core, OneRequest, Streaming, Open
<1>2. ThrowsOnlyWhenCleared'
  BY DEF Core, ThrowsOnlyWhenCleared
<1>3. Live'
  <2> SUFFICES ASSUME odd' \subseteq {"hollow", "cut"}, NEW r \in DOMAIN net, Streaming(r) PROVE FALSE
    BY DEF Live, Streaming, Open
  <2>1. ~AnyGenerating
    OBVIOUS
  <2> QED
    BY <2>1, QuietLive DEF Core
<1>4. Own'
  <2> SUFFICES ASSUME odd' \intersect {"overlap", "stale"} = {}
               PROVE  /\ Good(msgs') /\ Good(stored') /\ \A i \in DOMAIN saves' : Good(saves'[i])
                      /\ modal'.type = "edit" => Good(modal'.list) /\ From(modal'.seen, modal'.list)
                      /\ \A q \in DOMAIN net' :
                           net'[q].open /\ msgs' # << >> => Settled(Last(msgs')) \/ Last(msgs').req = q
    BY DEF Own
  <2>0. msgs \in Lists /\ msgs' \in Lists
    BY DEF Core, Types
  <2>1. /\ Good(msgs) /\ Good(stored) /\ \A i \in DOMAIN saves : Good(saves[i])
        /\ modal.type = "edit" => Good(modal.list) /\ From(modal.seen, modal.list)
    BY DEF Core, Own
  <2>2. ~AnyGenerating /\ From(msgs, msgs')
    OBVIOUS
  <2>3. Good(msgs')
    BY <2>1, <2>2, FromGood
  <2>4. \A i \in DOMAIN saves' : Good(saves'[i])
    BY <2>0, <2>1, <2>3, SavesGood DEF Core
  <2>5. msgs' # << >> => Settled(Last(msgs'))
    BY <2>0, <2>1, <2>2, QuietSettled, FromSettled, LastIs DEF AnyGenerating
  <2> QED
    BY <2>1, <2>3, <2>4, <2>5
<1> QED
  BY <1>1, <1>2, <1>3, <1>4

\* Every list is made from itself.
LEMMA FromSame ==
  ASSUME NEW list
  PROVE  From(list, list)
BY DEF From

\* A part of a list is made from it.
LEMMA FromPart ==
  ASSUME NEW old \in Lists, NEW m \in Nat, NEW n \in Nat, m >= 1, n <= Len(old)
  PROVE  SubSeq(old, m, n) \in Lists /\ From(old, SubSeq(old, m, n))
<1> PICK new : new = SubSeq(old, m, n)
  OBVIOUS
<1>1. DOMAIN old = 1 .. Len(old) /\ Len(old) \in Nat /\ \A i \in 1 .. Len(old) : old[i] \in MessageType
  BY DEF Lists
<1>2. new \in Lists
  BY <1>1 DEF Lists
<1>3. ASSUME NEW i \in DOMAIN new PROVE \E j \in DOMAIN old : new[i] = old[j]
  <2>1. i \in Nat /\ i >= 1 /\ m + i - 1 \in DOMAIN old /\ new[i] = old[m + i - 1]
    BY <1>1
  <2> QED
    BY <2>1
<1> QED
  BY <1>2, <1>3 DEF From

\* Two parts of a list.
LEMMA FromConcat ==
  ASSUME NEW old, NEW a \in Lists, NEW b \in Lists, From(old, a), From(old, b)
  PROVE  a \o b \in Lists /\ From(old, a \o b)
<1> PICK new : new = a \o b
  OBVIOUS
<1>1. /\ Len(a) \in Nat /\ Len(b) \in Nat /\ DOMAIN a = 1 .. Len(a) /\ DOMAIN b = 1 .. Len(b)
      /\ new \in Lists /\ DOMAIN new = 1 .. Len(a) + Len(b)
  BY DEF Lists
<1>2. ASSUME NEW i \in DOMAIN new
      PROVE  (i \in DOMAIN a /\ new[i] = a[i]) \/ (i - Len(a) \in DOMAIN b /\ new[i] = b[i - Len(a)])
  BY <1>1 DEF Lists
<1> QED
  BY <1>1, <1>2 DEF From

\* A position that is searched for.
FirstWith(list, id) ==
  LET I == {i \in 1 .. Len(list) : list[i].id = id} IN IF I # {} THEN Min(I) ELSE 0

\* A message looked for by its id is found.
LEMMA Found ==
  ASSUME NEW list \in Lists, NEW id
  PROVE  /\ FirstWith(list, id) \in {0} \union DOMAIN list
         /\ (\E i \in DOMAIN list : list[i].id = id) => FirstWith(list, id) # 0
<1> DEFINE I == {i \in 1 .. Len(list) : list[i].id = id}
<1>1. DOMAIN list = 1 .. Len(list) /\ I \in SUBSET Nat
  BY DEF Lists
<1>2. FirstWith(list, id) = IF I # {} THEN Min(I) ELSE 0
  BY DEF FirstWith
<1>3. I # {} => Min(I) \in I
  BY <1>1, MinIs
<1> QED
  BY <1>1, <1>2, <1>3

\* The place of the message to delete.
LEMMA IndexIs ==
  ASSUME Types, NEW i, NEW m
  PROVE  IndexOf(i, m) \in {0} \union DOMAIN msgs
<1>1. IndexOf(i, m) = IF i \in DOMAIN msgs /\ msgs[i] = m THEN i ELSE FirstWith(msgs, m.id)
  BY DEF IndexOf, SelectInSeq, FirstWith
<1>2. FirstWith(msgs, m.id) \in {0} \union DOMAIN msgs
  BY Found DEF Types
<1> QED
  BY <1>1, <1>2

\* A retry goes back to before a message of the user, if there is one.
LEMMA ResetIs ==
  ASSUME Types, NEW i \in DOMAIN msgs, Reset(i)
  PROVE  \E u \in 0 .. Len(msgs) :
           \/ u = 0 /\ UNCHANGED <<msgs, timers>>
           \/ u # 0 /\ msgs' = SubSeq(msgs, 1, u - 1) /\ timers' = Append(timers, "send")
<1> DEFINE U == {j \in 1 .. i : msgs[j].role = "user"}
           u == SelectLastInSubSeq(msgs, 1, i, LAMBDA m : m.role = "user")
<1>0. DOMAIN msgs = 1 .. Len(msgs) /\ Len(msgs) \in Nat
  BY DEF Types, Lists
<1>1. u = IF U # {} THEN Max(U) ELSE 0
  BY DEF SelectLastInSubSeq
<1>2. U \in SUBSET Nat /\ i \in Nat /\ \A x \in U : x <= i
  BY <1>0
<1>3. U # {} => Max(U) \in U
  BY <1>2, MaxIs
<1>4. \/ u = 0 /\ UNCHANGED <<msgs, timers>>
      \/ u # 0 /\ msgs' = SubSeq(msgs, 1, u - 1) /\ timers' = Append(timers, "send")
  BY DEF Reset
<1> HIDE DEF u
<1>5. u \in 0 .. Len(msgs)
  BY <1>0, <1>1, <1>3
<1> QED
  BY <1>4, <1>5

\* Back to the message of the user.
LEMMA ResetStep ==
  ASSUME Core, NEW i \in DOMAIN msgs, Reset(i)
  PROVE  Core'
<1>0. msgs \in Lists /\ DOMAIN msgs = 1 .. Len(msgs) /\ Len(msgs) \in Nat /\ Types
  BY DEF Core, Types, Lists
<1>1. PICK u \in 0 .. Len(msgs) :
        \/ u = 0 /\ UNCHANGED <<msgs, timers>>
        \/ u # 0 /\ msgs' = SubSeq(msgs, 1, u - 1) /\ timers' = Append(timers, "send")
  BY <1>0, ResetIs
<1>2. /\ ~AnyGenerating
      /\ UNCHANGED <<stored, saves, net, sseRef, nextId, editing, modal, crashed, unsaved, odd>>
  BY DEF Reset, Button
<1>3. CASE u = 0
  <2>1. UNCHANGED <<msgs, timers>>
    BY <1>1, <1>3
  <2>2. Types' /\ Saves
    BY <1>2, <2>1 DEF Core, Types, Saves
  <2>3. Saved'
    BY <1>2, <2>1, SavedSame DEF Core
  <2> QED
    BY <1>2, <2>1, <2>2, <2>3, FromSame, QuietStep DEF Core
<1>4. CASE u # 0
  <2> PICK n : n = u - 1
    OBVIOUS
  <2>1. msgs' = SubSeq(msgs, 1, n) /\ timers' = Append(timers, "send")
    BY <1>1, <1>4
  <2>2. n \in Nat /\ n <= Len(msgs) /\ 1 \in Nat
    BY <1>0, <1>1, <1>4
  <2>3. msgs' \in Lists /\ From(msgs, msgs')
    BY <1>0, <2>1, <2>2, FromPart
  <2>4. timers' \in Seq(TimerKinds) /\ timers' # << >>
    <3>1. timers \in Seq(TimerKinds)
      BY <1>0 DEF Types
    <3>2. "send" \in TimerKinds
      BY DEF TimerKinds
    <3> QED
      BY <2>1, <3>1, <3>2
  <2>5. Types' /\ Saves
    BY <1>2, <2>3, <2>4 DEF Core, Types, Saves
  <2>6. Saved'
    BY <2>4 DEF Saved
  <2> QED
    BY <1>2, <2>3, <2>5, <2>6, QuietStep DEF Core
<1> QED
  BY <1>3, <1>4

\* Another role for an answer.
LEMMA RoleToggleStep ==
  ASSUME Core, NEW i \in DOMAIN msgs, RoleToggle(i)
  PROVE  Core'
<1>0. msgs \in Lists /\ DOMAIN msgs = 1 .. Len(msgs) /\ Len(msgs) \in Nat /\ Types
  BY DEF Core, Types, Lists
<1> PICK role : role = Toggled(msgs[i].role)
  OBVIOUS
<1>1. role \in {"assistant", "system"}
  <2>1. msgs[i] \in MessageType /\ msgs[i].role # "user"
    BY <1>0 DEF RoleToggle, Lists
  <2>2. msgs[i].role \in {"assistant", "system"}
    BY <2>1, MessageFields
  <2> QED
    BY <2>2 DEF Toggled
<1>2. /\ ~AnyGenerating /\ saves' = Append(saves, msgs') /\ unsaved' = FALSE
      /\ UNCHANGED <<stored, net, sseRef, timers, nextId, editing, modal, crashed, odd>>
  BY DEF RoleToggle, Button, Save, ui
<1> DEFINE new(j) == IF msgs[j].id = msgs[i].id /\ msgs[j].role # "user"
                     THEN [msgs[j] EXCEPT !.role = role] ELSE msgs[j]
<1>3. msgs' = [j \in DOMAIN msgs |-> new(j)]
  BY DEF RoleToggle
<1>4. ASSUME NEW j \in DOMAIN msgs
      PROVE  /\ new(j) \in MessageType /\ new(j).st = msgs[j].st /\ new(j).req = msgs[j].req
             /\ (new(j).role = "user") <=> (msgs[j].role = "user")
             /\ new(j).text = msgs[j].text
  <2>1. msgs[j] \in MessageType
    BY <1>0 DEF Lists
  <2> QED
    BY <1>1, <2>1 DEF MessageType
<1> HIDE DEF new
<1>5. msgs' \in Lists /\ DOMAIN msgs' = DOMAIN msgs /\ \A j \in DOMAIN msgs : msgs'[j] = new(j)
  BY <1>0, <1>3, <1>4 DEF Lists
<1>6. From(msgs, msgs')
  BY <1>4, <1>5 DEF From
<1>7. Saves /\ Saved' /\ Types'
  <2>1. Saves /\ Saved'
    BY <1>0, <1>2, <1>5, SavedNew DEF Saves
  <2>2. saves' \in Seq(Lists)
    BY <1>0, <1>5, <2>1, SavesType
  <2> QED
    BY <1>2, <1>5, <2>1, <2>2 DEF Core, Types
<1> QED
  BY <1>2, <1>6, <1>7, QuietStep DEF Core

\* A step that leaves the list, its copies and the requests alone.
LEMMA SameStep ==
  ASSUME Core, UNCHANGED <<msgs, stored, saves, timers, net, sseRef, nextId, crashed, unsaved, odd>>,
         editing' \in [index : Nat, id : Nat], modal' \in {modal, NoModal} \union DeleteModal
  PROVE  Core'
<1>1. modal' = modal \/ modal'.type # "edit"
  BY DEF NoModal, DeleteModal
<1>2. Types'
  BY DEF Core, Types
<1>3. Saved'
  BY SavedSame DEF Core
<1>4. OneRequest' /\ Live' /\ ThrowsOnlyWhenCleared'
  BY DEF Core, OneRequest, Live, ThrowsOnlyWhenCleared, Streaming, Open, LastGenerating
<1>5. Own'
  BY <1>1 DEF Core, Own
<1> QED
  BY <1>2, <1>3, <1>4, <1>5 DEF Core

\* What only opens or closes a dialog or the edit box.
LEMMA DialogStep ==
  ASSUME Core, (\E i \in DOMAIN msgs : Delete(i) \/ Edit(i)) \/ EditCancel \/ DeleteCancel
  PROVE  Core'
<1>0. /\ editing \in [index : Nat, id : Nat] /\ NotEditing \in [index : Nat, id : Nat]
      /\ msgs \in Lists /\ DOMAIN msgs = 1 .. Len(msgs)
  BY DEF Core, Types, NotEditing, Lists
<1>1. ASSUME NEW i \in DOMAIN msgs, Delete(i) PROVE Core'
  <2>1. i \in Nat /\ msgs[i] \in MessageType
    BY <1>0 DEF Lists
  <2>2. modal' \in DeleteModal
    BY <1>1, <2>1 DEF Delete, DeleteModal
  <2> QED
    BY <1>0, <1>1, <2>2, SameStep DEF Delete
<1>2. ASSUME NEW i \in DOMAIN msgs, Edit(i) PROVE Core'
  <2>1. i \in Nat /\ msgs[i].id \in Nat
    BY <1>0, MessageFields DEF Lists
  <2>2. editing' \in [index : Nat, id : Nat]
    BY <1>2, <2>1 DEF Edit
  <2> QED
    BY <1>2, <2>2, SameStep DEF Edit
<1>3. CASE EditCancel
  BY <1>0, <1>3, SameStep DEF EditCancel
<1>4. CASE DeleteCancel
  BY <1>0, <1>4, SameStep DEF DeleteCancel
<1> QED
  BY <1>1, <1>2, <1>3, <1>4

\* What is left after a deletion are messages of the list.
LEMMA WithoutFrom ==
  ASSUME Types, NEW i \in DOMAIN msgs, NEW m
  PROVE  Without(i, m) \in Lists /\ From(msgs, Without(i, m))
<1>0. msgs \in Lists /\ DOMAIN msgs = 1 .. Len(msgs) /\ Len(msgs) \in Nat
  BY DEF Types, Lists
<1> DEFINE pair == m.role = "user" /\ i < Len(msgs) /\ msgs[i + 1].role = "assistant"
<1>1. CASE pair
  <2> PICK n, k, e : n = i - 1 /\ k = i + 2 /\ e = Len(msgs)
    OBVIOUS
  <2>1. n \in Nat /\ n <= Len(msgs) /\ k \in Nat /\ k >= 1 /\ e \in Nat /\ e <= Len(msgs) /\ 1 \in Nat
    BY <1>0
  <2>2. Without(i, m) = SubSeq(msgs, 1, n) \o SubSeq(msgs, k, e)
    BY <1>1 DEF Without
  <2>3. SubSeq(msgs, 1, n) \in Lists /\ From(msgs, SubSeq(msgs, 1, n))
    BY <1>0, <2>1, FromPart
  <2>4. SubSeq(msgs, k, e) \in Lists /\ From(msgs, SubSeq(msgs, k, e))
    BY <1>0, <2>1, FromPart
  <2> QED
    BY <2>2, <2>3, <2>4, FromConcat
<1>2. CASE ~pair
  <2>1. Without(i, m) = WithoutId(msgs, m.id)
    BY <1>2 DEF Without
  <2> QED
    BY <1>0, <2>1, WithoutIdParts DEF From
<1> QED
  BY <1>1, <1>2

\* A deletion, confirmed.
LEMMA DeleteOkStep ==
  ASSUME Core, DeleteOk
  PROVE  Core'
<1>0. msgs \in Lists /\ DOMAIN msgs = 1 .. Len(msgs) /\ Types
  BY DEF Core, Types, Lists
<1> PICK i, m : m = modal.target /\ i = IndexOf(modal.index, m)
  OBVIOUS
<1>1. i \in {0} \union DOMAIN msgs
  BY <1>0, IndexIs
<1>2. /\ \/ i = 0 /\ UNCHANGED <<msgs, saves, unsaved>>
         \/ /\ i \in DOMAIN msgs /\ msgs' = Without(i, m)
            /\ saves' = Append(saves, msgs') /\ unsaved' = FALSE
      /\ odd' = IF AnyGenerating THEN odd \union {"stale"} ELSE odd
      /\ modal' = NoModal
      /\ UNCHANGED <<stored, net, sseRef, timers, nextId, editing, crashed>>
  BY <1>1 DEF DeleteOk, Save
<1>3. /\ msgs' \in Lists /\ From(msgs, msgs') /\ Saves /\ Saved' /\ unsaved' \in BOOLEAN
  <2>1. CASE i = 0 /\ UNCHANGED <<msgs, saves, unsaved>>
    BY <1>0, <1>2, <2>1, FromSame, SavedSame DEF Saves, Types, Core
  <2>2. CASE /\ i \in DOMAIN msgs /\ msgs' = Without(i, m)
             /\ saves' = Append(saves, msgs') /\ unsaved' = FALSE
    BY <1>0, <2>2, WithoutFrom, SavedNew DEF Saves
  <2> QED
    BY <1>2, <2>1, <2>2
<1>4. odd \subseteq odd' /\ odd' \subseteq Oddities /\ ("stale" \in odd' \/ ~AnyGenerating)
  BY <1>0, <1>2 DEF Types, Oddities
<1>5. saves' \in Seq(Lists)
  BY <1>0, <1>3, SavesType
<1>6. Types'
  BY <1>0, <1>2, <1>3, <1>4, <1>5 DEF Types
<1>7. modal'.type # "edit"
  BY <1>2 DEF NoModal
<1> QED
  BY <1>2, <1>3, <1>4, <1>6, <1>7, QuietStep DEF Core

\* A dialog that writes its list while nothing has changed since, or on record.
LEMMA OverwriteStep ==
  ASSUME Core, ~crashed, modal.type = "edit", NEW list \in Lists, Overwrite(list),
         From(modal.list, list), timers' \in Seq(TimerKinds)
  PROVE  Core'
<1>0. Types
  BY DEF Core
<1>1. /\ msgs' = list /\ saves' = Append(saves, msgs') /\ unsaved' = FALSE
      /\ odd' = IF modal.seen # msgs \/ AnyGenerating THEN odd \union {"stale"} ELSE odd
      /\ modal' = NoModal
      /\ UNCHANGED <<stored, net, sseRef, nextId, editing, crashed>>
  BY DEF Overwrite, Save
<1>2. Saves /\ Saved' /\ saves' \in Seq(Lists)
  BY <1>0, <1>1, SavedNew, SavesType DEF Saves
<1>3. odd \subseteq odd' /\ odd' \subseteq Oddities /\ modal'.type # "edit"
  BY <1>0, <1>1 DEF Types, Oddities, NoModal
<1>4. Types'
  BY <1>0, <1>1, <1>2, <1>3 DEF Types
<1>5. OneRequest' /\ ThrowsOnlyWhenCleared'
  BY <1>1, <1>3 DEF Core, OneRequest, ThrowsOnlyWhenCleared, Streaming, Open
<1>6. Live'
  <2> SUFFICES ASSUME odd' \subseteq {"hollow", "cut"}, NEW r \in DOMAIN net, Streaming(r) PROVE FALSE
    BY <1>1 DEF Live, Streaming, Open
  <2>1. ~AnyGenerating /\ odd \subseteq {"hollow", "cut"}
    BY <1>1
  <2> QED
    BY <2>1, QuietLive DEF Core
<1>7. Own'
  <2> SUFFICES ASSUME odd' \intersect {"overlap", "stale"} = {}
               PROVE  /\ Good(msgs') /\ Good(stored') /\ \A i \in DOMAIN saves' : Good(saves'[i])
                      /\ msgs' # << >> => Settled(Last(msgs'))
    BY <1>3 DEF Own
  <2>1. modal.seen = msgs /\ ~AnyGenerating
    BY <1>1
  <2>2. /\ Good(msgs) /\ Good(stored) /\ \A i \in DOMAIN saves : Good(saves[i])
        /\ Good(modal.list) /\ From(modal.seen, modal.list)
    BY <1>1 DEF Core, Own
  <2>3. Good(msgs')
    BY <1>1, <2>2, FromGood
  <2>4. \A i \in DOMAIN saves' : Good(saves'[i])
    BY <1>0, <1>1, <1>2, <2>2, <2>3, SavesGood
  <2>5. \A j \in DOMAIN msgs : Settled(msgs[j])
    BY <1>0, <2>1, <2>2, QuietSettled DEF Types, AnyGenerating
  <2>6. \A j \in DOMAIN list : Settled(list[j])
    <3>1. \A j \in DOMAIN modal.list : Settled(modal.list[j])
      BY <2>1, <2>2, <2>5, FromSettled
    <3> QED
      BY <3>1, FromSettled
  <2>7. msgs' # << >> => Settled(Last(msgs'))
    BY <1>1, <2>6, LastIs
  <2> QED
    BY <1>1, <2>2, <2>3, <2>4, <2>7
<1> QED
  BY <1>2, <1>4, <1>5, <1>6, <1>7 DEF Core

\* The two answers to the dialog of an edited message.
LEMMA EditDialogStep ==
  ASSUME Core, EditRegenerate \/ EditKeep
  PROVE  Core'
<1>0. /\ modal.type = "edit" /\ ~crashed /\ timers \in Seq(TimerKinds)
  BY DEF EditRegenerate, EditKeep, Core, Types
<1>1. modal.list \in Lists /\ modal.index \in Nat /\ modal.index <= Len(modal.list)
  BY <1>0 DEF Core, Types, NoModal, DeleteModal, EditModal
<1>2. CASE EditKeep
  BY <1>0, <1>1, <1>2, FromSame, OverwriteStep DEF EditKeep
<1>3. CASE EditRegenerate
  <2> PICK list, n, part : list = modal.list /\ n = modal.index /\ part = SubSeq(list, 1, n)
    OBVIOUS
  <2>1. part \in Lists /\ From(list, part)
    <3>1. list \in Lists /\ n \in Nat /\ n <= Len(list) /\ 1 \in Nat
      BY <1>1
    <3> QED
      BY <3>1, FromPart
  <2>2. Overwrite(part) /\ timers' = Append(timers, "regen")
    BY <1>3 DEF EditRegenerate
  <2>3. timers' \in Seq(TimerKinds)
    <3>1. "regen" \in TimerKinds
      BY DEF TimerKinds
    <3> QED
      BY <1>0, <2>2, <3>1
  <2> QED
    BY <1>0, <2>1, <2>2, <2>3, OverwriteStep
<1> QED
  BY <1>2, <1>3

-----------------------------------------------------------------------------
(* Saving an edit, stopping, clearing and loading the page.                *)

\* The edited list: the message keeps its place, status, role and request.
Edited(list, id) ==
  [j \in DOMAIN list |-> IF list[j].id = id THEN [list[j] EXCEPT !.text = {0}] ELSE list[j]]

\* The list with the text the user typed.
LEMMA EditedIs ==
  ASSUME NEW list \in Lists, NEW id
  PROVE  LET new == Edited(list, id)
         IN  /\ new \in Lists /\ DOMAIN new = DOMAIN list /\ Len(new) = Len(list)
             /\ \A j \in DOMAIN list : /\ new[j].st = list[j].st /\ new[j].req = list[j].req
                                      /\ new[j].role = list[j].role
                                      /\ new[j].text \subseteq list[j].text \union {0}
<1> DEFINE val(j) == IF list[j].id = id THEN [list[j] EXCEPT !.text = {0}] ELSE list[j]
<1>0. DOMAIN list = 1 .. Len(list) /\ Len(list) \in Nat /\ MaxReq \in Nat
  BY PlaygroundAssumption DEF Lists
<1>1. ASSUME NEW j \in DOMAIN list
      PROVE  /\ val(j) \in MessageType /\ val(j).st = list[j].st /\ val(j).req = list[j].req
             /\ val(j).role = list[j].role /\ val(j).text \subseteq list[j].text \union {0}
  <2>1. list[j] \in MessageType
    BY <1>0 DEF Lists
  <2> QED
    BY <1>0, <2>1 DEF MessageType
<1>2. Edited(list, id) = [j \in DOMAIN list |-> val(j)]
  BY DEF Edited
<1> HIDE DEF val
<1>3. /\ Edited(list, id) \in Lists /\ DOMAIN Edited(list, id) = DOMAIN list
      /\ Len(Edited(list, id)) = Len(list)
      /\ \A j \in DOMAIN list : Edited(list, id)[j] = val(j)
  BY <1>0, <1>1, <1>2 DEF Lists
<1> QED
  BY <1>1, <1>3

\* Saving an edit writes the edited list, or raises the dialog that will.
LEMMA EditSaveIs ==
  ASSUME Types, EditSave
  PROVE  \E i \in DOMAIN msgs :
           LET list == Edited(msgs, editing.id)
           IN  \/ /\ modal' = [type |-> "edit", index |-> i, seen |-> msgs, list |-> list]
                  /\ UNCHANGED <<msgs, saves, unsaved>>
               \/ msgs' = list /\ saves' = Append(saves, list) /\ unsaved' = FALSE /\ UNCHANGED modal
<1> DEFINE i == IF editing.index \in DOMAIN msgs /\ msgs[editing.index].id = editing.id
                THEN editing.index ELSE FirstWith(msgs, editing.id)
           list == Edited(msgs, editing.id)
<1>1. i \in DOMAIN msgs
  <2>1. \E j \in DOMAIN msgs : msgs[j].id = editing.id
    BY DEF EditSave
  <2>2. FirstWith(msgs, editing.id) \in DOMAIN msgs
    BY <2>1, Found DEF Types
  <2> QED
    BY <2>2
<1>2. \/ /\ modal' = [type |-> "edit", index |-> i, seen |-> msgs, list |-> list]
         /\ UNCHANGED <<msgs, saves, unsaved>>
      \/ msgs' = list /\ saves' = Append(saves, list) /\ unsaved' = FALSE /\ UNCHANGED modal
  BY DEF EditSave, SelectInSeq, FirstWith, Edited, Save
<1> HIDE DEF i, list
<1> QED
  BY <1>1, <1>2 DEF list

\* An edit, saved at once or after the dialog.
LEMMA EditSaveStep ==
  ASSUME Core, EditSave
  PROVE  Core'
<1> PICK list : list = Edited(msgs, editing.id)
  OBVIOUS
<1>0. Types /\ msgs \in Lists /\ DOMAIN msgs = 1 .. Len(msgs) /\ Len(msgs) \in Nat
  BY DEF Core, Types, Lists
<1>1. PICK i \in DOMAIN msgs :
        \/ /\ modal' = [type |-> "edit", index |-> i, seen |-> msgs, list |-> list]
           /\ UNCHANGED <<msgs, saves, unsaved>>
        \/ msgs' = list /\ saves' = Append(saves, list) /\ unsaved' = FALSE /\ UNCHANGED modal
  BY <1>0, EditSaveIs
<1>2. /\ list \in Lists /\ DOMAIN list = DOMAIN msgs /\ Len(list) = Len(msgs)
      /\ \A j \in DOMAIN msgs : /\ list[j].st = msgs[j].st /\ list[j].req = msgs[j].req
                               /\ list[j].role = msgs[j].role
                               /\ list[j].text \subseteq msgs[j].text \union {0}
  BY <1>0, EditedIs
<1>3. From(msgs, list)
  BY <1>2 DEF From
<1>4. editing' \in [index : Nat, id : Nat]
      /\ UNCHANGED <<stored, net, sseRef, timers, nextId, crashed, odd>>
  BY DEF EditSave, NotEditing
<1>5. CASE /\ modal' = [type |-> "edit", index |-> i, seen |-> msgs, list |-> list]
           /\ UNCHANGED <<msgs, saves, unsaved>>
  <2>1. /\ modal' \in EditModal /\ modal'.index <= Len(modal'.list)
        /\ modal'.seen = msgs /\ modal'.list = list
    BY <1>0, <1>2, <1>5 DEF EditModal
  <2>2. Types'
    BY <1>0, <1>4, <1>5, <2>1 DEF Types
  <2>3. Saved'
    BY <1>4, <1>5, SavedSame DEF Core
  <2>4. OneRequest' /\ Live' /\ ThrowsOnlyWhenCleared'
    BY <1>4, <1>5 DEF Core, OneRequest, Live, ThrowsOnlyWhenCleared, Streaming, Open, LastGenerating
  <2>5. Own'
    BY <1>3, <1>4, <1>5, <2>1, FromGood DEF Core, Own
  <2> QED
    BY <2>2, <2>3, <2>4, <2>5 DEF Core
<1>6. CASE msgs' = list /\ saves' = Append(saves, list) /\ unsaved' = FALSE /\ UNCHANGED modal
  <2>1. Saves /\ Saved' /\ saves' \in Seq(Lists)
    BY <1>0, <1>2, <1>6, SavedNew, SavesType DEF Saves
  <2>2. Types'
    BY <1>0, <1>2, <1>4, <1>6, <2>1 DEF Types
  <2>3. msgs' # << >> =>
          /\ msgs # << >> /\ Last(msgs').st = Last(msgs).st /\ Last(msgs').req = Last(msgs).req
          /\ Last(msgs').role = Last(msgs).role
    BY <1>0, <1>2, <1>6, LastIs
  <2>4. msgs # << >> => msgs' # << >>
    BY <1>0, <1>2, <1>6
  <2>5. OneRequest' /\ ThrowsOnlyWhenCleared'
    BY <1>4 DEF Core, OneRequest, ThrowsOnlyWhenCleared, Streaming, Open
  <2>6. Live'
    BY <1>4, <2>3, <2>4 DEF Core, Live, Streaming, Open, LastGenerating, Generating
  <2>7. Own'
    <3> SUFFICES ASSUME odd' \intersect {"overlap", "stale"} = {}
                 PROVE  /\ Good(msgs') /\ Good(stored') /\ \A j \in DOMAIN saves' : Good(saves'[j])
                        /\ modal'.type = "edit" => Good(modal'.list) /\ From(modal'.seen, modal'.list)
                        /\ \A q \in DOMAIN net' :
                             net'[q].open /\ msgs' # << >> => Settled(Last(msgs')) \/ Last(msgs').req = q
      BY DEF Own
    <3>1. /\ Good(msgs) /\ Good(stored) /\ \A j \in DOMAIN saves : Good(saves[j])
          /\ modal.type = "edit" => Good(modal.list) /\ From(modal.seen, modal.list)
          /\ \A q \in DOMAIN net :
               net[q].open /\ msgs # << >> => Settled(Last(msgs)) \/ Last(msgs).req = q
      BY <1>4 DEF Core, Own
    <3>2. Good(msgs')
      BY <1>3, <1>6, <3>1, FromGood
    <3>3. \A j \in DOMAIN saves' : Good(saves'[j])
      BY <1>0, <1>2, <1>6, <2>1, <3>1, <3>2, SavesGood
    <3>4. \A q \in DOMAIN net' :
            net'[q].open /\ msgs' # << >> => Settled(Last(msgs')) \/ Last(msgs').req = q
      BY <1>4, <2>3, <3>1 DEF Settled, Finished
    <3> QED
      BY <1>4, <1>6, <3>1, <3>2, <3>3, <3>4
  <2> QED
    BY <2>1, <2>2, <2>5, <2>6, <2>7 DEF Core
<1> QED
  BY <1>1, <1>5, <1>6

\* Stopping closes the only stream and finishes the last message.
LEMMA StopStep ==
  ASSUME Core, Stop
  PROVE  Core'
<1> PICK l : l = Last(msgs)
  OBVIOUS
<1>0. Types /\ msgs \in Lists /\ msgs # << >> /\ ~Finished(l) /\ odd \subseteq Oddities
  BY DEF Stop, LastGenerating, Generating, Finished, Core, Types
<1>1. /\ (IF sseRef # 0 THEN Close(sseRef) ELSE UNCHANGED net) /\ sseRef' = 0
      /\ saves' = Append(saves, msgs') /\ unsaved' = FALSE
      /\ UNCHANGED <<stored, timers, nextId, editing, modal, crashed, odd>>
  BY DEF Stop, Save, ui
<1>2. l \in MessageType /\ "complete" \in Stati /\ l.req \in 0 .. MaxReq
  BY <1>0, LastIs, MessageFields DEF Stati
<1> DEFINE m == [l EXCEPT !.st = "complete"]
<1>3. m \in MessageType /\ m.st = "complete" /\ m.text = l.text /\ m.role = l.role /\ m.req = l.req
  BY <1>2, SetStatus
<1>4. msgs' = SetLast(msgs, m)
  BY DEF Stop
<1> HIDE DEF m
<1>5. Written(msgs, msgs', l.req) /\ msgs' \in Lists /\ Last(msgs') = m
  BY <1>0, <1>3, <1>4, SetLastIs DEF Written
<1>6. Saves /\ Saved' /\ saves' \in Seq(Lists)
  BY <1>0, <1>1, <1>5, SavedNew, SavesType DEF Saves
<1>7. Fewer
  <2>1. CASE sseRef # 0
    BY <1>0, <1>1, <2>1, CloseIs DEF Types
  <2>2. CASE sseRef = 0
    BY <1>0, <1>1, <2>2 DEF Types, Fewer
  <2> QED
    BY <2>1, <2>2
<1>8. Types'
  BY <1>0, <1>1, <1>5, <1>6, <1>7 DEF Types, Fewer
<1>9. "overlap" \notin odd => \A q \in DOMAIN net' : ~Streaming(q)'
  <2> SUFFICES ASSUME "overlap" \notin odd, NEW q \in DOMAIN net, Streaming(q)' PROVE FALSE
    BY <1>7 DEF Fewer
  <2>1. Streaming(q) /\ net'[q].open
    BY <1>7 DEF Streaming, Open, Fewer
  <2>2. sseRef = q /\ q # 0
    BY <1>0, <2>1 DEF Core, OneRequest, Types
  <2>3. ~net'[q].open
    BY <1>0, <1>1, <2>2, CloseIs
  <2> QED
    BY <2>1, <2>3
<1>10. OneRequest'
  BY <1>1, <1>7, <1>9 DEF Core, OneRequest, Fewer
<1>11. Live'
  BY <1>1, <1>9 DEF Live
<1>12. ThrowsOnlyWhenCleared'
  BY <1>1 DEF Core, ThrowsOnlyWhenCleared
<1>13. Own'
  <2> SUFFICES ASSUME odd' \intersect {"overlap", "stale"} = {}
               PROVE  /\ Good(msgs') /\ Good(stored') /\ \A j \in DOMAIN saves' : Good(saves'[j])
                      /\ modal'.type = "edit" => Good(modal'.list) /\ From(modal'.seen, modal'.list)
                      /\ Settled(Last(msgs'))
    BY DEF Own
  <2>1. /\ Good(msgs) /\ Good(stored) /\ \A j \in DOMAIN saves : Good(saves[j])
        /\ modal.type = "edit" => Good(modal.list) /\ From(modal.seen, modal.list)
    BY <1>1 DEF Core, Own
  <2>2. Good(msgs')
    BY <1>0, <1>5, <2>1, WrittenGood
  <2>3. \A j \in DOMAIN saves' : Good(saves'[j])
    BY <1>0, <1>5, <1>6, <2>1, <2>2, SavesGood
  <2> QED
    BY <1>1, <1>3, <1>5, <2>1, <2>2, <2>3 DEF Settled, Finished
<1> QED
  BY <1>6, <1>8, <1>10, <1>11, <1>12, <1>13 DEF Core

\* A snapshot is stored, or refused.
LEMMA SaveTimerStep ==
  ASSUME Core, SaveTimer
  PROVE  Core'
<1>1. /\ saves # << >> /\ saves' = Tail(saves)
      /\ UNCHANGED <<msgs, net, sseRef, timers, nextId, editing, modal, crashed, odd>>
      /\ \/ stored' = Head(saves) /\ unsaved' = unsaved
         \/ stored' = stored /\ unsaved' = (unsaved \/ saves' = << >>)
  BY DEF SaveTimer, ui
<1>2. Types /\ saves \in Seq(Lists) /\ Len(saves) \in Nat /\ DOMAIN saves = 1 .. Len(saves)
  BY DEF Core, Types
<1>3. /\ Len(saves) >= 1 /\ stored' \in {saves[1], stored} /\ stored' \in Lists
      /\ saves' \in Seq(Lists)
      /\ Len(saves') = Len(saves) - 1 /\ DOMAIN saves' = 1 .. Len(saves) - 1
      /\ \A i \in DOMAIN saves' : i + 1 \in DOMAIN saves /\ saves'[i] = saves[i + 1]
  BY <1>1, <1>2 DEF Types
<1>4. Types'
  <2>1. unsaved' \in BOOLEAN
    BY <1>1, <1>2 DEF Types
  <2> QED
    BY <1>1, <1>2, <1>3, <2>1 DEF Types
<1>5. LastSaved' = LastSaved \/ unsaved' = TRUE
  <2>1. CASE Len(saves) = 1
    <3>1. saves' = << >> /\ LastSaved = saves[1] /\ LastSaved' = stored'
      BY <1>1, <1>2, <1>3, <2>1 DEF LastSaved
    <3>2. CASE stored' = Head(saves) /\ unsaved' = unsaved
      BY <1>1, <1>2, <3>1, <3>2
    <3>3. CASE unsaved' = (unsaved \/ saves' = << >>)
      BY <3>1, <3>3
    <3> QED
      BY <1>1, <3>2, <3>3
  <2>2. CASE Len(saves) # 1
    <3>1. saves' # << >> /\ Len(saves) - 1 \in DOMAIN saves' /\ Len(saves) - 1 + 1 = Len(saves)
      BY <1>2, <1>3, <2>2
    <3> QED
      BY <1>1, <1>3, <3>1 DEF LastSaved
  <2> QED
    BY <2>1, <2>2
<1>6. Saved'
  <2>1. unsaved => unsaved'
    BY <1>1
  <2> QED
    BY <1>1, <1>5, <2>1 DEF Core, Saved, AnyGenerating
<1>7. OneRequest' /\ Live' /\ ThrowsOnlyWhenCleared'
  BY <1>1 DEF Core, OneRequest, Live, ThrowsOnlyWhenCleared, Streaming, Open, LastGenerating
<1>8. Own'
  <2> SUFFICES ASSUME odd \intersect {"overlap", "stale"} = {}
               PROVE  Good(stored') /\ \A i \in DOMAIN saves' : Good(saves'[i])
    BY <1>1 DEF Core, Own
  <2>1. Good(stored) /\ \A i \in DOMAIN saves : Good(saves[i])
    BY DEF Core, Own
  <2>2. 1 \in DOMAIN saves
    BY <1>2, <1>3
  <2> QED
    BY <1>3, <2>1, <2>2
<1> QED
  BY <1>4, <1>6, <1>7, <1>8 DEF Core

-----------------------------------------------------------------------------
(* The list is cleared or replaced.                                        *)

\* The default messages: neither claims text of a request.
LEMMA DefaultIs ==
  /\ DefaultMessages \in Lists /\ DefaultMessages # << >>
  /\ Good(DefaultMessages) /\ Settled(Last(DefaultMessages))
<1> DEFINE u == Message(2, "user", "none", 0)
           a == [Message(3, "assistant", "none", 0) EXCEPT !.text = {0}]
<1>1. 0 \in 0 .. MaxReq
  BY PlaygroundAssumption
<1>2. u \in MessageType /\ u.req = 0
  BY <1>1 DEF Message, MessageType
<1>3. a \in MessageType /\ a.req = 0
  BY <1>1 DEF Message, MessageType
<1>4. DefaultMessages = << u, a >>
  BY DEF DefaultMessages
<1> HIDE DEF u, a
<1>5. DefaultMessages \in Lists /\ DefaultMessages # << >>
  BY <1>2, <1>3, <1>4 DEF Lists
<1>6. \A i \in DOMAIN DefaultMessages : DefaultMessages[i].req = 0
  BY <1>2, <1>3, <1>4
<1> QED
  BY <1>5, <1>6, LastIs DEF Good, Settled

\* The list gives way to one that takes no text; a request under way is on record.
LEMMA TakenStep ==
  ASSUME Core, Types', TakenAway, Saves, Good(msgs'), msgs' # << >> => Settled(Last(msgs')),
         stored' = stored \/ Good(stored'), UNCHANGED <<net, sseRef, crashed, modal>>
  PROVE  OneRequest' /\ Live' /\ ThrowsOnlyWhenCleared' /\ Own'
<1>1. odd \subseteq odd' /\ Types /\ msgs' \in Lists
  BY DEF TakenAway, Core, Types
<1>2. OneRequest' /\ ThrowsOnlyWhenCleared'
  BY <1>1 DEF Core, OneRequest, ThrowsOnlyWhenCleared, Streaming, Open
<1>3. Live'
  BY DEF TakenAway, Live, Streaming, Open
<1>4. Own'
  <2> SUFFICES ASSUME odd' \intersect {"overlap", "stale"} = {}
               PROVE  /\ Good(stored') /\ \A j \in DOMAIN saves' : Good(saves'[j])
                      /\ modal'.type = "edit" => Good(modal'.list) /\ From(modal'.seen, modal'.list)
    BY DEF Own
  <2>1. /\ Good(stored) /\ \A j \in DOMAIN saves : Good(saves[j])
        /\ modal.type = "edit" => Good(modal.list) /\ From(modal.seen, modal.list)
    BY <1>1 DEF Core, Own
  <2>2. \A j \in DOMAIN saves' : Good(saves'[j])
    BY <1>1, <2>1, SavesGood
  <2> QED
    BY <2>1, <2>2
<1> QED
  BY <1>2, <1>3, <1>4

\* The list is cleared.
LEMMA ClearStep ==
  ASSUME Core, Clear
  PROVE  Core'
<1>1. /\ msgs' = << >> /\ saves' = Append(saves, msgs') /\ unsaved' = FALSE /\ TakenAway
      /\ UNCHANGED <<stored, net, sseRef, timers, nextId, editing, modal, crashed>>
  BY DEF Clear, Save, ui
<1>2. Types /\ msgs' \in Lists
  BY <1>1 DEF Core, Types, Lists
<1>3. Saves /\ Saved' /\ saves' \in Seq(Lists)
  BY <1>1, <1>2, SavedNew, SavesType DEF Saves
<1>4. odd' \subseteq Oddities
  BY <1>1, <1>2 DEF Types, Oddities, TakenAway
<1>5. Types'
  BY <1>1, <1>2, <1>3, <1>4 DEF Types
<1>6. Good(msgs')
  BY <1>1 DEF Good
<1> QED
  BY <1>1, <1>3, <1>5, <1>6, TakenStep DEF Core

\* The settings are reset, the messages stay.
LEMMA ConfigResetStep ==
  ASSUME Core, ConfigReset
  PROVE  Core'
<1>1. /\ stored' = DefaultMessages /\ unsaved' = (unsaved \/ saves = << >>)
      /\ UNCHANGED <<msgs, saves, net, sseRef, timers, nextId, editing, modal, crashed, odd>>
  BY DEF ConfigReset, ui
<1>2. Types /\ stored' \in Lists /\ Good(stored')
  BY <1>1, DefaultIs DEF Core
<1>3. Types'
  <2>1. unsaved' \in BOOLEAN
    BY <1>1, <1>2 DEF Types
  <2> QED
    BY <1>1, <1>2, <2>1 DEF Types
<1>4. Saved'
  <2>1. CASE saves = << >>
    BY <1>1, <2>1 DEF Saved
  <2>2. CASE saves # << >>
    <3>1. LastSaved' = LastSaved /\ (unsaved => unsaved')
      BY <1>1, <2>2 DEF LastSaved
    <3> QED
      BY <1>1, <3>1 DEF Core, Saved, AnyGenerating
  <2> QED
    BY <2>1, <2>2
<1>5. OneRequest' /\ Live' /\ ThrowsOnlyWhenCleared'
  BY <1>1 DEF Core, OneRequest, Live, ThrowsOnlyWhenCleared, Streaming, Open, LastGenerating
<1>6. Own'
  BY <1>1, <1>2 DEF Core, Own
<1> QED
  BY <1>3, <1>4, <1>5, <1>6 DEF Core

\* Two lists in a row.
LEMMA Joined ==
  ASSUME NEW S, NEW a \in Seq(S), NEW b \in Seq(S)
  PROVE  a \o b \in Seq(S) /\ Len(a \o b) = Len(a) + Len(b)
OBVIOUS

\* The settings are reset with the messages: a timer is pending, so that nothing is claimed of
\* what is stored.
LEMMA ConfigResetAllStep ==
  ASSUME Core, ConfigResetAll
  PROVE  Core'
<1>1. /\ stored' = DefaultMessages /\ msgs' = << >> /\ TakenAway
      /\ UNCHANGED <<saves, net, sseRef, nextId, editing, modal, crashed, unsaved>>
  BY DEF ConfigResetAll
<1>2. Types /\ stored' \in Lists /\ Good(stored') /\ Good(msgs') /\ msgs' \in Lists
  BY <1>1, DefaultIs DEF Core, Good, Lists
<1>3. timers' \in Seq(TimerKinds) /\ timers' # << >>
  <2>1. PICK i \in 1 .. Len(timers) + 1 : timers' = InsertAt(timers, i, "default")
    BY DEF ConfigResetAll
  <2>2. timers \in Seq(TimerKinds) /\ "default" \in TimerKinds
    BY <1>2 DEF Types, TimerKinds
  <2> DEFINE p == SubSeq(timers, 1, i - 1)
             q == SubSeq(timers, i, Len(timers))
             m == << "default" >>
  <2>3. p \in Seq(TimerKinds) /\ q \in Seq(TimerKinds)
    BY <2>2
  <2>4. m \in Seq(TimerKinds) /\ Len(m) = 1
    BY <2>2
  <2>5. timers' = p \o m \o q
    BY <2>1 DEF InsertAt
  <2> HIDE DEF p, q, m
  <2>6. p \o m \in Seq(TimerKinds) /\ Len(p \o m) = Len(p) + Len(m)
    BY <2>3, <2>4, Joined
  <2> PICK pm : pm = p \o m
    OBVIOUS
  <2>7. pm \o q \in Seq(TimerKinds) /\ Len(pm \o q) = Len(pm) + Len(q)
    BY <2>3, <2>6, Joined
  <2>8. Len(p) \in Nat /\ Len(q) \in Nat
    BY <2>3
  <2>9. timers' \in Seq(TimerKinds) /\ Len(timers') = Len(p) + 1 + Len(q)
    BY <2>4, <2>5, <2>6, <2>7
  <2>10. Len(timers') # 0
    BY <2>8, <2>9
  <2> QED
    BY <2>9, <2>10
<1>4. odd' \subseteq Oddities
  BY <1>1, <1>2 DEF Types, Oddities, TakenAway
<1>5. Types'
  BY <1>1, <1>2, <1>3, <1>4 DEF Types
<1>6. Saved'
  BY <1>3 DEF Saved
<1> QED
  BY <1>1, <1>2, <1>5, <1>6, TakenStep DEF Core, Saves

\* The default messages are shown, by the timer or because the language has changed.
LEMMA ShowDefaultsStep ==
  ASSUME Core, DefaultTimer \/ LanguageChange
  PROVE  Core'
<1>1. /\ msgs' = DefaultMessages /\ unsaved' = (saves # << >> \/ stored # DefaultMessages)
      /\ TakenAway /\ UNCHANGED <<stored, saves, net, sseRef, nextId, editing, modal, crashed>>
  BY DEF DefaultTimer, LanguageChange, ShowDefaults, ui
<1>2. Types /\ msgs' \in Lists /\ Good(msgs') /\ Settled(Last(msgs'))
  BY <1>1, DefaultIs DEF Core
<1>3. timers' \in Seq(TimerKinds)
  <2>1. timers \in Seq(TimerKinds)
    BY <1>2 DEF Types
  <2>2. timers' = timers \/ (timers # << >> /\ timers' = Tail(timers))
    BY DEF DefaultTimer, LanguageChange, ui
  <2> QED
    BY <2>1, <2>2
<1>4. odd' \subseteq Oddities
  BY <1>1, <1>2 DEF Types, Oddities, TakenAway
<1>5. Types'
  <2>1. unsaved' \in BOOLEAN
    BY <1>1
  <2> QED
    BY <1>1, <1>2, <1>3, <1>4, <2>1 DEF Types
<1>6. Saved'
  BY <1>1 DEF Saved, LastSaved
<1> QED
  BY <1>1, <1>2, <1>5, <1>6, TakenStep DEF Core, Saves

\* The repair on mount changes a status at most.
LEMMA RepairedIs ==
  ASSUME NEW list \in Lists
  PROVE  Repaired(list) \in Lists /\ (Good(list) => Good(Repaired(list)))
<1>1. CASE list # << >> /\ Generating(Last(list))
  <2> PICK l : l = Last(list)
    OBVIOUS
  <2>1. l \in MessageType /\ "complete" \in Stati
    BY <1>1, LastIs DEF Stati
  <2> DEFINE m == [l EXCEPT !.st = "complete"]
  <2>2. m \in MessageType /\ m.st = "complete" /\ m.text = l.text /\ m.role = l.role /\ m.req = l.req
    BY <2>1, SetStatus
  <2>3. Repaired(list) = SetLast(list, m)
    BY <1>1 DEF Repaired
  <2>4. ~Finished(l)
    BY <1>1 DEF Generating, Finished
  <2> HIDE DEF m
  <2>5. Written(list, Repaired(list), l.req)
    BY <1>1, <2>2, <2>3, <2>4 DEF Written
  <2> QED
    BY <2>5, WrittenIs, WrittenGood
<1>2. CASE ~(list # << >> /\ Generating(Last(list)))
  BY <1>2 DEF Repaired
<1> QED
  BY <1>1, <1>2

\* The page is loaded again.
LEMMA ReloadStep ==
  ASSUME Core, Reload
  PROVE  Core'
<1>0. Types /\ stored \in Lists /\ net \in Seq(NetType) /\ DOMAIN net = 1 .. Len(net) /\ Len(net) \in Nat
  BY DEF Core, Types
<1>1. /\ msgs' = Repaired(stored') /\ saves' = (IF msgs' = stored' THEN << >> ELSE << msgs' >>)
      /\ net' = [r \in DOMAIN net |-> [net[r] EXCEPT !.open = FALSE]] /\ sseRef' = 0
      /\ timers' = << >> /\ nextId' = 4 /\ editing' = NotEditing /\ modal' = NoModal
      /\ crashed' = FALSE /\ unsaved' = FALSE /\ UNCHANGED odd
      /\ stored' \in {stored, DefaultMessages}
  BY DEF Reload, FirstId
<1>2. stored' \in Lists /\ msgs' \in Lists /\ (Good(stored) => Good(stored') /\ Good(msgs'))
  <2>1. stored' \in Lists /\ (Good(stored) => Good(stored'))
    BY <1>0, <1>1, DefaultIs
  <2> QED
    BY <1>1, <2>1, RepairedIs
<1>3. saves' \in Seq(Lists) /\ LastSaved' = msgs' /\ \A i \in DOMAIN saves' : saves'[i] = msgs'
  <2>1. CASE msgs' = stored'
    BY <1>1, <2>1 DEF LastSaved
  <2>2. CASE msgs' # stored'
    BY <1>1, <1>2, <2>2 DEF LastSaved
  <2> QED
    BY <2>1, <2>2
<1>4. /\ net' \in Seq(NetType) /\ Len(net') = Len(net) /\ DOMAIN net' = DOMAIN net
      /\ \A q \in DOMAIN net' : ~net'[q].open
  <2> DEFINE n(r) == [net[r] EXCEPT !.open = FALSE]
  <2>1. ASSUME NEW r \in DOMAIN net PROVE n(r) \in NetType /\ n(r).open = FALSE
    <3>1. net[r] \in NetType
      BY <1>0
    <3> QED
      BY <3>1 DEF NetType
  <2>2. net' = [r \in DOMAIN net |-> n(r)]
    BY <1>1
  <2> HIDE DEF n
  <2>3. DOMAIN net' = 1 .. Len(net) /\ \A q \in DOMAIN net' : net'[q] = n(q)
    BY <1>0, <2>2
  <2>4. net' \in [1 .. Len(net) -> NetType]
    BY <1>0, <2>1, <2>2
  <2>5. net' \in Seq(NetType) /\ Len(net') = Len(net)
    BY <1>0, <2>4
  <2> QED
    BY <1>0, <2>1, <2>3, <2>5
<1>5. Types'
  <2>1. editing' \in [index : Nat, id : Nat] /\ nextId' \in Nat \ {0}
    BY <1>1 DEF NotEditing
  <2>2. timers' \in Seq(TimerKinds) /\ Len(net') <= MaxReq
    BY <1>0, <1>1, <1>4 DEF Types
  <2> QED
    BY <1>0, <1>1, <1>2, <1>3, <1>4, <2>1, <2>2 DEF Types
<1>6. Saved'
  BY <1>3 DEF Saved
<1>7. OneRequest' /\ Live' /\ ThrowsOnlyWhenCleared'
  BY <1>1, <1>4 DEF OneRequest, Live, ThrowsOnlyWhenCleared, Streaming, Open
<1>8. Own'
  BY <1>1, <1>2, <1>3, <1>4 DEF Core, Own, NoModal
<1> QED
  BY <1>5, <1>6, <1>7, <1>8 DEF Core

-----------------------------------------------------------------------------
(* The next-state relation.                                                *)

\* Every event keeps the invariant, and writes at most the last message.
LEMMA NetworkStep ==
  ASSUME Core, NEW r \in DOMAIN net, Network(r)
  PROVE  Core' /\ Writes(r)
<1>1. ~crashed
  BY DEF Network
<1>2. CASE Chunk(r)
  BY <1>2, ChunkStep
<1>3. CASE ParseError(r)
  BY <1>1, <1>3, ParseErrorStep
<1>4. CASE Done(r)
  BY <1>1, <1>4, DoneStep
<1>5. CASE FetchHollow(r) \/ StreamCut(r)
  BY <1>5, SilentEndStep
<1>6. CASE \E http \in BOOLEAN : SseError(r, http)
  BY <1>1, <1>6, SseErrorStep
<1>7. CASE \E status \in {"complete", "error"} : FetchEnds(r, status)
  BY <1>1, <1>7, FetchEndsStep
<1> QED
  BY <1>2, <1>3, <1>4, <1>5, <1>6, <1>7 DEF Network, RequestEnds

\* The timers of a retry and the events.
LEMMA BrowserStep ==
  ASSUME Core, Browser
  PROVE  Core'
<1>1. CASE \E r \in DOMAIN net : Network(r)
  BY <1>1, NetworkStep
<1>2. CASE SaveTimer
  BY <1>2, SaveTimerStep
<1>3. ASSUME NEW k \in ReqKinds, ResendTimer(k) PROVE Core'
  <2>1. timers \in Seq(TimerKinds) /\ timers # << >> /\ timers' = Tail(timers)
    BY <1>3 DEF ResendTimer, Core, Types
  <2>2. timers' \in Seq(TimerKinds)
    BY <2>1
  <2>3. ~crashed /\ SendMessage(k) /\ UNCHANGED <<stored, editing, modal, crashed>>
    BY <1>3 DEF ResendTimer
  <2> QED
    BY <2>2, <2>3, SendMessageStep
<1>4. ASSUME NEW k \in ReqKinds, RegenTimer(k) PROVE Core'
  BY <1>4, RegenStep
<1>5. CASE DefaultTimer
  BY <1>5, ShowDefaultsStep
<1> QED
  BY <1>1, <1>2, <1>3, <1>4, <1>5 DEF Browser

\* What the user does.
LEMMA UserStep ==
  ASSUME Core, User
  PROVE  Core'
<1>1. ASSUME NEW k \in ReqKinds, Send(k) PROVE Core'
  <2>1. /\ ~crashed /\ SendMessage(k) /\ UNCHANGED <<stored, editing, modal, crashed>>
        /\ timers' = timers
    BY <1>1 DEF Send, UserActs
  <2>2. timers' \in Seq(TimerKinds)
    BY <2>1 DEF Core, Types
  <2> QED
    BY <2>1, <2>2, SendMessageStep
<1>2. ASSUME NEW i \in DOMAIN msgs, Reset(i) PROVE Core'
  BY <1>2, ResetStep
<1>3. ASSUME NEW i \in DOMAIN msgs, RoleToggle(i) PROVE Core'
  BY <1>3, RoleToggleStep
<1>4. CASE (\E i \in DOMAIN msgs : Delete(i) \/ Edit(i)) \/ EditCancel \/ DeleteCancel
  BY <1>4, DialogStep
<1>5. CASE Stop
  BY <1>5, StopStep
<1>6. CASE DeleteOk
  BY <1>6, DeleteOkStep
<1>7. CASE EditSave
  BY <1>7, EditSaveStep
<1>8. CASE EditRegenerate \/ EditKeep
  BY <1>8, EditDialogStep
<1>9. CASE Clear
  BY <1>9, ClearStep
<1>10. CASE Reload
  BY <1>10, ReloadStep
<1>11. CASE ConfigReset
  BY <1>11, ConfigResetStep
<1>12. CASE ConfigResetAll
  BY <1>12, ConfigResetAllStep
<1>13. CASE LanguageChange
  BY <1>13, ShowDefaultsStep
<1> QED
  BY <1>1, <1>2, <1>3, <1>4, <1>5, <1>6, <1>7, <1>8, <1>9, <1>10, <1>11, <1>12, <1>13 DEF User

\* Only loading the page, storing a list and a reset change the flags.
LEMMA FlagsStep ==
  ASSUME Flags, User \/ Browser
  PROVE  Flags'
<1>1. ASSUME UNCHANGED page PROVE Flags'
  BY <1>1 DEF Flags, page
<1>2. CASE User
  <2>1. CASE (\E k \in ReqKinds : Send(k)) \/ Stop \/ Clear \/ LanguageChange
    BY <1>1, <2>1 DEF Send, Stop, Clear, LanguageChange
  <2>2. ASSUME NEW i \in DOMAIN msgs, Reset(i) \/ RoleToggle(i) \/ Delete(i) \/ Edit(i)
        PROVE  Flags'
    BY <1>1, <2>2 DEF Reset, RoleToggle, Delete, Edit
  <2>3. CASE DeleteOk \/ DeleteCancel \/ EditCancel \/ EditSave
    BY <1>1, <2>3 DEF DeleteOk, DeleteCancel, EditCancel, EditSave
  <2>4. CASE EditRegenerate \/ EditKeep
    BY <1>1, <2>4 DEF EditRegenerate, EditKeep, Overwrite
  <2>5. CASE ConfigReset \/ ConfigResetAll
    BY <2>5 DEF ConfigReset, ConfigResetAll, Flags
  <2>6. CASE Reload
    BY <2>6 DEF Reload, Flags
  <2> QED
    BY <1>2, <2>1, <2>2, <2>3, <2>4, <2>5, <2>6 DEF User
<1>3. CASE Browser
  <2>1. ASSUME NEW r \in DOMAIN net, Network(r) PROVE Flags'
    BY <1>1, <2>1 DEF Network, RequestEnds, Chunk, ParseError, Done, StreamCut, FetchHollow,
                      SseError, FetchEnds
  <2>2. CASE SaveTimer
    BY <2>2 DEF SaveTimer, Flags
  <2>3. CASE DefaultTimer \/ \E k \in ReqKinds : ResendTimer(k) \/ RegenTimer(k)
    BY <1>1, <2>3 DEF DefaultTimer, ResendTimer, RegenTimer
  <2> QED
    BY <1>3, <2>1, <2>2, <2>3 DEF Browser
<1> QED
  BY <1>2, <1>3

\* Nothing happens.
LEMMA StutterStep ==
  ASSUME IInv, UNCHANGED vars
  PROVE  IInv'
<1>1. /\ UNCHANGED <<msgs, stored, saves, net, sseRef>> /\ UNCHANGED <<timers, nextId, editing, modal>>
      /\ UNCHANGED <<crashed, clicks, unsaved, odd, bare, fresh>>
  BY DEF vars, ui, page
<1>2. Types'
  BY <1>1 DEF IInv, Core, Types
<1>3. Saved' /\ OneRequest' /\ Live' /\ ThrowsOnlyWhenCleared'
  BY <1>1 DEF IInv, Core, Saved, LastSaved, AnyGenerating, OneRequest, Live, LastGenerating,
              ThrowsOnlyWhenCleared, Streaming, Open
<1>4. Own'
  BY <1>1 DEF IInv, Core, Own
<1> QED
  BY <1>1, <1>2, <1>3, <1>4 DEF IInv, Core, Flags

\* The page of a user who has cleared the list, or comes for the first time.
LEMMA InitIInv == Init => IInv
<1> SUFFICES ASSUME Init PROVE IInv
  OBVIOUS
<1>0. msgs \in Lists /\ Good(msgs)
  <2>1. << >> \in Lists /\ Good(<< >>)
    BY DEF Lists, Good
  <2> QED
    BY <2>1, DefaultIs DEF Init
<1>1. Types
  <2>1. msgs \in Lists /\ stored \in Lists /\ saves \in Seq(Lists) /\ timers \in Seq(TimerKinds)
    BY <1>0 DEF Init
  <2>2. net \in Seq(NetType) /\ Len(net) <= MaxReq /\ sseRef = 0
    BY PlaygroundAssumption DEF Init
  <2>3. nextId \in Nat \ {0} /\ editing \in [index : Nat, id : Nat]
    BY DEF Init, NotEditing, FirstId
  <2> QED
    BY <2>1, <2>2, <2>3 DEF Init, Types
<1>2. Saved /\ OneRequest /\ Live /\ ThrowsOnlyWhenCleared
  BY DEF Init, Saved, LastSaved, OneRequest, Live, ThrowsOnlyWhenCleared
<1>3. Own
  BY <1>0 DEF Init, Own, NoModal
<1>4. clicks \in 0 .. MaxClicks
  BY PlaygroundAssumption DEF Init
<1>5. Flags
  BY DEF Init, Flags
<1> QED
  BY <1>1, <1>2, <1>3, <1>4, <1>5 DEF IInv, Core

\* The invariant is inductive.
LEMMA NextIInv == IInv /\ [Next]_vars => IInv'
<1> SUFFICES ASSUME IInv, [Next]_vars PROVE IInv'
  OBVIOUS
<1>0. Core /\ Flags /\ clicks \in 0 .. MaxClicks /\ MaxClicks \in Nat
  BY PlaygroundAssumption DEF IInv
<1>1. CASE User /\ clicks < MaxClicks /\ clicks' = clicks + 1
  BY <1>0, <1>1, UserStep, FlagsStep DEF IInv
<1>2. CASE Browser /\ UNCHANGED clicks
  BY <1>0, <1>2, BrowserStep, FlagsStep DEF IInv
<1>3. CASE UNCHANGED vars
  BY <1>3, StutterStep
<1> QED
  BY <1>1, <1>2, <1>3 DEF Next

\* The inductive invariant holds in every reachable state.
THEOREM Invariance == Spec => []IInv
BY InitIInv, NextIInv, PTL DEF Spec

-----------------------------------------------------------------------------
(* The properties of the page.                                             *)

\* The variables keep their types, and sseSourceRef never has a fetch, whatever the user, the
\* timers and the network do.
THEOREM TypeCorrect == Spec => []TypeOK
<1>1. IInv => TypeOK
  <2> SUFFICES ASSUME IInv PROVE TypeOK
    OBVIOUS
  <2>1. Types /\ clicks \in 0 .. MaxClicks
    BY DEF IInv, Core
  <2>2. \A i \in DOMAIN saves : saves[i] \in Lists
    BY <2>1 DEF Types
  <2>3. modal.type \in {"none", "delete", "edit"}
    BY <2>1 DEF Types, NoModal, DeleteModal, EditModal
  <2> QED
    BY <2>1, <2>2, <2>3 DEF TypeOK, Types, Lists, NetType, IInv, Flags, TimerKinds
<1> QED
  BY <1>1, Invariance, PTL

\* streamMessageUpdate, completeMessage and the end of a fetch apply an event to the last
\* message, whichever it is: without overlapping requests and stale dialogs it is the one
\* the request was made for.
THEOREM AnswersDoNotMix == Spec => []OwnTextOnly
<1>1. IInv => OwnTextOnly
  BY DEF IInv, Core, Own, Good, OwnTextOnly
<1> QED
  BY <1>1, Invariance, PTL

\* When the save timers have fired, localStorage has the list of the screen, unless the last
\* save was refused, the settings were reset, or the last change is of those nothing saves.
THEOREM StoredAtRest == Spec => []StoredWhenDone
<1>1. IInv => StoredWhenDone
  BY DEF IInv, Core, Saved, LastSaved, StoredWhenDone
<1> QED
  BY <1>1, Invariance, PTL

\* completeMessage reads the status of the last message without looking whether there is
\* one; the list is empty then in irregular histories only.
THEOREM ThrowsRarely == Spec => []ThrowsOnlyWhenCleared
<1>1. IInv => ThrowsOnlyWhenCleared
  BY DEF IInv, Core
<1> QED
  BY <1>1, Invariance, PTL

\* No event changes a message that is finished, nor any but the last, nor the length of the
\* list.
THEOREM LateEvents == Spec => LateEventsHarmless
<1> DEFINE A == (\E r \in DOMAIN net : Network(r)) =>
                  /\ Len(msgs') = Len(msgs)
                  /\ \A i \in DOMAIN msgs :
                       (i < Len(msgs) \/ Finished(msgs[i])) => msgs'[i] = msgs[i]
<1>1. IInv /\ [Next]_vars => [A]_vars
  <2> SUFFICES ASSUME IInv, NEW r \in DOMAIN net, Network(r)
               PROVE  /\ Len(msgs') = Len(msgs)
                      /\ \A i \in DOMAIN msgs :
                           (i < Len(msgs) \/ Finished(msgs[i])) => msgs'[i] = msgs[i]
    OBVIOUS
  <2>1. Core /\ msgs \in Lists
    BY DEF IInv, Core, Types
  <2>2. CASE msgs' = msgs
    BY <2>2
  <2>3. CASE Written(msgs, msgs', r)
    <3>1. msgs # << >> /\ ~Finished(Last(msgs)) /\ Last(msgs) = msgs[Len(msgs)]
      BY <2>3 DEF Written, Last
    <3>2. Len(msgs') = Len(msgs) /\ \A i \in DOMAIN msgs : i # Len(msgs) => msgs'[i] = msgs[i]
      BY <2>1, <2>3, WrittenIs
    <3>3. Len(msgs) \in Nat /\ DOMAIN msgs = 1 .. Len(msgs)
      BY <2>1 DEF Lists
    <3> QED
      BY <3>1, <3>2, <3>3
  <2> QED
    BY <2>1, <2>2, <2>3, NetworkStep DEF Writes
<1> QED
  BY <1>1, Invariance, PTL DEF Spec, LateEventsHarmless
=============================================================================
