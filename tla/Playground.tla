----------------------------- MODULE Playground -----------------------------
(***************************************************************************)
(* The playground page of the web interface: the list of messages, the     *)
(* requests under way (one streaming connection is remembered in           *)
(* sseSourceRef, fetch requests are not), the timers that save a snapshot  *)
(* of the list or send again, the edit and delete dialogs, and the copy of *)
(* the list in localStorage (web/src/hooks/playground/*,                   *)
(* web/src/pages/Playground/index.jsx).                                    *)
(*                                                                         *)
(* One step is one task of the browser's event loop: a click, a network    *)
(* event, a timer.  Events say nothing about the message they belong to;   *)
(* the code applies them to the last message.  A message is abstracted to  *)
(* its id, role and status, the requests whose output is in its text (0:   *)
(* text of no request: a greeting, or what the user typed into an answer)  *)
(* and, for the history, the request it was made for.                      *)
(* The thinking and debug fields, images and the custom request body are   *)
(* left out.                                                               *)
(***************************************************************************)
EXTENDS Integers, Sequences, SequencesExt

CONSTANTS
  MaxReq,     \* bound on the requests of a page's life
  MaxSaves,   \* bound on the save timers pending when the user acts
  MaxClicks,  \* bound on what the user does
  SpentFirst, \* the part of that bound a first visit starts with as used up
  ReqKinds    \* {"sse", "fetch"}: inputs.stream on, off

ASSUME PlaygroundAssumption ==
  /\ MaxReq \in Nat /\ MaxSaves \in Nat /\ MaxClicks \in Nat /\ SpentFirst \in 0 .. MaxClicks
  /\ ReqKinds \subseteq {"sse", "fetch"}

VARIABLES
  msgs,      \* the message list on the screen
  stored,    \* the list that localStorage gives a page that is loaded
  bare,      \* localStorage has no list: the page shows the default messages
  fresh,     \* the page was loaded when localStorage had no list (!initialMessages)
  saves,     \* pending setTimeout(() => saveMessages(list), 0), in order
  timers,    \* pending timers: "send" a message again, "regen" an answer, show the "default" list
  net,       \* kind and state of each request
  sseRef,    \* sseSourceRef.current, 0: null
  nextId,    \* generateMessageId's counter
  editing,   \* index and id of the message in the edit box, index 0: none
  modal,     \* the open dialog
  crashed,   \* an updater threw: React takes the page down
  clicks,    \* what the user has done so far
  unsaved,   \* history: the list, or its copy, was last changed by a path that does not save
  odd        \* history: the irregular things that have happened

ui == <<timers, nextId, editing, modal>>
page == <<bare, fresh>>
vars == <<msgs, stored, page, saves, net, sseRef, ui, crashed, clicks, unsaved, odd>>

FirstId == 4
Oddities == {"overlap", "hollow", "cut", "stale", "cleared", "unparsed"}
NoModal == [type |-> "none"]
NotEditing == [index |-> 0, id |-> 0]
Generating(m) == m.st \in {"loading", "incomplete"}
Finished(m) == m.st \in {"complete", "error"}
LastGenerating == msgs # << >> /\ Generating(Last(msgs))
AnyGenerating == \E i \in DOMAIN msgs : Generating(msgs[i])
Open(r) == r \in DOMAIN net /\ net[r].open

Message(id, role, st, r) == [id |-> id, role |-> role, st |-> st, text |-> {}, req |-> r]

\* getDefaultMessages: a message of the user and a greeting, which answers no request and has
\* no status
DefaultMessages ==
  << Message(2, "user", "none", 0), [Message(3, "assistant", "none", 0) EXCEPT !.text = {0}] >>

\* the page of a user who has cleared the list, or comes for the first time
Init ==
  /\ \/ msgs = << >> /\ bare = FALSE /\ clicks = 0
     \/ msgs = DefaultMessages /\ bare = TRUE /\ clicks = SpentFirst
  /\ stored = msgs /\ fresh = bare /\ saves = << >> /\ timers = << >>
  /\ net = << >> /\ sseRef = 0 /\ nextId = FirstId
  /\ editing = NotEditing /\ modal = NoModal
  /\ crashed = FALSE /\ unsaved = FALSE /\ odd = {}

-----------------------------------------------------------------------------
(* What the network does to the list.                                      *)

\* mutant of SetLast: the message is found by its id, as the buttons do
SetLastById(list, m) ==
  [j \in DOMAIN list |-> IF list[j].id = m.id THEN [m EXCEPT !.req = list[j].req] ELSE list[j]]

SetLast(list, m) == [list EXCEPT ![Len(list)] = m]

\* streamMessageUpdate
StreamUpdate(list, r) ==
  IF list # << >> /\ Last(list).role = "assistant" /\ Generating(Last(list))
  THEN SetLast(list, [Last(list) EXCEPT !.st = "incomplete", !.text = @ \union {r}])
  ELSE list

\* mutant of CompleteMessage: nothing is saved
CompleteMessageUnsaved(list, status) ==
  /\ list # << >> /\ UNCHANGED <<crashed, saves, unsaved>>
  /\ msgs' = IF Finished(Last(list)) THEN list
             ELSE SetLast(list, [Last(list) EXCEPT !.st = status])

\* mutant of CompleteMessage: the status is not looked at
CompleteMessageAlways(list, status) ==
  LET new == SetLast(list, [Last(list) EXCEPT !.st = status])
  IN  list # << >> /\ msgs' = new /\ saves' = Append(saves, new) /\ UNCHANGED <<crashed, unsaved>>

\* completeMessage(status) on the list; it reads the status of the last message, and throws
\* when there is none
CompleteMessage(list, status) ==
  IF list = << >>
  THEN crashed' = TRUE /\ UNCHANGED <<msgs, saves, unsaved>>
  ELSE /\ UNCHANGED crashed
       /\ IF Finished(Last(list))
          THEN msgs' = list /\ UNCHANGED <<saves, unsaved>>
          ELSE LET new == SetLast(list, [Last(list) EXCEPT !.st = status])
               IN  msgs' = new /\ saves' = Append(saves, new) /\ unsaved' = FALSE

Close(r) == net' = [net EXCEPT ![r].open = FALSE]
Streaming(r) == Open(r) /\ net[r].kind = "sse"
Fetching(r) == Open(r) /\ net[r].kind = "fetch"

Chunk(r) ==
  /\ Streaming(r)
  /\ msgs' = StreamUpdate(msgs, r)
  /\ UNCHANGED <<stored, page, saves, net, sseRef, ui, crashed, unsaved, odd>>

\* '[DONE]': whatever source sseSourceRef has by now, it is forgotten
Done(r) ==
  /\ Streaming(r) /\ Close(r) /\ sseRef' = 0
  /\ CompleteMessage(msgs, "complete")
  /\ UNCHANGED <<stored, page, ui, odd>>

\* data that does not parse; the source stays open
ParseError(r) ==
  /\ Streaming(r)
  /\ CompleteMessage(StreamUpdate(msgs, r), "error")
  /\ odd' = odd \union {"unparsed"}
  /\ UNCHANGED <<stored, page, net, sseRef, ui>>

\* mutant of SseError: the message is left alone
SseErrorSilent(r, http) ==
  /\ Streaming(r) /\ Close(r) /\ sseRef' = 0
  /\ UNCHANGED <<msgs, stored, page, saves, ui, crashed, unsaved, odd>>

\* the 'error' event, and with an HTTP error status the 'readystatechange' that follows
\* from source.close(): it completes the message once more.  The handler passes over a
\* source in readyState 2, which is one that was closed.
SseError(r, http) ==
  /\ Streaming(r) /\ Close(r) /\ sseRef' = 0
  /\ IF msgs = << >>
     THEN UNCHANGED <<msgs, unsaved>> /\ crashed' = http
     ELSE /\ UNCHANGED crashed
          /\ IF Finished(Last(msgs)) THEN UNCHANGED <<msgs, unsaved>>
             ELSE /\ msgs' = SetLast(msgs, [Last(msgs) EXCEPT !.st = "error", !.text = @ \union {r}])
                  /\ unsaved' = TRUE
  /\ UNCHANGED <<stored, page, saves, ui, odd>>

\* The connection ends without '[DONE]' and without an error (the relay of Ollama just ends its
\* loop): the source closes itself with status 200, for which there is no handler.
StreamCut(r) ==
  /\ Streaming(r) /\ Close(r)
  /\ odd' = odd \union {"cut"}
  /\ UNCHANGED <<msgs, stored, page, saves, sseRef, ui, crashed, unsaved>>

\* handleNonStreamRequest: the answer or the error goes to a message that is loading
FetchEnds(r, status) ==
  /\ Fetching(r) /\ Close(r)
  /\ IF msgs # << >> /\ Last(msgs).st = "loading"
     THEN /\ msgs' = SetLast(msgs, [Last(msgs) EXCEPT !.st = status, !.text = {r}])
          /\ unsaved' = TRUE
     ELSE UNCHANGED <<msgs, unsaved>>
  /\ UNCHANGED <<stored, page, saves, sseRef, ui, crashed, odd>>

\* an answer without choices is ignored
FetchHollow(r) ==
  /\ Fetching(r) /\ Close(r)
  /\ odd' = odd \union {"hollow"}
  /\ UNCHANGED <<msgs, stored, page, saves, sseRef, ui, crashed, unsaved>>

RequestEnds(r) ==
  \/ Done(r) \/ StreamCut(r) \/ FetchHollow(r)
  \/ \E http \in BOOLEAN : SseError(r, http)
  \/ \E status \in {"complete", "error"} : FetchEnds(r, status)

Network(r) == ~crashed /\ (Chunk(r) \/ ParseError(r) \/ RequestEnds(r))

-----------------------------------------------------------------------------
(* Requests.                                                               *)

\* mutant of SendRequest: a fetch is remembered as if it could be closed
SendRequestRemembersAny(k) ==
  /\ Len(net) < MaxReq
  /\ net' = Append(net, [kind |-> k, open |-> TRUE])
  /\ sseRef' = Len(net) + 1
  /\ odd' = IF \E r \in DOMAIN net : net[r].open THEN odd \union {"overlap"} ELSE odd

\* handleSSE, handleNonStreamRequest: the new source takes the place of the old one
SendRequest(k) ==
  /\ Len(net) < MaxReq
  /\ net' = Append(net, [kind |-> k, open |-> TRUE])
  /\ sseRef' = IF k = "sse" THEN Len(net) + 1 ELSE sseRef
  /\ odd' = IF \E r \in DOMAIN net : net[r].open THEN odd \union {"overlap"} ELSE odd

Save(list) == saves' = Append(saves, list) /\ unsaved' = FALSE

\* onMessageSend: a message of the user (the second one made, with the images) and a loading
\* answer
SendMessage(k) ==
  LET list == msgs \o << Message(nextId + 2, "user", "none", 0),
                         Message(nextId + 1, "assistant", "loading", Len(net) + 1) >>
  IN  /\ SendRequest(k)
      /\ msgs' = list /\ Save(list)
      /\ nextId' = nextId + 3

\* The chat component takes no input while the last message is being generated (external),
\* and a dialog covers the page.
UserActs == ~crashed /\ modal = NoModal /\ Len(saves) < MaxSaves

Send(k) ==
  /\ UserActs /\ ~LastGenerating
  /\ SendMessage(k)
  /\ UNCHANGED <<stored, page, timers, editing, modal, crashed>>

Stop ==
  /\ UserActs /\ LastGenerating
  /\ IF sseRef # 0 THEN Close(sseRef) ELSE UNCHANGED net
  /\ sseRef' = 0
  /\ msgs' = SetLast(msgs, [Last(msgs) EXCEPT !.st = "complete"])
  /\ Save(msgs')
  /\ UNCHANGED <<stored, page, ui, crashed, odd>>

-----------------------------------------------------------------------------
(* Timers.                                                                 *)

\* saveMessages; when localStorage refuses the list (its quota is used up) the exception is
\* caught and nothing is tried again
SaveTimer ==
  /\ ~crashed /\ saves # << >> /\ saves' = Tail(saves)
  /\ \/ stored' = Head(saves) /\ bare' = FALSE /\ UNCHANGED unsaved
     \/ unsaved' = (unsaved \/ saves' = << >>) /\ UNCHANGED <<stored, bare>>
  /\ UNCHANGED <<msgs, fresh, net, sseRef, ui, crashed, odd>>

\* onMessageSend(contentToSend) of a retry
ResendTimer(k) ==
  /\ ~crashed /\ timers # << >> /\ Head(timers) = "send"
  /\ SendMessage(k)
  /\ timers' = Tail(timers)
  /\ UNCHANGED <<stored, page, editing, modal, crashed>>

\* a new answer to an edited message; nothing is saved
RegenTimer(k) ==
  /\ ~crashed /\ timers # << >> /\ Head(timers) = "regen"
  /\ SendRequest(k)
  /\ msgs' = Append(msgs, Message(nextId, "assistant", "loading", Len(net) + 1))
  /\ nextId' = nextId + 1
  /\ timers' = Tail(timers)
  /\ UNCHANGED <<stored, page, saves, editing, modal, crashed, unsaved>>

-----------------------------------------------------------------------------
(* Buttons of a message, disabled while anything is being generated.       *)

\* mutant of Button: enabled while an answer is being generated
ButtonAlways(i) == UserActs /\ i \in DOMAIN msgs

Button(i) == UserActs /\ ~AnyGenerating /\ i \in DOMAIN msgs

\* handleMessageReset: back to the user's message, which is sent again
Reset(i) ==
  /\ Button(i)
  /\ LET u == SelectLastInSubSeq(msgs, 1, i, LAMBDA m : m.role = "user")
     IN  IF u = 0 THEN UNCHANGED <<msgs, timers>>
         ELSE msgs' = SubSeq(msgs, 1, u - 1) /\ timers' = Append(timers, "send")
  /\ UNCHANGED <<stored, page, saves, net, sseRef, nextId, editing, modal, crashed, unsaved, odd>>

\* handleRoleToggle, by id
Toggled(role) == CASE role = "assistant" -> "system" [] role = "system" -> "assistant" [] OTHER -> role

RoleToggle(i) ==
  /\ Button(i) /\ msgs[i].role # "user"
  /\ msgs' = [j \in DOMAIN msgs |->
                IF msgs[j].id = msgs[i].id /\ msgs[j].role # "user"
                THEN [msgs[j] EXCEPT !.role = Toggled(msgs[i].role)] ELSE msgs[j]]
  /\ Save(msgs')
  /\ UNCHANGED <<stored, page, net, sseRef, ui, crashed, odd>>

\* handleMessageDelete asks first
Delete(i) ==
  /\ Button(i)
  /\ modal' = [type |-> "delete", index |-> i, target |-> msgs[i]]
  /\ UNCHANGED <<msgs, stored, page, saves, net, sseRef, timers, nextId, editing, crashed, unsaved, odd>>

\* findIndex by reference, then by id; 0: not found
IndexOf(i, m) ==
  IF i \in DOMAIN msgs /\ msgs[i] = m THEN i ELSE SelectInSeq(msgs, LAMBDA x : x.id = m.id)

\* the list without the messages of an id
WithoutId(list, id) ==
  LET kept[n \in 0 .. Len(list)] ==
        IF n = 0 THEN << >>
        ELSE IF list[n].id = id THEN kept[n - 1] ELSE Append(kept[n - 1], list[n])
  IN  kept[Len(list)]

\* A message of the user goes with the answer that follows it, by position; any other is
\* filtered out by its id.
Without(i, m) ==
  IF m.role = "user" /\ i < Len(msgs) /\ msgs[i + 1].role = "assistant"
  THEN SubSeq(msgs, 1, i - 1) \o SubSeq(msgs, i + 2, Len(msgs))
  ELSE WithoutId(msgs, m.id)

DeleteOk ==
  /\ ~crashed /\ modal.type = "delete"
  /\ LET i == IndexOf(modal.index, modal.target)
     IN  IF i = 0 THEN UNCHANGED <<msgs, saves, unsaved>>
         ELSE msgs' = Without(i, modal.target) /\ Save(msgs')
  /\ odd' = IF AnyGenerating THEN odd \union {"stale"} ELSE odd
  /\ modal' = NoModal
  /\ UNCHANGED <<stored, page, net, sseRef, timers, nextId, editing, crashed>>

DeleteCancel ==
  /\ ~crashed /\ modal.type = "delete" /\ modal' = NoModal
  /\ UNCHANGED <<msgs, stored, page, saves, net, sseRef, timers, nextId, editing, crashed, unsaved, odd>>

-----------------------------------------------------------------------------
(* Editing.                                                                *)

Edit(i) ==
  /\ Button(i) /\ (msgs[i].role = "user" \/ msgs[i].text # {})
  /\ editing' = [index |-> i, id |-> msgs[i].id]
  /\ UNCHANGED <<msgs, stored, page, saves, net, sseRef, timers, nextId, modal, crashed, unsaved, odd>>

EditCancel ==
  /\ UserActs /\ editing # NotEditing /\ editing' = NotEditing
  /\ UNCHANGED <<msgs, stored, page, saves, net, sseRef, timers, nextId, modal, crashed, unsaved, odd>>

\* handleEditSave: every message with the id gets the text; a message of the user that has
\* an answer raises a dialog that keeps the list of this moment
EditSave ==
  /\ UserActs /\ \E i \in DOMAIN msgs : msgs[i].id = editing.id
  /\ LET i == IF editing.index \in DOMAIN msgs /\ msgs[editing.index].id = editing.id
              THEN editing.index ELSE SelectInSeq(msgs, LAMBDA x : x.id = editing.id)
         list == [j \in DOMAIN msgs |-> IF msgs[j].id = editing.id
                                        THEN [msgs[j] EXCEPT !.text = {0}] ELSE msgs[j]]
         asks == msgs[i].role = "user" /\ i < Len(msgs) /\ msgs[i + 1].role = "assistant"
     IN  IF asks
         THEN /\ modal' = [type |-> "edit", index |-> i, seen |-> msgs, list |-> list]
              /\ UNCHANGED <<msgs, saves, unsaved>>
         ELSE msgs' = list /\ Save(list) /\ UNCHANGED modal
  /\ editing' = NotEditing
  /\ UNCHANGED <<stored, page, net, sseRef, timers, nextId, crashed, odd>>

\* The dialog writes the list it kept, over whatever has happened since.
Overwrite(list) ==
  /\ msgs' = list /\ Save(list)
  /\ odd' = IF modal.seen # msgs \/ AnyGenerating THEN odd \union {"stale"} ELSE odd
  /\ modal' = NoModal
  /\ UNCHANGED <<stored, page, net, sseRef, nextId, editing, crashed>>

EditRegenerate ==
  /\ ~crashed /\ modal.type = "edit"
  /\ Overwrite(SubSeq(modal.list, 1, modal.index))
  /\ timers' = Append(timers, "regen")

EditKeep ==
  /\ ~crashed /\ modal.type = "edit"
  /\ Overwrite(modal.list)
  /\ UNCHANGED timers

-----------------------------------------------------------------------------
(* The page.                                                               *)

\* A list is taken off the screen; a request under way is on record.
TakenAway == odd' = IF \E r \in DOMAIN net : net[r].open THEN odd \union {"cleared"} ELSE odd

\* handleClearMessages leaves the requests alone
Clear ==
  /\ UserActs /\ msgs # << >>
  /\ msgs' = << >> /\ Save(<< >>) /\ TakenAway
  /\ UNCHANGED <<stored, page, net, sseRef, ui, crashed>>

\* setMessage(getDefaultMessages(t)), which saves nothing
ShowDefaults ==
  /\ msgs' = DefaultMessages
  /\ unsaved' = (saves # << >> \/ stored # DefaultMessages)
  /\ TakenAway

\* handleReset of the settings, without the messages: clearConfig removes the stored list too
ConfigReset ==
  /\ UserActs
  /\ stored' = DefaultMessages /\ bare' = TRUE
  /\ unsaved' = (unsaved \/ saves = << >>)
  /\ UNCHANGED <<msgs, fresh, saves, net, sseRef, ui, crashed, odd>>

\* The same with the messages: the list is emptied, and a timer of 0 ms, which may be
\* overtaken by one of 100 ms that is due, shows the default one.
ConfigResetAll ==
  /\ UserActs
  /\ stored' = DefaultMessages /\ bare' = TRUE
  /\ msgs' = << >> /\ TakenAway
  /\ \E i \in 1 .. Len(timers) + 1 : timers' = InsertAt(timers, i, "default")
  /\ UNCHANGED <<fresh, saves, net, sseRef, nextId, editing, modal, crashed, unsaved>>

DefaultTimer ==
  /\ ~crashed /\ timers # << >> /\ Head(timers) = "default"
  /\ ShowDefaults /\ timers' = Tail(timers)
  /\ UNCHANGED <<stored, page, saves, net, sseRef, nextId, editing, modal, crashed>>

\* The effect on [t, initialMessages], when the language changes
LanguageChange ==
  /\ ~crashed /\ fresh
  /\ ShowDefaults
  /\ UNCHANGED <<stored, page, saves, net, sseRef, ui, crashed>>

\* The repair on mount: a last message still being generated is complete
Repaired(list) ==
  IF list # << >> /\ Generating(Last(list))
  THEN SetLast(list, [Last(list) EXCEPT !.st = "complete"]) ELSE list

\* The page is loaded again: requests, timers and dialogs are gone, ids start over.  A list
\* of two with the ids of the default one is dropped if the user's message still is the
\* Chinese one.
Reload ==
  /\ \/ UNCHANGED <<stored, bare>>
     \/ /\ Len(stored) = 2 /\ stored[1].id = 2 /\ stored[2].id = 3 /\ stored[1].text = {}
        /\ stored' = DefaultMessages /\ bare' = TRUE
  /\ fresh' = bare'
  /\ msgs' = Repaired(stored')
  /\ saves' = IF msgs' = stored' THEN << >> ELSE << msgs' >>
  /\ net' = [r \in DOMAIN net |-> [net[r] EXCEPT !.open = FALSE]] /\ sseRef' = 0
  /\ timers' = << >> /\ nextId' = FirstId
  /\ editing' = NotEditing /\ modal' = NoModal
  /\ crashed' = FALSE /\ unsaved' = FALSE
  /\ UNCHANGED odd

User ==
  \/ \E k \in ReqKinds : Send(k)
  \/ \E i \in DOMAIN msgs : Reset(i) \/ RoleToggle(i) \/ Delete(i) \/ Edit(i)
  \/ Stop \/ DeleteOk \/ DeleteCancel
  \/ EditCancel \/ EditSave \/ EditRegenerate \/ EditKeep
  \/ Clear \/ ConfigReset \/ ConfigResetAll \/ LanguageChange \/ Reload

Browser ==
  \/ \E r \in DOMAIN net : Network(r)
  \/ SaveTimer \/ DefaultTimer
  \/ \E k \in ReqKinds : ResendTimer(k) \/ RegenTimer(k)

Next ==
  \/ User /\ clicks < MaxClicks /\ clicks' = clicks + 1
  \/ Browser /\ UNCHANGED clicks

Spec == Init /\ [][Next]_vars

\* Every request ends, be it with an error or without a word; timers fire.
FairSpec ==
  /\ Spec /\ WF_vars(SaveTimer /\ UNCHANGED clicks)
  /\ \A r \in 1 .. MaxReq : WF_vars(~crashed /\ RequestEnds(r) /\ UNCHANGED clicks)

-----------------------------------------------------------------------------
(* Properties.                                                             *)

MessageType ==
  [id : Nat, role : {"user", "assistant", "system"},
   st : {"none", "loading", "incomplete", "complete", "error"},
   text : SUBSET (0 .. MaxReq), req : 0 .. MaxReq]

\* The variables keep their types; sseSourceRef has a stream, which can be closed, and never
\* a fetch.
TypeOK ==
  /\ msgs \in Seq(MessageType) /\ stored \in Seq(MessageType)
  /\ \A i \in DOMAIN saves : saves[i] \in Seq(MessageType)
  /\ timers \in Seq({"send", "regen", "default"}) /\ bare \in BOOLEAN /\ fresh \in BOOLEAN
  /\ net \in Seq([kind : ReqKinds, open : BOOLEAN]) /\ Len(net) <= MaxReq
  /\ sseRef \in {0} \union {r \in DOMAIN net : net[r].kind = "sse"} /\ nextId \in Nat \ {0}
  /\ editing \in [index : Nat, id : Nat]
  /\ clicks \in 0 .. MaxClicks /\ modal.type \in {"none", "delete", "edit"}
  /\ crashed \in BOOLEAN /\ unsaved \in BOOLEAN /\ odd \subseteq Oddities

\* A late event never changes an answer that is finished or was stopped, nor any message
\* but the last, nor the length of the list.  (A greeting has no status: it can be changed.)
LateEventsHarmless ==
  [][(\E r \in DOMAIN net : Network(r)) =>
       /\ Len(msgs') = Len(msgs)
       /\ \A i \in DOMAIN msgs : (i < Len(msgs) \/ Finished(msgs[i])) => msgs'[i] = msgs[i]]_vars

\* An answer holds the output of its own request only, unless a request was started while
\* another one was still under way, or a dialog was confirmed over a list that had changed or
\* was being generated.  A greeting answers no request, and takes the error of a stream whose
\* list is gone.
OwnTextOnly ==
  odd \intersect {"overlap", "stale"} # {} \/
  \A i \in DOMAIN msgs :
    msgs[i].role # "user" /\ msgs[i].req # 0 => msgs[i].text \subseteq {0, msgs[i].req}

\* With nothing under way a page that is loaded shows what the screen shows now, so that a
\* reload loses nothing, unless the last message was finished by a fetch or by the error of a
\* stream, localStorage refused the last list, the settings were reset and the messages kept,
\* or the default messages were shown over a list that is stored.
StoredWhenDone ==
  ~AnyGenerating /\ saves = << >> /\ timers = << >> /\ ~crashed /\ ~unsaved => stored = msgs

\* An updater throws only after the list was cleared or replaced with a request under way, a
\* stream that did not parse was left open, requests overlapped, or a dialog was confirmed
\* over a list that had changed or was being generated.
ThrowsOnlyWhenCleared == crashed => odd \ {"hollow", "cut"} # {}

\* An answer is finished in the end, unless its stream was cut off without an error event,
\* requests overlapped, the upstream sent an answer without choices, the list was cleared or
\* replaced, or a dialog brought an unfinished message back.
AnswerEnds == (LastGenerating /\ odd = {}) ~> (~LastGenerating \/ odd # {})
=============================================================================
