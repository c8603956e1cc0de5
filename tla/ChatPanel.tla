----------------------------- MODULE ChatPanel -----------------------------
(***************************************************************************)
(* The chat of app.js, and the chat_sessions and chat_messages behind it.  *)
(*                                                                         *)
(* The page is one thread: a handler runs to its next await, and whatever  *)
(* the user does meanwhile starts other handlers over the same state.  A   *)
(* handler here is a question that is asked, or a click on the list of     *)
(* chats or on a matter; while it waits, the server handles its request,   *)
(* and the reply it goes on with may be older than those of others.        *)
(***************************************************************************)
EXTENDS Naturals, FiniteSets, Sequences, Functions

CONSTANTS
  Questions,  \* questions, each asked at most once: bound on the history
  Clicks,     \* clicks that may be under way at once
  Chats,      \* chat ids: bound on the chats that are created
  None,       \* no chat
  MaxTurns,   \* how many recent questions go with the next one
  AtOnce,     \* how many handlers may be under way at once
  MaxClicks,  \* bound on the clicks of a history,
  MaxFailures,\* on the requests that fail on their own in it,
  MaxEvents   \* and on both together

ASSUME ChatAssumption == None \notin Chats /\ Questions \cap Clicks = {}
ASSUME BoundsAssumption == {MaxTurns, AtOnce} \subseteq Nat \ {0} 
                         /\ {MaxClicks, MaxFailures, MaxEvents} \subseteq Nat

Handlers == Questions \cup Clicks
Message == [of : Questions, role : {"user", "assistant", "error"}]

VARIABLES
  chats,   \* rows of chat_sessions
  born,    \* the ids that were ever given to a chat
  linked,  \* the chats created with the matter's id
  matter,  \* whether the matter exists
  log,     \* chat_messages of each chat
  open,    \* state.activeMatterId is the matter
  active,  \* state.activeChatSessionId
  listed,  \* state.chatSessions
  panel,   \* the questions, answers and errors of questions on the screen
  turns,   \* state.recentUserTurns
  busy,    \* sendButton.disabled
  pc,      \* what each handler waits for
  chat,    \* the chat its request is about
  tied,    \* whether the chat it creates is the matter's: "no", "yes", "checked"
  reply,   \* what the server answered it
  calm,    \* history: no handler has started while another one was under way,
           \* and no request has failed
  clicks,  \* how many clicks there were
  failures \* how many requests have failed on their own

server == <<chats, born, linked, matter, log>>
page == <<open, active, listed, panel, turns, busy>>
calls == <<pc, chat, tied, reply>>
bounds == <<clicks, failures>>
vars == <<chats, born, linked, matter, log, open, active, listed, panel, turns, busy,
          pc, chat, tied, reply, calm, clicks, failures>>

NoReply == [ok |-> FALSE, seen |-> FALSE, chat |-> None, list |-> {}, log |-> << >>]
Failed == [NoReply EXCEPT !.seen = TRUE]
Reply(c, s, m) == [ok |-> TRUE, seen |-> TRUE, chat |-> c, list |-> s, log |-> m]

Creating == {"create", "createAnswer", "createError", "new"}
Posting == {"ask", "answer", "error"}
UnderWay == {h \in Handlers : pc[h] \notin {"idle", "done"}}
Quiet == UnderWay = {}

Init ==
  /\ chats = {} /\ born = {} /\ linked = {}
  /\ matter \in BOOLEAN
  /\ log = [c \in Chats |-> << >>]
  /\ open = matter
  /\ active = None /\ listed = {} /\ panel = {} /\ turns = << >> /\ busy = FALSE
  /\ pc = [h \in Handlers |-> "idle"]
  /\ chat = [h \in Handlers |-> None]
  /\ tied = [h \in Handlers |-> "no"]
  /\ reply = [h \in Handlers |-> NoReply]
  /\ calm = TRUE /\ clicks = 0 /\ failures = 0

-----------------------------------------------------------------------------
(* The server.                                                             *)

Waits(h, p) == pc[h] \in p /\ ~reply[h].seen
Answer(h, r) == reply' = [reply EXCEPT ![h] = r] /\ UNCHANGED <<pc, chat>>

\* api_create_chat_session looks the matter up before it inserts the chat.
CheckMatter(h) ==
  /\ Waits(h, Creating)
  /\ tied[h] = "yes"
  /\ IF matter THEN tied' = [tied EXCEPT ![h] = "checked"] /\ UNCHANGED <<pc, chat, reply, calm>>
               ELSE Answer(h, Failed) /\ calm' = FALSE /\ UNCHANGED tied
  /\ UNCHANGED <<server, page, bounds>>

CreateChat(h) ==
  /\ Waits(h, Creating)
  /\ tied[h] # "yes"
  /\ born # Chats
  /\ LET c == CHOOSE new \in Chats \ born : TRUE IN
       /\ chats' = chats \cup {c}
       /\ born' = born \cup {c}
       /\ linked' = IF tied[h] = "checked" THEN linked \cup {c} ELSE linked
       /\ Answer(h, Reply(c, chats', << >>))
  /\ UNCHANGED <<matter, log, page, tied, calm, bounds>>

\* Mutant: the message is stored whether or not its chat is there.
AddMessageAnyway(h, m) ==
  /\ log' = [log EXCEPT ![chat[h]] = Append(@, m)]
  /\ Answer(h, Reply(chat[h], chats, << >>))
  /\ UNCHANGED calm

\* add_chat_message: "Chat non trovata" without its session.
AddMessage(h, m) ==
  IF chat[h] \in chats
    THEN /\ log' = [log EXCEPT ![chat[h]] = Append(@, m)]
         /\ Answer(h, Reply(chat[h], chats, << >>))
         /\ UNCHANGED calm
    ELSE Answer(h, Failed) /\ calm' = FALSE /\ UNCHANGED log

PostMessage(q) ==
  /\ Waits(q, Posting)
  /\ AddMessage(q, [of |-> q, role |-> CASE pc[q] = "ask" -> "user"
                                         [] pc[q] = "answer" -> "assistant"
                                         [] pc[q] = "error" -> "error"])
  /\ UNCHANGED <<chats, born, linked, matter, page, tied, bounds>>

GetChat(k) ==
  /\ Waits(k, {"load"})
  /\ IF chat[k] \in chats
       THEN Answer(k, Reply(chat[k], {}, log[chat[k]])) /\ UNCHANGED calm
       ELSE Answer(k, Failed) /\ calm' = FALSE
  /\ UNCHANGED <<server, page, tied, bounds>>

\* The foreign key takes the messages of the deleted chats with them.
Drop(s) ==
  /\ chats' = chats \ s
  /\ log' = [c \in Chats |-> IF c \in s THEN << >> ELSE log[c]]

DeleteChat(k) ==
  /\ Waits(k, {"delete"})
  /\ IF chat[k] \in chats
       THEN /\ Drop({chat[k]})
            /\ Answer(k, Reply(chat[k], chats', << >>))
            /\ UNCHANGED calm
       ELSE Answer(k, Failed) /\ calm' = FALSE /\ UNCHANGED <<chats, log>>
  /\ UNCHANGED <<born, linked, matter, page, tied, bounds>>

DeleteMatter(k) ==
  /\ Waits(k, {"matter"})
  /\ IF matter
       THEN Drop(linked) /\ Answer(k, Reply(None, {}, << >>)) /\ UNCHANGED calm
       ELSE Answer(k, Failed) /\ calm' = FALSE /\ UNCHANGED <<chats, log>>
  /\ matter' = FALSE
  /\ UNCHANGED <<born, linked, page, tied, bounds>>

ListChats(k) ==
  /\ Waits(k, {"list"})
  /\ Answer(k, Reply(None, chats, << >>))
  /\ UNCHANGED <<server, page, tied, calm, bounds>>

OneMoreFailure ==
  /\ failures < MaxFailures /\ clicks + failures < MaxEvents
  /\ failures' = failures + 1

\* The database is locked or the connection is lost; or, a limit of the model,
\* no id is left in Chats.
RequestFails(h) ==
  /\ Waits(h, Creating \cup Posting \cup {"load", "delete", "matter", "list"})
  /\ \/ OneMoreFailure
     \/ pc[h] \in Creating /\ born = Chats /\ UNCHANGED failures
  /\ Answer(h, Failed)
  /\ calm' = FALSE
  /\ UNCHANGED <<server, page, tied, clicks>>

Serve(h) ==
  \/ CheckMatter(h) \/ CreateChat(h) \/ (h \in Questions /\ PostMessage(h))
  \/ GetChat(h) \/ DeleteChat(h) \/ DeleteMatter(h) \/ ListChats(h) \/ RequestFails(h)

-----------------------------------------------------------------------------
(* The page: handlers between two awaits.                                  *)

Back(h, p) == pc[h] \in p /\ reply[h].seen
Ok(h) == reply[h].ok

Send(h, p, c, t) ==
  /\ pc' = [pc EXCEPT ![h] = p]
  /\ chat' = [chat EXCEPT ![h] = c]
  /\ tied' = [tied EXCEPT ![h] = t]
  /\ reply' = [reply EXCEPT ![h] = NoReply]
Create(h, p) == Send(h, p, None, IF open THEN "yes" ELSE "no")
End(h) == Send(h, IF h \in Questions THEN "done" ELSE "idle", None, "no")

Says(q, r) == [of |-> q, role |-> r]

\* slice(-6)
Recent(s) == IF Len(s) > MaxTurns THEN SubSeq(s, Len(s) - MaxTurns + 1, Len(s)) ELSE s

\* Mutant: each message opens a chat.
AlwaysCreate(q, p, created) == Create(q, created)

\* ensureChatSession: the open chat, if the list knows it, or else a new one.
EnsureChat(q, p, created) ==
  IF active \in listed THEN Send(q, p, active, "no") ELSE Create(q, created)

Start(h) ==
  /\ Cardinality(UnderWay) < AtOnce
  /\ calm' = (calm /\ Quiet)
StartClick(k) ==
  /\ pc[k] = "idle"
  /\ clicks < MaxClicks /\ clicks + failures < MaxEvents
  /\ clicks' = clicks + 1
  /\ Start(k)

\* The submit handler.  The button is disabled later, when the stream starts.
Submit(q) ==
  /\ pc[q] = "idle"
  /\ q = CHOOSE next \in Questions : pc[next] = "idle"
  /\ ~busy
  /\ Start(q)
  /\ EnsureChat(q, "ask", "create")
  /\ panel' = IF active \in listed THEN panel \cup {Says(q, "user")} ELSE panel
  /\ UNCHANGED <<server, open, active, listed, turns, busy, bounds>>

\* Mutant: the recent questions of the chat before are kept.
AdoptKeepingTurns(h, shown) ==
  /\ listed' = reply[h].list
  /\ active' = reply[h].chat
  /\ panel' = shown
  /\ UNCHANGED <<turns, open, busy>>

\* createChatSession selects its chat, which empties the screen.
Adopt(h, shown) ==
  /\ listed' = reply[h].list
  /\ active' = reply[h].chat
  /\ panel' = shown
  /\ turns' = << >>
  /\ UNCHANGED <<open, busy>>

\* The question is shown before it is posted.
Created(q) ==
  /\ Back(q, {"create"}) /\ Ok(q)
  /\ Adopt(q, {Says(q, "user")})
  /\ Send(q, "ask", reply[q].chat, "no")
  /\ UNCHANGED <<server, calm, bounds>>

\* Nothing catches what is thrown before the stream starts.
NotAsked(q) ==
  /\ Back(q, {"create", "ask"}) /\ ~Ok(q)
  /\ End(q)
  /\ UNCHANGED <<server, page, calm, bounds>>

\* Mutant: the stream starts although the question was not stored.
AskedAnyway(q) ==
  /\ Back(q, {"ask"})
  /\ listed' = reply[q].list
  /\ turns' = Recent(Append(turns, q))
  /\ busy' = TRUE
  /\ Send(q, "stream", None, "no")
  /\ UNCHANGED <<server, open, active, panel, calm, bounds>>

Asked(q) ==
  /\ Back(q, {"ask"}) /\ Ok(q)
  /\ listed' = reply[q].list
  /\ turns' = Recent(Append(turns, q))
  /\ busy' = TRUE
  /\ Send(q, "stream", None, "no")
  /\ UNCHANGED <<server, open, active, panel, calm, bounds>>

\* A message is shown in, and posted to, the chat that is open by now.
Tell(q, r, p, created) ==
  /\ EnsureChat(q, p, created)
  /\ panel' = panel \cup {Says(q, r)}
  /\ UNCHANGED <<open, active, listed, turns, busy>>
Complain(q) == Tell(q, "error", "error", "createError")

StreamEnds(q) ==
  /\ pc[q] = "stream"
  /\ \/ Tell(q, "assistant", "answer", "createAnswer")
     \/ Complain(q)
  /\ UNCHANGED <<server, calm, bounds>>

\* ensureChatSession had to create a chat: what was just shown is gone.
CreatedLate(q) ==
  /\ Back(q, {"createAnswer", "createError"}) /\ Ok(q)
  /\ Adopt(q, {})
  /\ Send(q, IF pc[q] = "createAnswer" THEN "answer" ELSE "error", reply[q].chat, "no")
  /\ UNCHANGED <<server, calm, bounds>>

Stored(q) ==
  /\ Back(q, {"answer"}) /\ Ok(q)
  /\ listed' = reply[q].list
  /\ Send(q, "refresh", None, "no")
  /\ UNCHANGED <<server, open, active, panel, turns, busy, calm, bounds>>

\* maybeCreateArtifactFromChat and refreshMatterContext; what throws from the
\* stream on ends in an error message, after the answer too.
Refreshed(q) ==
  /\ pc[q] = "refresh"
  /\ End(q)
  /\ busy' = FALSE
  /\ UNCHANGED <<server, open, active, listed, panel, turns, calm, bounds>>

NotStored(q) ==
  /\ \/ Back(q, {"answer", "createAnswer"}) /\ ~Ok(q) /\ UNCHANGED failures
     \/ pc[q] = "refresh" /\ (OneMoreFailure \/ (open /\ ~matter /\ UNCHANGED failures))
  /\ Complain(q)
  /\ calm' = FALSE
  /\ UNCHANGED <<server, clicks>>

\* Mutant: the button comes back only when the error is stored.
StuckWithError(q) ==
  /\ Back(q, {"error", "createError"})
  /\ Ok(q) => pc[q] = "error"
  /\ listed' = IF Ok(q) THEN reply[q].list ELSE listed
  /\ busy' = IF Ok(q) THEN FALSE ELSE busy
  /\ End(q)
  /\ UNCHANGED <<server, open, active, panel, turns, calm, bounds>>

\* finally: whatever became of the error message, the button comes back.
ErrorTold(q) ==
  /\ Back(q, {"error", "createError"})
  /\ Ok(q) => pc[q] = "error"
  /\ listed' = IF Ok(q) THEN reply[q].list ELSE listed
  /\ busy' = FALSE
  /\ End(q)
  /\ UNCHANGED <<server, open, active, panel, turns, calm, bounds>>

Handle(q) ==
  \/ Created(q) \/ NotAsked(q) \/ Asked(q) \/ StreamEnds(q) \/ CreatedLate(q)
  \/ Stored(q) \/ Refreshed(q) \/ NotStored(q) \/ ErrorTold(q)

-----------------------------------------------------------------------------
(* The page: clicks.                                                       *)

NewChat(k) ==
  /\ StartClick(k)
  /\ Create(k, "new")
  /\ UNCHANGED <<server, page, failures>>

\* A chat of the list, or one that the search page has found.
OpenChat(k, c) ==
  /\ StartClick(k)
  /\ c \in listed \cup chats
  /\ Send(k, "load", c, "no")
  /\ UNCHANGED <<server, page, failures>>

CloseChat(k, c) ==
  /\ StartClick(k)
  /\ c \in listed
  /\ Send(k, "delete", c, "no")
  /\ UNCHANGED <<server, page, failures>>

CloseMatter(k) ==
  /\ StartClick(k)
  /\ open
  /\ Send(k, "matter", None, "no")
  /\ UNCHANGED <<server, page, failures>>

NewChatMade(k) ==
  /\ Back(k, {"new"}) /\ Ok(k)
  /\ Adopt(k, {})
  /\ End(k)
  /\ UNCHANGED <<server, calm, bounds>>

\* filter(message => message.role === "user").map(...): where the questions of a
\* log are, which one is the k-th of them, and what they are in their order.
AskedAt(s) == {i \in DOMAIN s : s[i].role = "user"}
KthAsked(s, k) == {i \in AskedAt(s) : Cardinality({j \in AskedAt(s) : j <= i}) = k}
Asks(s) == [k \in 1..Cardinality(AskedAt(s)) |-> s[CHOOSE i \in KthAsked(s, k) : TRUE].of]

\* Mutant: the messages are added to those on the screen.
ChatOpenedBelow(k) ==
  /\ Back(k, {"load"}) /\ Ok(k)
  /\ active' = reply[k].chat
  /\ panel' = panel \cup Range(reply[k].log)
  /\ turns' = Recent(Asks(reply[k].log))
  /\ End(k)
  /\ UNCHANGED <<server, open, listed, busy, calm, bounds>>

\* loadChatSession: the chat that was asked for becomes the open one.
ChatOpened(k) ==
  /\ Back(k, {"load"}) /\ Ok(k)
  /\ active' = reply[k].chat
  /\ panel' = Range(reply[k].log)
  /\ turns' = Recent(Asks(reply[k].log))
  /\ End(k)
  /\ UNCHANGED <<server, open, listed, busy, calm, bounds>>

ChatClosed(k) ==
  /\ Back(k, {"delete"}) /\ Ok(k)
  /\ listed' = reply[k].list
  /\ IF active = chat[k]
       THEN active' = None /\ panel' = {} /\ turns' = << >>
       ELSE UNCHANGED <<active, panel, turns>>
  /\ End(k)
  /\ UNCHANGED <<server, open, busy, calm, bounds>>

\* deletePageMatter reads the list of chats again.
MatterClosed(k) ==
  /\ Back(k, {"matter"}) /\ Ok(k)
  /\ Send(k, "list", None, "no")
  /\ UNCHANGED <<server, page, calm, bounds>>

\* The matter was the active one: no chat is open, whatever the screen shows.
ChatsListed(k) ==
  /\ Back(k, {"list"}) /\ Ok(k)
  /\ listed' = reply[k].list
  /\ open' = FALSE
  /\ active' = IF open THEN None ELSE active
  /\ End(k)
  /\ UNCHANGED <<server, panel, turns, busy, calm, bounds>>

ClickFails(k) ==
  /\ Back(k, {"new", "load", "delete", "matter", "list"}) /\ ~Ok(k)
  /\ End(k)
  /\ UNCHANGED <<server, page, calm, bounds>>

Click(k) ==
  \/ NewChat(k) \/ CloseMatter(k) \/ \E c \in Chats : OpenChat(k, c) \/ CloseChat(k, c)
Clicked(k) ==
  \/ NewChatMade(k) \/ ChatOpened(k) \/ ChatClosed(k) \/ MatterClosed(k)
  \/ ChatsListed(k) \/ ClickFails(k)

-----------------------------------------------------------------------------
Go(h) ==
  \/ Serve(h)
  \/ h \in Questions /\ Handle(h)
  \/ h \in Clicks /\ Clicked(h)

Next ==
  \/ \E q \in Questions : Submit(q) \/ Handle(q)
  \/ \E k \in Clicks : Click(k) \/ Clicked(k)
  \/ \E h \in Handlers : Serve(h)

(***************************************************************************)
(* While some handler can go on, one of them does: requests are answered,  *)
(* the stream ends (AnswerStream) and the event loop runs what is due.  As *)
(* none of them loops, this is enough.  The user need not do anything.     *)
(***************************************************************************)
Spec == Init /\ [][Next]_vars /\ WF_vars(\E h \in Handlers : Go(h))

-----------------------------------------------------------------------------
(* Properties.                                                             *)

MessagesOK(s) == \A i \in DOMAIN s : s[i] \in Message

\* Each part of the page and of the tables has the values the code gives it.
TypeOK ==
  /\ chats \subseteq born /\ born \subseteq Chats /\ linked \subseteq born
  /\ matter \in BOOLEAN /\ open \in BOOLEAN /\ busy \in BOOLEAN /\ calm \in BOOLEAN
  /\ DOMAIN log = Chats /\ \A c \in Chats : MessagesOK(log[c])
  /\ active \in Chats \cup {None}
  /\ listed \subseteq Chats
  /\ panel \subseteq Message
  /\ Len(turns) <= MaxTurns /\ \A i \in DOMAIN turns : turns[i] \in Questions
  /\ \A q \in Questions : pc[q] \in {"idle", "create", "ask", "stream", "createAnswer", "answer",
                                     "refresh", "createError", "error", "done"}
  /\ \A k \in Clicks : pc[k] \in {"idle", "new", "load", "delete", "matter", "list"}
  /\ \A h \in Handlers : chat[h] \in Chats \cup {None} /\ tied[h] \in {"no", "yes", "checked"}

\* While the user does one thing at a time and nothing fails, the screen shows
\* the messages of the open chat, and no other, however it came to be open.
PanelIsChat == calm /\ Quiet /\ active # None => active \in chats /\ panel = Range(log[active])

\* And the recent questions that go with the next one are those of that chat.
TurnsAreOfChat == calm /\ Quiet /\ active # None => turns = Recent(Asks(log[active]))

Holding(q, r) == {c \in chats : \E i \in DOMAIN log[c] : log[c][i] = Says(q, r)}

\* And an answer is kept in the chat of its question.
FiledTogether ==
  calm => \A q \in Questions : Holding(q, "assistant") # {} =>
            Holding(q, "assistant") = Holding(q, "user")

\* Whatever overlaps or fails: no answer is kept of a question that was never
\* stored, and neither is stored twice.
AnswersHaveQuestions ==
  \A q \in Questions :
    /\ Holding(q, "assistant") \cup Holding(q, "error") # {} =>
         Holding(q, "user") # {} \/ chats # born
    /\ \A r \in {"user", "assistant"} : \A c, d \in Holding(q, r) : c = d

\* A chat that is deleted keeps no message, not even one on its way; and when
\* the user waited for one thing after another, none of the matter's is left.
DeletedIsGone ==
  /\ \A c \in Chats \ chats : log[c] = << >>
  /\ calm /\ ~matter => linked \cap chats = {}

\* The button comes back, whatever fails.
SendComesBack == busy ~> ~busy
=============================================================================
