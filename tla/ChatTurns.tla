----------------------------- MODULE ChatTurns -----------------------------
(***************************************************************************)
(* Turns of a conversation: POST /chat/chat, the chat web socket, which    *)
(* runs the same handler in one database session for as long as it is      *)
(* open, and POST /chat/chat/stream, which commits every message.          *)
(*                                                                         *)
(* The first statement of a turn that changes the database updates the     *)
(* row of the conversation, so that PostgreSQL makes every other writer of *)
(* the conversation wait until the transaction of the turn has ended.      *)
(***************************************************************************)
EXTENDS Naturals, Sequences, FiniteSetsExt, Subsequences

CONSTANTS
    Convs, Docs,
    Requests, Sockets, Streams,  \* the database sessions of the three routes
    HistoryLimit, PromptLimit,   \* messages read, and offered to the prompt
    MaxMessages                  \* bound on the messages of a conversation

Sessions == Requests \cup Sockets \cup Streams

ASSUME ChatAssumption ==
    /\ HistoryLimit \in Nat \ {0} /\ PromptLimit \in Nat /\ MaxMessages \in Nat
    /\ Requests \cap Sockets = {} /\ Streams \cap (Requests \cup Sockets) = {}
    /\ Docs \cap {"unset", "none", "same"} = {} /\ "free" \notin Sessions

VARIABLES
    live,       \* committed rows of conversations
    messages,   \* by conversation, in the order of created_at, uncommitted ones included
    selection,  \* document_ids in the committed conversation_metadata
    lock,       \* holder of the lock on the row
    turn        \* the turn of each session

chatVars == <<live, messages, selection, lock, turn>>

Selected == Docs \cup {"unset", "none"}
Message == [by : Sessions, role : {"user", "assistant"}, stored : BOOLEAN]

NoTurn(c) == [at |-> "idle", conv |-> c, docs |-> "none", save |-> "same",
              fresh |-> FALSE, offered |-> {}, prompt |-> {}]

ChatTypeOK ==
    /\ live \subseteq Convs
    /\ messages \in [Convs -> Seq(Message)]
    /\ selection \in [Convs -> Selected]
    /\ lock \in [Convs -> Sessions \cup {"free"}]
    /\ turn \in [Sessions ->
         [at : {"idle", "begun", "asked", "prompted", "answered", "stamped",
                "saved", "answering"},
          conv : Convs, docs : Docs \cup {"none"},
          save : Docs \cup {"none", "same"}, fresh : BOOLEAN,
          offered : SUBSET (1..HistoryLimit),   \* places of messages seen
          prompt : SUBSET (1..HistoryLimit)]]
    /\ \A c \in Convs : lock[c] # "free" =>
         turn[lock[c]].at # "idle" /\ turn[lock[c]].conv = c

ChatInit ==
    /\ live = {} /\ messages = [c \in Convs |-> <<>>]
    /\ selection = [c \in Convs |-> "unset"] /\ lock = [c \in Convs |-> "free"]
    /\ turn \in [Sessions -> {NoTurn(c) : c \in Convs}]

-----------------------------------------------------------------------------
At(s, place) == turn[s].at = place

\* A conversation whose row nobody has inserted.
Unused(c) ==
    /\ c \notin live /\ messages[c] = <<>>
    /\ \A s \in Sessions : ~(turn[s].fresh /\ turn[s].conv = c)

Visible(s, c) == Kept(messages[c], {m \in Message : m.stored \/ m.by = s})

Unsaved(s, role) == [by |-> s, role |-> role, stored |-> FALSE]

Saved(s, log) == [i \in DOMAIN log |->
                    IF log[i].by = s THEN [log[i] EXCEPT !.stored = TRUE] ELSE log[i]]

Dropped(s, log) == Kept(log, {m \in Message : m.stored \/ m.by # s})

\* POST /conversations.
CreateConversation(c) ==
    /\ Unused(c) /\ live' = live \cup {c}
    /\ selection' = [selection EXCEPT ![c] = "unset"]
    /\ UNCHANGED <<messages, lock, turn>>

\* No document is selected in the request or in the row: all that the user may
\* see are searched.
Used(docs, row) == IF docs = "none" /\ row # "unset" THEN row ELSE docs

\* What the session reads in the row.
InRow(s, c) == IF turn[s].save # "same" THEN turn[s].save ELSE selection[c]

\* The metadata read from the row is changed in place: only where there was
\* none yet is a new dictionary assigned, and the column written.
Saves(s, c, docs) ==
    IF InRow(s, c) = "unset" THEN docs ELSE turn[s].save

\* A question in an existing conversation, with the documents selected for it,
\* or "none".  A socket asks again with what its session has not committed.
Begin(s, c, docs) ==
    /\ s \in Requests \cup Sockets /\ c \in live
    /\ At(s, "idle") \/ (s \in Sockets /\ At(s, "answered") /\ turn[s].conv = c)
    /\ Len(messages[c]) < MaxMessages
    /\ turn' = [turn EXCEPT ![s] =
         [@ EXCEPT !.at = "begun", !.conv = c, !.fresh = FALSE,
                   !.offered = {}, !.prompt = {},
                   !.docs = Used(docs, InRow(s, c)),
                   !.save = Saves(s, c, docs)]]
    /\ UNCHANGED <<live, messages, selection, lock>>

\* A question without a conversation inserts one.
BeginNew(s, c, docs) ==
    /\ s \in Requests /\ At(s, "idle") /\ Unused(c)
    /\ turn' = [turn EXCEPT ![s] =
         [@ EXCEPT !.at = "begun", !.conv = c, !.fresh = TRUE,
                   !.offered = {}, !.prompt = {}, !.docs = docs, !.save = docs]]
    /\ UNCHANGED <<live, messages, selection, lock>>

\* Mutant: updated_at is left to the database, no row is locked.
AskUnlocked(s, c) ==
    /\ At(s, "begun") /\ turn[s].conv = c
    /\ c \in live \/ turn[s].fresh
    /\ messages' = [messages EXCEPT ![c] = Append(@, Unsaved(s, "user"))]
    /\ turn' = [turn EXCEPT ![s].at = "asked"]
    /\ UNCHANGED <<live, selection, lock>>

\* Mutant: the question is committed before the model is asked.
AskCommitted(s, c) ==
    /\ At(s, "begun") /\ turn[s].conv = c
    /\ c \in live /\ lock[c] \in {"free", s}
    /\ messages' = [messages EXCEPT ![c] =
                      Append(@, [Unsaved(s, "user") EXCEPT !.stored = TRUE])]
    /\ turn' = [turn EXCEPT ![s].at = "asked"]
    /\ UNCHANGED <<live, selection, lock>>

\* The flush: the row is updated, for which the turn waits, then the question
\* inserted.
Ask(s, c) ==
    /\ At(s, "begun") /\ turn[s].conv = c
    /\ c \in live \/ turn[s].fresh
    /\ lock[c] \in {"free", s} /\ lock' = [lock EXCEPT ![c] = s]
    /\ messages' = [messages EXCEPT ![c] = Append(@, Unsaved(s, "user"))]
    /\ turn' = [turn EXCEPT ![s].at = "asked"]
    /\ UNCHANGED <<live, selection>>

\* Of n messages visible the first HistoryLimit are read; of these the last is
\* taken for the question itself, and the PromptLimit before it are offered.
Offered(n) ==
    LET read == Min({n, HistoryLimit}) - 1 IN
        {i \in 1..read : i + PromptLimit > read}

\* Beside documents no history is included; otherwise from the oldest on as
\* many messages as the budget has room for.
Fitting(places) == {{i \in places : i <= j} : j \in {0} \cup places}

\* Counts, statistics and lists of related documents need no prompt.
ReadHistory(s, c) ==
    /\ At(s, "asked") /\ turn[s].conv = c
    /\ LET places == Offered(Len(Visible(s, c))) IN
         \E kept \in Fitting(places) :
           turn' = [turn EXCEPT ![s] =
             [@ EXCEPT !.at = "prompted", !.offered = places, !.prompt = kept]]
    /\ UNCHANGED <<live, messages, selection, lock>>

\* The model's answer, or the text that stands for it, is flushed and returned
\* to the client: before the transaction is committed.
Answer(s, c) ==
    /\ turn[s].at \in {"asked", "prompted"} /\ turn[s].conv = c
    /\ messages' = [messages EXCEPT ![c] = Append(@, Unsaved(s, "assistant"))]
    /\ turn' = [turn EXCEPT ![s].at = "answered"]
    /\ UNCHANGED <<live, selection, lock>>

Released(s) == [c \in Convs |-> IF lock[c] = s THEN "free" ELSE lock[c]]

\* The request has been answered, or the client has closed the socket, however
\* many turns it has had.
Commit(s, c) ==
    /\ At(s, "answered") /\ turn[s].conv = c
    /\ live' = live \cup {c}
    /\ messages' = [messages EXCEPT ![c] = Saved(s, @)]
    /\ selection' = [selection EXCEPT ![c] =
                       IF turn[s].save = "same" THEN @ ELSE turn[s].save]
    /\ lock' = Released(s)
    /\ turn' = [turn EXCEPT ![s] = NoTurn(c)]

\* Mutant: the session is not closed.
RollBackHeld(s, c) ==
    /\ ~At(s, "idle") /\ turn[s].conv = c
    /\ messages' = [messages EXCEPT ![c] = Dropped(s, @)]
    /\ turn' = [turn EXCEPT ![s] = NoTurn(c)]
    /\ UNCHANGED <<live, selection, lock>>

\* A statement fails, also after it has waited for the row, the socket breaks
\* during a turn or the server stops.  A socket whose
\* session has failed answers with errors until the client opens another.
RollBack(s, c) ==
    /\ ~At(s, "idle") /\ turn[s].conv = c
    /\ messages' = [messages EXCEPT ![c] = Dropped(s, @)]
    /\ lock' = Released(s)
    /\ turn' = [turn EXCEPT ![s] = NoTurn(c)]
    /\ UNCHANGED <<live, selection>>

-----------------------------------------------------------------------------
(* The stream                                                              *)

\* create_conversation commits the row.
StreamCreate(c, docs) ==
    /\ Streams # {} /\ Unused(c) /\ live' = live \cup {c}
    /\ selection' = [selection EXCEPT ![c] = docs]
    /\ UNCHANGED <<messages, lock, turn>>

\* A message gets its created_at before it waits for the row.
Stamp(s, c) ==
    /\ s \in Streams /\ c \in live
    /\ \/ At(s, "idle") /\ Len(messages[c]) < MaxMessages
       \/ At(s, "saved") /\ turn[s].conv = c
    /\ messages' = [messages EXCEPT ![c] =
         Append(@, Unsaved(s, IF At(s, "idle") THEN "user" ELSE "assistant"))]
    /\ turn' = [turn EXCEPT ![s] =
         [turn[s] EXCEPT !.at = IF @ = "idle" THEN "stamped" ELSE "answering",
                         !.conv = c]]
    /\ UNCHANGED <<live, selection, lock>>

\* add_message: the row is updated, the message inserted and both committed.
AddMessage(s, c) ==
    /\ turn[s].at \in {"stamped", "answering"} /\ turn[s].conv = c
    /\ c \in live /\ lock[c] = "free"
    /\ messages' = [messages EXCEPT ![c] = Saved(s, @)]
    /\ turn' = [turn EXCEPT ![s] =
         IF At(s, "stamped") THEN [@ EXCEPT !.at = "saved"] ELSE NoTurn(c)]
    /\ UNCHANGED <<live, selection, lock>>

TurnStep(s, c) ==
    \/ \E docs \in Docs \cup {"none"} : Begin(s, c, docs) \/ BeginNew(s, c, docs)
    \/ Ask(s, c) \/ ReadHistory(s, c) \/ Answer(s, c) \/ Commit(s, c)
    \/ RollBack(s, c) \/ Stamp(s, c) \/ AddMessage(s, c)

ChatNext ==
    \E c \in Convs :
        \/ CreateConversation(c)
        \/ \E docs \in Docs \cup {"none"} : StreamCreate(c, docs)
        \/ \E s \in Sessions : TurnStep(s, c)

-----------------------------------------------------------------------------
(* Safety                                                                  *)

\* Of the messages of c that s sees, the place of the question it asks.
QuestionAt(s, c) ==
    Max({i \in DOMAIN Visible(s, c) :
           Visible(s, c)[i].by = s /\ Visible(s, c)[i].role = "user"})

\* What reaches a prompt was said before the question, and never is the
\* question itself; and while the query reads the whole conversation, what is
\* offered ends with the message before the question.  The last message read
\* might be another's if two turns of a conversation could overlap.  (A stream
\* has no prompt: async_conversation_service.py:633 names a variable that is not
\* there, and the exception becomes the answer.)
PromptIsWhatCameBefore ==
    \A s \in Sessions : At(s, "prompted") =>
        LET q == QuestionAt(s, turn[s].conv) IN
            /\ turn[s].prompt \subseteq 1..(q - 1)
            /\ q <= HistoryLimit =>
                 turn[s].offered = {i \in 1..(q - 1) : i + PromptLimit >= q}

Unstreamed(c) == Kept(messages[c], {m \in Message : m.by \notin Streams})

\* In the order in which a conversation is shown every answer follows its own
\* question: a turn waits for the one before, although each stamps its
\* messages itself.  Only messages of a stream may stand between the two.
AnswersFollowQuestions ==
    \A c \in Convs : LET log == Unstreamed(c) IN
        \A i \in DOMAIN log : log[i].role = "assistant" =>
            i > 1 /\ log[i - 1] = [log[i] EXCEPT !.role = "user"]

\* Of requests and sockets, whatever fails, a stored question has its answer.
\* A stream commits its question alone, and it stays alone when the model
\* fails or the documents in scope are none.
StoredTurnsAreWhole ==
    \A c \in Convs : LET log == Unstreamed(c) IN
        \A i \in DOMAIN log : log[i].role = "user" /\ log[i].stored =>
            i < Len(log) /\ log[i + 1] = [log[i] EXCEPT !.role = "assistant"]

\* The documents a turn has used are the ones selected in the conversation
\* when it is committed.
SelectionKept ==
    [][\A s \in Sessions, c \in Convs :
         Commit(s, c) => selection'[c] = turn[s].docs]_chatVars

\* docs/CHAT_USER_GUIDE.md:234: "The AI remembers the last 6 messages in your
\* current conversation."  Leaving aside what documents and the budget keep out
\* of the prompt, the messages just before the question are at least offered.
LastMessagesRemembered ==
    \A s \in Sessions : At(s, "prompted") =>
        LET q == QuestionAt(s, turn[s].conv) IN
            {i \in 1..(q - 1) : i + 6 >= q} \subseteq turn[s].offered
=============================================================================
