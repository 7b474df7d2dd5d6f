------------------------- MODULE ChatHistoryProofs -------------------------
(***************************************************************************)
(* Theorems about ChatTurns and ChatHistory, for any conversations and any *)
(* number of requests, sockets and streams.                                *)
(*                                                                         *)
(* What carries them is the lock on the row: of the messages of requests   *)
(* and sockets only those of its holder are not stored, they are the last, *)
(* and without them the conversation is a sequence of whole turns.         *)
(***************************************************************************)
EXTENDS ChatHistory, SubsequenceLemmas, FiniteSetTheorems, TLAPS

-----------------------------------------------------------------------------
(* The invariant                                                           *)

Turn == [at : {"idle", "begun", "asked", "prompted", "answered", "stamped",
               "saved", "answering"},
         conv : Convs, docs : Docs \cup {"none"},
         save : Docs \cup {"none", "same"}, fresh : BOOLEAN,
         offered : SUBSET (1..HistoryLimit), prompt : SUBSET (1..HistoryLimit)]

\* The messages a session sees, and those that no stream has written.
Seen(s, log) == Kept(log, {m \in Message : m.stored \/ m.by = s})
Talk(log) == Kept(log, {m \in Message : m.by \notin Streams})

Answered(question, answer) ==
    /\ question.role = "user" /\ answer.role = "assistant"
    /\ question.by = answer.by /\ (question.stored <=> answer.stored)

\* Every answer follows its question and every question but the last has its
\* answer; what is not stored comes last and is the holder's.  While the holder
\* asks, its question is the last message, otherwise an answer is.
Orderly(u, holder, asking) ==
    /\ \A i \in 1..Len(u) : u[i].role = "assistant" =>
         i > 1 /\ Answered(u[i - 1], u[i])
    /\ \A i \in 1..Len(u) : u[i].role = "user" /\ i < Len(u) =>
         Answered(u[i], u[i + 1])
    /\ \A i, j \in 1..Len(u) : i < j /\ u[j].stored => u[i].stored
    /\ \A i \in 1..Len(u) : ~u[i].stored => u[i].by = holder
    /\ asking => /\ Len(u) > 0 /\ u[Len(u)].role = "user"
                 /\ u[Len(u)].by = holder /\ ~u[Len(u)].stored
    /\ ~asking /\ Len(u) > 0 => u[Len(u)].role = "assistant"

Asking(c) == lock[c] # "free" /\ turn[lock[c]].at \in {"asked", "prompted"}

\* A turn holds the row from its question on, which is the last it sees.
SessionOK(s) ==
    LET c == turn[s].conv
        seen == Seen(s, messages[c])
    IN  /\ s \in Streams => turn[s].at \in {"idle", "stamped", "saved", "answering"}
        /\ s \notin Streams =>
             turn[s].at \in {"idle", "begun", "asked", "prompted", "answered"}
        /\ turn[s].at \in {"asked", "prompted", "answered"} => lock[c] = s
        /\ turn[s].at \in {"asked", "prompted"} =>
             Len(seen) > 0 /\ seen[Len(seen)] = Unsaved(s, "user")
        /\ At(s, "prompted") => /\ turn[s].offered = Offered(Len(seen))
                                /\ turn[s].prompt \subseteq turn[s].offered

\* The holder of a row is a turn in the conversation; of a conversation whose
\* row is not committed no message is.
ConvOK(c) ==
    /\ lock[c] # "free" =>
         lock[c] \notin Streams /\ ~At(lock[c], "idle") /\ turn[lock[c]].conv = c
    /\ Orderly(Talk(messages[c]), lock[c], Asking(c))
    /\ c \notin live => \A i \in 1..Len(messages[c]) : ~messages[c][i].stored

ChatTyped ==
    /\ live \subseteq Convs /\ messages \in [Convs -> Seq(Message)]
    /\ selection \in [Convs -> Selected]
    /\ lock \in [Convs -> Sessions \cup {"free"}] /\ turn \in [Sessions -> Turn]

ChatInv ==
    /\ ChatTyped
    /\ \A s \in Sessions : SessionOK(s)
    /\ \A c \in Convs : ConvOK(c)

\* A conversation without a committed row has no record.
RecordsOK ==
    /\ retention \in [Convs -> {"none", "plain", "pinned"}] /\ old \subseteq live
    /\ cleanup \in [at : {"idle", "selected", "loaded"}, chosen : SUBSET Convs,
                    loaded : [Convs -> Nat]]
    /\ \A c \in Convs \ live : retention[c] = "none"

HistoryInv == ChatInv /\ RecordsOK

-----------------------------------------------------------------------------
(* Logs                                                                    *)

LEMMA Visibly == \A s, c : Visible(s, c) = Seen(s, messages[c])
  BY DEF Visible, Seen

LEMMA Unstreamedly == \A c : Unstreamed(c) = Talk(messages[c])
  BY DEF Unstreamed, Talk

LEMMA KeptLogs ==
    ASSUME NEW log \in Seq(Message), NEW s
    PROVE  Talk(log) \in Seq(Message) /\ Seen(s, log) \in Seq(Message)
           /\ Dropped(s, log) \in Seq(Message)
  BY KeptInSeq DEF Talk, Seen, Dropped

\* None of what is said outside the streams is a stream's.
LEMMA TalkElements ==
    ASSUME NEW log \in Seq(Message), NEW i \in 1..Len(Talk(log))
    PROVE  Talk(log)[i] \in Message /\ Talk(log)[i].by \notin Streams
<1> DEFINE S == {m \in Message : m.by \notin Streams}
<1>1. Talk(log) \in Seq(Message \cap S)
  BY KeptInSeq DEF Talk
<1>2. Talk(log)[i] \in Message \cap S
  BY <1>1, ElementOfSeq
<1> QED
  BY <1>2

LEMMA Unsaving ==
    ASSUME NEW s \in Sessions, NEW role \in {"user", "assistant"}
    PROVE  /\ Unsaved(s, role) \in Message /\ Unsaved(s, role).by = s
           /\ Unsaved(s, role).role = role /\ ~Unsaved(s, role).stored
  BY DEF Unsaved, Message

LEMMA TalkAppend ==
    ASSUME NEW log \in Seq(Message), NEW m \in Message
    PROVE  Talk(Append(log, m)) =
             IF m.by \in Streams THEN Talk(log) ELSE Append(Talk(log), m)
  BY KeptAppend DEF Talk

LEMMA SeenAppend ==
    ASSUME NEW log \in Seq(Message), NEW m \in Message, NEW s
    PROVE  Seen(s, Append(log, m)) =
             IF m.stored \/ m.by = s THEN Append(Seen(s, log), m) ELSE Seen(s, log)
  BY KeptAppend DEF Seen

\* What one session drops no other sees.
LEMMA SeenDropped ==
    ASSUME NEW log \in Seq(Message), NEW s, NEW t, s # t
    PROVE  Seen(s, Dropped(t, log)) = Seen(s, log)
<1> DEFINE A == {m \in Message : m.stored \/ m.by # t}
           B == {m \in Message : m.stored \/ m.by = s}
<1>1. A \cap B = B
  OBVIOUS
<1>2. Kept(Kept(log, A), B) = Kept(log, A \cap B)
  BY KeptTwice
<1> QED
  BY <1>1, <1>2 DEF Seen, Dropped

LEMMA TalkDropped ==
    ASSUME NEW log \in Seq(Message), NEW s
    PROVE  Talk(Dropped(s, log)) = Dropped(s, Talk(log))
<1> DEFINE A == {m \in Message : m.stored \/ m.by # s}
           B == {m \in Message : m.by \notin Streams}
<1>1. Kept(Kept(log, A), B) = Kept(log, A \cap B)
  BY KeptTwice
<1>2. Kept(Kept(log, B), A) = Kept(log, B \cap A)
  BY KeptTwice
<1>3. A \cap B = B \cap A
  OBVIOUS
<1> QED
  BY <1>1, <1>2, <1>3 DEF Talk, Dropped

\* Who has left nothing uncommitted has nothing to drop.
LEMMA DroppedNothing ==
    ASSUME NEW u \in Seq(Message), NEW s,
           \A i \in 1..Len(u) : u[i].stored \/ u[i].by # s
    PROVE  Dropped(s, u) = u
<1> DEFINE A == {m \in Message : m.stored \/ m.by # s}
<1>1. Range(u) \subseteq A
  BY LenProperties, ElementOfSeq DEF Range
<1> QED
  BY <1>1, KeptAll DEF Dropped

-----------------------------------------------------------------------------
(* Saving                                                                  *)

SavedOne(s, m) == IF m.by = s THEN [m EXCEPT !.stored = TRUE] ELSE m

LEMMA SavedMessage ==
    ASSUME NEW s, NEW m \in Message
    PROVE  /\ SavedOne(s, m) \in Message
           /\ SavedOne(s, m).by = m.by /\ SavedOne(s, m).role = m.role
           /\ SavedOne(s, m).stored <=> m.stored \/ m.by = s
  BY DEF SavedOne, Message

LEMMA SavedLog ==
    ASSUME NEW s, NEW log \in Seq(Message)
    PROVE  /\ Saved(s, log) \in Seq(Message) /\ Len(Saved(s, log)) = Len(log)
           /\ \A i \in 1..Len(log) : Saved(s, log)[i] = SavedOne(s, log[i])
<1>1. Len(log) \in Nat /\ DOMAIN log = 1..Len(log)
  BY LenProperties
<1>2. Saved(s, log) = [i \in 1..Len(log) |-> SavedOne(s, log[i])]
  BY <1>1 DEF Saved, SavedOne
<1>3. \A i \in 1..Len(log) : SavedOne(s, log[i]) \in Message
  BY ElementOfSeq, SavedMessage
<1> QED
  BY <1>1, <1>2, <1>3

LEMMA SavedAppend ==
    ASSUME NEW s, NEW log \in Seq(Message), NEW m \in Message
    PROVE  Saved(s, Append(log, m)) = Append(Saved(s, log), SavedOne(s, m))
<1> DEFINE more == Append(log, m)
           n == Len(log)
<1>1. /\ more \in Seq(Message) /\ Len(more) = n + 1 /\ more[n + 1] = m /\ n \in Nat
      /\ \A i \in 1..n : more[i] = log[i]
  BY AppendProperties, LenProperties
<1> HIDE DEF more, n
<1>2. /\ Saved(s, more) \in Seq(Message) /\ Len(Saved(s, more)) = n + 1
      /\ \A i \in 1..n + 1 : Saved(s, more)[i] = SavedOne(s, more[i])
  BY <1>1, SavedLog
<1>3. /\ Saved(s, log) \in Seq(Message) /\ Len(Saved(s, log)) = n
      /\ \A i \in 1..n : Saved(s, log)[i] = SavedOne(s, log[i])
  BY SavedLog DEF n
<1>4. SavedOne(s, m) \in Message
  BY SavedMessage
<1> DEFINE right == Append(Saved(s, log), SavedOne(s, m))
<1>5. /\ right \in Seq(Message) /\ Len(right) = n + 1
      /\ right[n + 1] = SavedOne(s, m)
      /\ \A i \in 1..n : right[i] = Saved(s, log)[i]
  BY <1>3, <1>4, AppendProperties
<1> HIDE DEF right
<1>6. \A i \in 1..n + 1 : Saved(s, more)[i] = right[i]
  BY <1>1, <1>2, <1>3, <1>5
<1>7. Saved(s, more) = right
  BY <1>2, <1>5, <1>6, SeqEqual
<1> QED
  BY <1>7 DEF more, right

LEMMA TalkSaved ==
    ASSUME NEW s, NEW log \in Seq(Message)
    PROVE  Talk(Saved(s, log)) = Saved(s, Talk(log))
<1> DEFINE X == {r \in Seq(Message) : Talk(Saved(s, r)) = Saved(s, Talk(r))}
<1>1. <<>> \in X
  <2>1. Saved(s, <<>>) = <<>> /\ <<>> \in Seq(Message)
    <3>1. <<>> \in Seq(Message) /\ Len(<<>>) = 0
      BY EmptySeq
    <3>2. Saved(s, <<>>) \in Seq(Message) /\ Len(Saved(s, <<>>)) = 0
      BY <3>1, SavedLog
    <3> QED
      BY <3>1, <3>2, EmptySeq
  <2> QED
    BY <2>1, KeptEmpty DEF Talk
<1>2. ASSUME NEW r \in Seq(Message), NEW m \in Message, r \in X
      PROVE  Append(r, m) \in X
  <2> DEFINE k == SavedOne(s, m)
  <2>1. k \in Message /\ k.by = m.by /\ Saved(s, r) \in Seq(Message)
    BY SavedMessage, SavedLog
  <2>2. Append(r, m) \in Seq(Message) /\ Talk(r) \in Seq(Message)
    BY AppendProperties, KeptLogs
  <2>3. Saved(s, Append(r, m)) = Append(Saved(s, r), k)
    BY SavedAppend
  <2>4. Talk(Append(Saved(s, r), k)) =
          IF m.by \in Streams THEN Talk(Saved(s, r)) ELSE Append(Talk(Saved(s, r)), k)
    BY <2>1, TalkAppend
  <2>5. Talk(Append(r, m)) = IF m.by \in Streams THEN Talk(r) ELSE Append(Talk(r), m)
    BY TalkAppend
  <2>6. Saved(s, Append(Talk(r), m)) = Append(Saved(s, Talk(r)), k)
    BY <2>2, SavedAppend
  <2>7. Talk(Saved(s, r)) = Saved(s, Talk(r))
    BY <1>2
  <2> HIDE DEF k
  <2>8. Talk(Saved(s, Append(r, m))) = Saved(s, Talk(Append(r, m)))
    <3>1. CASE m.by \in Streams
      BY <3>1, <2>3, <2>4, <2>5, <2>7
    <3>2. CASE m.by \notin Streams
      BY <3>2, <2>3, <2>4, <2>5, <2>6, <2>7
    <3> QED
      BY <3>1, <3>2
  <2> QED
    BY <2>2, <2>8
<1>3. Seq(Message) \subseteq X
  <2> HIDE DEF X
  <2> QED
    BY <1>1, <1>2, Appending
<1> QED
  BY <1>3

LEMMA SavedNothing ==
    ASSUME NEW u \in Seq(Message), NEW s, \A i \in 1..Len(u) : u[i].by # s
    PROVE  Saved(s, u) = u
<1>1. /\ Saved(s, u) \in Seq(Message) /\ Len(Saved(s, u)) = Len(u)
      /\ \A i \in 1..Len(u) : Saved(s, u)[i] = SavedOne(s, u[i])
  BY SavedLog
<1>2. \A i \in 1..Len(u) : Saved(s, u)[i] = u[i]
  BY <1>1 DEF SavedOne
<1> QED
  BY <1>1, <1>2, SeqEqual

-----------------------------------------------------------------------------
(* Whole turns                                                             *)

LEMMA OrderlyEmpty == \A holder : Orderly(<<>>, holder, FALSE)
  BY DEF Orderly

LEMMA OrderlyAsk ==
    ASSUME NEW u \in Seq(Message), NEW s \in Sessions, NEW h \in {s, "free"},
           Orderly(u, h, FALSE)
    PROVE  Orderly(Append(u, Unsaved(s, "user")), s, TRUE)
<1> DEFINE m == Unsaved(s, "user")
           n == Len(u)
           w == Append(u, m)
<1>1. /\ m \in Message /\ m.by = s /\ m.role = "user" /\ ~m.stored
  BY Unsaving
<1>2. /\ n \in Nat /\ w \in Seq(Message) /\ Len(w) = n + 1 /\ w[n + 1] = m
      /\ \A i \in 1..n : w[i] = u[i] /\ u[i] \in Message
  BY <1>1, LenProperties, AppendProperties, ElementOfSeq
<1>3. \A i \in 1..n : ~u[i].stored => u[i].by = s
  <2>1. \A i \in 1..n : u[i].by # "free"
    BY <1>2, ChatAssumption DEF Message
  <2> QED
    BY <2>1 DEF Orderly
<1>4. /\ \A i \in 1..n : u[i].role = "assistant" =>
            i > 1 /\ Answered(u[i - 1], u[i])
      /\ \A i \in 1..n : u[i].role = "user" /\ i < n =>
            Answered(u[i], u[i + 1])
      /\ \A i, j \in 1..n : i < j /\ u[j].stored => u[i].stored
      /\ n > 0 => u[n].role = "assistant"
  BY DEF Orderly
<1> HIDE DEF m, n, w
<1>5. \A i \in 1..n + 1 : w[i].role = "assistant" =>
        i > 1 /\ Answered(w[i - 1], w[i])
  BY <1>1, <1>2, <1>4
<1>6. \A i \in 1..n + 1 : w[i].role = "user" /\ i < n + 1 =>
        Answered(w[i], w[i + 1])
  BY <1>1, <1>2, <1>4
<1>7. \A i, j \in 1..n + 1 : i < j /\ w[j].stored => w[i].stored
  BY <1>1, <1>2, <1>4
<1>8. \A i \in 1..n + 1 : ~w[i].stored => w[i].by = s
  BY <1>1, <1>2, <1>3
<1>9. n + 1 > 0
  BY <1>2
<1> QED
  BY <1>1, <1>2, <1>5, <1>6, <1>7, <1>8, <1>9 DEF Orderly, m, w

LEMMA OrderlyAnswer ==
    ASSUME NEW u \in Seq(Message), NEW s \in Sessions, Orderly(u, s, TRUE)
    PROVE  Orderly(Append(u, Unsaved(s, "assistant")), s, FALSE)
<1> DEFINE m == Unsaved(s, "assistant")
           n == Len(u)
           w == Append(u, m)
<1>1. /\ m \in Message /\ m.by = s /\ m.role = "assistant" /\ ~m.stored
  BY Unsaving
<1>2. /\ n \in Nat /\ w \in Seq(Message) /\ Len(w) = n + 1 /\ w[n + 1] = m
      /\ \A i \in 1..n : w[i] = u[i] /\ u[i] \in Message
  BY <1>1, LenProperties, AppendProperties, ElementOfSeq
<1>3. n > 0 /\ Answered(u[n], m)
  BY <1>1 DEF Orderly, Answered
<1>4. /\ \A i \in 1..n : u[i].role = "assistant" =>
            i > 1 /\ Answered(u[i - 1], u[i])
      /\ \A i \in 1..n : u[i].role = "user" /\ i < n =>
            Answered(u[i], u[i + 1])
      /\ \A i, j \in 1..n : i < j /\ u[j].stored => u[i].stored
      /\ \A i \in 1..n : ~u[i].stored => u[i].by = s
  BY DEF Orderly
<1> HIDE DEF m, n, w
<1>5. \A i \in 1..n + 1 : w[i].role = "assistant" =>
        i > 1 /\ Answered(w[i - 1], w[i])
  <2>1. CASE n > 0
    <3> TAKE i \in 1..n + 1
    <3>1. CASE i = n + 1
      BY <3>1, <2>1, <1>2, <1>3
    <3>2. CASE i \in 1..n
      BY <3>2, <1>2, <1>4
    <3> QED
      BY <3>1, <3>2, <1>2
  <2> QED
    BY <2>1, <1>3
<1>6. \A i \in 1..n + 1 : w[i].role = "user" /\ i < n + 1 =>
        Answered(w[i], w[i + 1])
  <2> TAKE i \in 1..n + 1
  <2>1. CASE i = n
    BY <2>1, <1>2, <1>3
  <2>2. CASE i < n
    BY <2>2, <1>2, <1>4
  <2> QED
    BY <2>1, <2>2, <1>2
<1>7. \A i, j \in 1..n + 1 : i < j /\ w[j].stored => w[i].stored
  <2> SUFFICES ASSUME NEW i \in 1..n + 1, NEW j \in 1..n + 1, i < j, w[j].stored
               PROVE  w[i].stored
    OBVIOUS
  <2>1. j \in 1..n /\ i \in 1..n
    BY <1>1, <1>2
  <2>2. w[i] = u[i] /\ w[j] = u[j]
    BY <2>1, <1>2
  <2> QED
    BY <2>1, <2>2, <1>4
<1>8. \A i \in 1..n + 1 : ~w[i].stored => w[i].by = s
  BY <1>1, <1>2, <1>4
<1>9. w[n + 1].role = "assistant"
  BY <1>1, <1>2
<1> QED
  BY <1>2, <1>5, <1>6, <1>7, <1>8, <1>9 DEF Orderly, m, w

LEMMA OrderlySaved ==
    ASSUME NEW u \in Seq(Message), NEW s \in Sessions, Orderly(u, s, FALSE)
    PROVE  Orderly(Saved(s, u), "free", FALSE)
<1> DEFINE n == Len(u)
           w == Saved(s, u)
<1>1. /\ n \in Nat /\ Len(w) = n
      /\ \A i \in 1..n : w[i] = SavedOne(s, u[i]) /\ u[i] \in Message
  BY LenProperties, ElementOfSeq, SavedLog
<1>2. /\ \A i \in 1..n : u[i].role = "assistant" =>
            i > 1 /\ Answered(u[i - 1], u[i])
      /\ \A i \in 1..n : u[i].role = "user" /\ i < n =>
            Answered(u[i], u[i + 1])
      /\ \A i \in 1..n : ~u[i].stored => u[i].by = s
      /\ n > 0 => u[n].role = "assistant"
  BY DEF Orderly
<1> HIDE DEF n, w
<1>3. \A i \in 1..n : w[i].stored /\ w[i].role = u[i].role /\ w[i].by = u[i].by
  BY <1>1, <1>2, SavedMessage
<1>4. \A i, j \in 1..n : Answered(u[i], u[j]) => Answered(w[i], w[j])
  BY <1>3 DEF Answered
<1>5. \A i \in 1..n : w[i].role = "assistant" => i > 1 /\ Answered(w[i - 1], w[i])
  <2> SUFFICES ASSUME NEW i \in 1..n, w[i].role = "assistant"
               PROVE  i > 1 /\ Answered(w[i - 1], w[i])
    OBVIOUS
  <2>1. i > 1 /\ Answered(u[i - 1], u[i])
    BY <1>2, <1>3
  <2>2. i - 1 \in 1..n
    BY <2>1, <1>1
  <2> QED
    BY <2>1, <2>2, <1>4
<1>6. \A i \in 1..n : w[i].role = "user" /\ i < n => Answered(w[i], w[i + 1])
  <2> SUFFICES ASSUME NEW i \in 1..n, w[i].role = "user", i < n
               PROVE  Answered(w[i], w[i + 1])
    OBVIOUS
  <2>1. Answered(u[i], u[i + 1]) /\ i + 1 \in 1..n
    BY <1>1, <1>2, <1>3
  <2> QED
    BY <2>1, <1>4
<1>7. n > 0 => w[n].role = "assistant"
  BY <1>1, <1>2, <1>3
<1> QED
  BY <1>1, <1>3, <1>5, <1>6, <1>7 DEF Orderly, n, w

\* What is stored is the first messages, and these are whole turns.
LEMMA OrderlyDropped ==
    ASSUME NEW u \in Seq(Message), NEW s \in Sessions, NEW asking \in BOOLEAN,
           Orderly(u, s, asking)
    PROVE  Orderly(Dropped(s, u), "free", FALSE)
<1> DEFINE n == Len(u)
           w == Dropped(s, u)
           k == Len(w)
           S == {m \in Message : m.stored \/ m.by # s}
<1>1. n \in Nat /\ \A i \in 1..n : u[i] \in Message
  BY LenProperties, ElementOfSeq
<1>2. /\ \A i \in 1..n : u[i].role = "assistant" => i > 1 /\ Answered(u[i - 1], u[i])
      /\ \A i \in 1..n : u[i].role = "user" /\ i < n => Answered(u[i], u[i + 1])
      /\ \A i, j \in 1..n : i < j /\ u[j].stored => u[i].stored
      /\ \A i \in 1..n : ~u[i].stored => u[i].by = s
      /\ n > 0 /\ u[n].role = "user" => ~u[n].stored
  BY DEF Orderly
<1>3. \A i \in 1..n : u[i] \in S <=> u[i].stored
  BY <1>1, <1>2
<1>4. /\ k \in 0..n /\ \A i \in 1..k : w[i] = u[i]
      /\ \A i \in 1..n : u[i] \in S <=> i <= k
  <2>1. \A i, j \in 1..Len(u) : i < j /\ u[j] \in S => u[i] \in S
    BY <1>2, <1>3
  <2> HIDE DEF S
  <2>2. /\ Len(Kept(u, S)) \in 0..Len(u)
        /\ \A i \in 1..Len(Kept(u, S)) : Kept(u, S)[i] = u[i]
        /\ \A i \in 1..Len(u) : u[i] \in S <=> i <= Len(Kept(u, S))
    BY <2>1, KeptPrefix
  <2>3. w = Kept(u, S)
    BY DEF S, Dropped
  <2> QED
    BY <2>2, <2>3
<1> HIDE DEF n, w, k, S
<1>5. \A i \in 1..k : i \in 1..n /\ w[i] = u[i] /\ u[i].stored
  BY <1>1, <1>3, <1>4
<1>6. \A i \in 1..k : w[i].role = "assistant" => i > 1 /\ Answered(w[i - 1], w[i])
  <2> SUFFICES ASSUME NEW i \in 1..k, w[i].role = "assistant"
               PROVE  i > 1 /\ Answered(w[i - 1], w[i])
    OBVIOUS
  <2>1. i > 1 /\ Answered(u[i - 1], u[i])
    BY <1>2, <1>5
  <2>2. i - 1 \in 1..k
    BY <2>1, <1>1, <1>4
  <2> QED
    BY <2>1, <2>2, <1>5
<1>7. \A i \in 1..k : w[i].role = "user" => i < k /\ Answered(w[i], w[i + 1])
  <2> SUFFICES ASSUME NEW i \in 1..k, w[i].role = "user"
               PROVE  i < k /\ Answered(w[i], w[i + 1])
    OBVIOUS
  <2>1. i \in 1..n /\ w[i] = u[i] /\ u[i].stored
    BY <1>5
  <2>2. i # n
    BY <2>1, <1>2
  <2>3. i < n /\ i + 1 \in 1..n
    BY <2>1, <2>2, <1>1
  <2>4. Answered(u[i], u[i + 1])
    BY <2>1, <2>3, <1>2
  <2>5. u[i + 1].stored
    BY <2>1, <2>4 DEF Answered
  <2>6. i + 1 <= k
    BY <2>3, <2>5, <1>3, <1>4
  <2>7. i + 1 \in 1..k
    BY <2>6, <2>3, <1>1, <1>4
  <2> QED
    BY <2>1, <2>4, <2>7, <1>4, <1>5
<1>8. k > 0 => w[k].role = "assistant"
  <2> SUFFICES ASSUME k > 0 PROVE w[k].role = "assistant"
    OBVIOUS
  <2>1. k \in 1..k /\ ~(k < k)
    BY <1>1, <1>4
  <2>2. w[k] \in Message /\ w[k].role # "user"
    BY <2>1, <1>1, <1>5, <1>7
  <2> QED
    BY <2>2 DEF Message
<1>9. \A i, j \in 1..k : w[i].stored
  BY <1>5
<1> QED
  BY <1>6, <1>7, <1>8, <1>5 DEF Orderly, w, k

\* Nobody holds the row and only stored messages are taken away.
LEMMA OrderlyCleaned ==
    ASSUME NEW log \in Seq(Message), Orderly(Talk(log), "free", FALSE)
    PROVE  Talk(Kept(log, {m \in Message : ~m.stored})) = <<>>
<1> DEFINE A == {m \in Message : ~m.stored}
           B == {m \in Message : m.by \notin Streams}
<1>1. Kept(Kept(log, A), B) = Kept(log, A \cap B)
  BY KeptTwice
<1>2. Kept(Kept(log, B), A) = Kept(log, B \cap A)
  BY KeptTwice
<1>3. A \cap B = B \cap A
  OBVIOUS
<1>4. Talk(Kept(log, A)) = Kept(Talk(log), A)
  BY <1>1, <1>2, <1>3 DEF Talk
<1>5. \A i \in 1..Len(Talk(log)) : Talk(log)[i] \notin A
  <2> TAKE i \in 1..Len(Talk(log))
  <2>1. Talk(log)[i] \in Message
    BY TalkElements
  <2>2. Talk(log)[i].by # "free"
    BY <2>1, ChatAssumption DEF Message
  <2> QED
    BY <2>2 DEF Orderly
<1>6. Talk(log) \in Seq(Message)
  BY KeptLogs
<1> HIDE DEF A, B
<1>7. Range(Talk(log)) \cap A = {}
  BY <1>5, <1>6, LenProperties DEF Range
<1>8. Kept(Talk(log), A) = <<>>
  BY <1>6, <1>7, KeptNone
<1> QED
  BY <1>4, <1>8 DEF A

-----------------------------------------------------------------------------
(* Steps of a turn                                                         *)

LEMMA Initially == ASSUME ChatInit PROVE ChatInv
<1>1. ChatTyped
  <2>1. \A c \in Convs : NoTurn(c) \in Turn
    BY ChatAssumption DEF NoTurn, Turn
  <2>2. turn \in [Sessions -> Turn]
    BY <2>1 DEF ChatInit
  <2>3. messages \in [Convs -> Seq(Message)]
    BY EmptySeq DEF ChatInit
  <2> QED
    BY <2>2, <2>3 DEF ChatInit, ChatTyped, Selected
<1>2. \A s \in Sessions : turn[s].at = "idle"
  BY DEF ChatInit, NoTurn
<1>3. \A s \in Sessions : SessionOK(s)
  BY <1>2 DEF SessionOK, At
<1>4. ASSUME NEW c \in Convs PROVE ConvOK(c)
  <2>1. lock[c] = "free" /\ messages[c] = <<>> /\ Talk(messages[c]) = <<>>
    BY KeptEmpty DEF ChatInit, Talk
  <2>2. Orderly(<<>>, "free", FALSE)
    BY OrderlyEmpty
  <2>3. Len(messages[c]) = 0
    BY <2>1
  <2>4. ~Asking(c)
    BY <2>1 DEF Asking
  <2>5. Orderly(Talk(messages[c]), lock[c], Asking(c))
    BY <2>1, <2>2, <2>4 DEF Orderly
  <2> QED
    BY <2>1, <2>3, <2>5 DEF ConvOK
<1> QED
  BY <1>1, <1>3, <1>4 DEF ChatInv

\* Who asks is not idle, and turns of others are in other conversations or
\* wait: what holds of s and c after a step of s in c is enough.
LEMMA StepIsLocal ==
    ASSUME ChatInv, ChatTyped', NEW s \in Sessions, NEW c \in Convs,
           \A x \in Sessions \ {s} : turn'[x] = turn[x],
           \A d \in Convs \ {c} : /\ messages'[d] = messages[d]
                                   /\ lock'[d] = lock[d] /\ lock[d] # s
                                   /\ (d \in live' <=> d \in live),
           \A x \in Sessions \ {s} : lock[c] = x =>
               lock'[c] = x /\ Seen(x, messages'[c]) = Seen(x, messages[c]),
           SessionOK(s)', ConvOK(c)'
    PROVE  ChatInv'
<1>1. ASSUME NEW x \in Sessions \ {s} PROVE SessionOK(x)'
  <2> DEFINE d == turn[x].conv
  <2>1. SessionOK(x) /\ turn'[x] = turn[x] /\ d \in Convs
    BY DEF ChatInv, ChatTyped, Turn
  <2>2. CASE turn[x].at \in {"asked", "prompted", "answered"}
    <3>1. lock[d] = x
      BY <2>1, <2>2 DEF SessionOK
    <3>2. lock'[d] = x /\ Seen(x, messages'[d]) = Seen(x, messages[d])
      <4>1. CASE d = c
        BY <4>1, <3>1
      <4>2. CASE d \in Convs \ {c}
        <5>1. messages'[d] = messages[d] /\ lock'[d] = lock[d]
          BY <4>2
        <5> QED
          BY <5>1, <3>1
      <4> QED
        BY <4>1, <4>2, <2>1
    <3> QED
      BY <2>1, <3>1, <3>2 DEF SessionOK, At
  <2>3. CASE turn[x].at \notin {"asked", "prompted", "answered"}
    BY <2>1, <2>3 DEF SessionOK, At
  <2> QED
    BY <2>2, <2>3
<1>2. ASSUME NEW d \in Convs \ {c} PROVE ConvOK(d)'
  <2>1. /\ ConvOK(d) /\ messages'[d] = messages[d] /\ lock'[d] = lock[d]
        /\ lock[d] # s /\ (d \in live' <=> d \in live)
    <3>1. ConvOK(d)
      BY DEF ChatInv
    <3>2. d \in Convs \ {c}
      OBVIOUS
    <3> QED
      BY <3>1, <3>2
  <2>2. lock[d] # "free" => turn'[lock[d]] = turn[lock[d]]
    BY <2>1 DEF ChatInv, ChatTyped
  <2>3. Asking(d)' <=> Asking(d)
    BY <2>1, <2>2 DEF Asking
  <2>4. Orderly(Talk(messages[d]), lock[d], Asking(d)')
    BY <2>1, <2>3 DEF ConvOK, Orderly
  <2>5. Orderly(Talk(messages[d]), lock[d], Asking(d))'
    BY <2>1, <2>4
  <2> QED
    BY <2>1, <2>2, <2>5 DEF ConvOK, At
<1> QED
  BY <1>1, <1>2 DEF ChatInv

LEMMA HeldByTurn ==
    ASSUME ChatInv, NEW s \in Sessions, NEW d \in Convs, lock[d] = s
    PROVE  turn[s].conv = d /\ turn[s].at # "idle" /\ s \notin Streams
<1>1. ConvOK(d) /\ lock[d] # "free"
  BY ChatAssumption DEF ChatInv
<1> QED
  BY <1>1 DEF ConvOK, At

LEMMA TurnFields ==
    ASSUME ChatInv, NEW s \in Sessions
    PROVE  turn[s] \in Turn
  BY DEF ChatInv, ChatTyped

LEMMA LogOf ==
    ASSUME ChatInv, NEW c \in Convs
    PROVE  messages[c] \in Seq(Message)
  BY DEF ChatInv, ChatTyped

BegunTurn(r, c, docs, save, fresh) ==
    [r EXCEPT !.at = "begun", !.conv = c, !.fresh = fresh, !.offered = {},
              !.prompt = {}, !.docs = docs, !.save = save]

LEMMA Begun ==
    \A r \in Turn, c \in Convs, docs \in Docs \cup {"none"},
       save \in Docs \cup {"none", "same"}, fresh \in BOOLEAN :
           /\ BegunTurn(r, c, docs, save, fresh) \in Turn
           /\ BegunTurn(r, c, docs, save, fresh).at = "begun"
           /\ BegunTurn(r, c, docs, save, fresh).conv = c
<1> TAKE r \in Turn, c \in Convs, docs \in Docs \cup {"none"},
         save \in Docs \cup {"none", "same"}, fresh \in BOOLEAN
<1> DEFINE q == [r EXCEPT !.at = "begun", !.conv = c, !.fresh = fresh]
           t == [q EXCEPT !.offered = {}, !.prompt = {}, !.docs = docs, !.save = save]
<1>2. q \in Turn /\ q.at = "begun" /\ q.conv = c
  BY DEF Turn
<1>3. t = BegunTurn(r, c, docs, save, fresh)
  BY DEF BegunTurn
<1> HIDE DEF q
<1>4. t \in Turn /\ t.at = "begun" /\ t.conv = c
  BY <1>2 DEF Turn
<1> QED
  BY <1>3, <1>4

LEMMA Beginning ==
    ASSUME ChatInv, NEW s \in Sessions, NEW c \in Convs, NEW docs \in Docs \cup {"none"},
           Begin(s, c, docs) \/ BeginNew(s, c, docs)
    PROVE  ChatInv'
<1>1. /\ s \notin Streams /\ UNCHANGED <<live, messages, selection, lock>>
      /\ At(s, "idle") \/ (At(s, "answered") /\ turn[s].conv = c)
  BY ChatAssumption DEF Begin, BeginNew
<1>2. PICK t \in Turn :
        turn' = [turn EXCEPT ![s] = t] /\ t.at = "begun" /\ t.conv = c
  <2>1. turn[s] \in Turn /\ selection[c] \in Selected
    BY DEF ChatInv, ChatTyped
  <2>2. InRow(s, c) \in Docs \cup {"none", "unset"}
    BY <2>1 DEF InRow, Selected, Turn
  <2>3. Used(docs, InRow(s, c)) \in Docs \cup {"none"}
    BY <2>2 DEF Used
  <2>4. Saves(s, c, docs) \in Docs \cup {"none", "same"}
    BY <2>1 DEF Saves, Turn
  <2>5. CASE Begin(s, c, docs)
    <3> DEFINE fresh == FALSE
               used == Used(docs, InRow(s, c))
               save == Saves(s, c, docs)
               t == BegunTurn(turn[s], c, used, save, fresh)
    <3>1. /\ fresh \in BOOLEAN /\ used \in Docs \cup {"none"}
          /\ save \in Docs \cup {"none", "same"}
      BY <2>3, <2>4
    <3>2. turn' = [turn EXCEPT ![s] = t]
      BY <2>5 DEF Begin, BegunTurn
    <3> HIDE DEF fresh, used, save
    <3>3. t \in Turn /\ t.at = "begun" /\ t.conv = c
      <4>1. turn[s] \in Turn
        BY <2>1
      <4>2. fresh \in BOOLEAN
        BY <3>1
      <4>3. used \in Docs \cup {"none"}
        BY <3>1
      <4>4. save \in Docs \cup {"none", "same"}
        BY <3>1
      <4>5. \A r \in Turn, k \in Docs \cup {"none"}, v \in Docs \cup {"none", "same"},
               f \in BOOLEAN :
              /\ BegunTurn(r, c, k, v, f) \in Turn
              /\ BegunTurn(r, c, k, v, f).at = "begun"
              /\ BegunTurn(r, c, k, v, f).conv = c
        BY Begun
      <4> QED
        BY <4>1, <4>2, <4>3, <4>4, <4>5
    <3> HIDE DEF t
    <3> QED
      BY <3>2, <3>3
  <2>6. CASE BeginNew(s, c, docs)
    <3> DEFINE fresh == TRUE
               t == BegunTurn(turn[s], c, docs, docs, fresh)
    <3>1. fresh \in BOOLEAN
      OBVIOUS
    <3>2. turn' = [turn EXCEPT ![s] = t]
      BY <2>6 DEF BeginNew, BegunTurn
    <3> HIDE DEF fresh
    <3>3. t \in Turn /\ t.at = "begun" /\ t.conv = c
      BY <3>1, <2>1, Begun
    <3> HIDE DEF t
    <3> QED
      BY <3>2, <3>3
  <2> QED
    BY <2>5, <2>6
<1>3. ChatTyped' /\ turn'[s] = t /\ \A x \in Sessions \ {s} : turn'[x] = turn[x]
  BY <1>1, <1>2 DEF ChatInv, ChatTyped
<1>4. SessionOK(s)'
  BY <1>1, <1>2, <1>3 DEF SessionOK, At
<1>5. ConvOK(c)'
  <2>1. ConvOK(c) /\ lock'[c] = lock[c] /\ messages'[c] = messages[c] /\ live' = live
    BY <1>1 DEF ChatInv
  <2>2. lock[c] # "free" => lock[c] \in Sessions
    BY DEF ChatInv, ChatTyped
  <2>3. ~Asking(c)' <=> ~Asking(c)
    <3>1. CASE lock[c] = s
      BY <3>1, <1>1, <1>2, <1>3, HeldByTurn DEF Asking, At
    <3>2. CASE lock[c] # s
      BY <3>2, <2>1, <2>2, <1>3 DEF Asking
    <3> QED
      BY <3>1, <3>2
  <2>4. Orderly(Talk(messages[c]), lock[c], Asking(c))'
    BY <2>1, <2>3 DEF ConvOK, Orderly
  <2>5. lock[c] # "free" => ~At(lock[c], "idle")' /\ turn'[lock[c]].conv = c
    <3>1. CASE lock[c] = s
      BY <3>1, <1>2, <1>3, <2>1 DEF At
    <3>2. CASE lock[c] # s
      BY <3>2, <2>1, <2>2, <1>3 DEF ConvOK, At
    <3> QED
      BY <3>1, <3>2
  <2> QED
    BY <2>1, <2>4, <2>5 DEF ConvOK, At
<1>6. \A d \in Convs \ {c} : lock[d] # s
  BY <1>1, HeldByTurn DEF At
<1> QED
  BY <1>1, <1>3, <1>4, <1>5, <1>6, StepIsLocal

\* One turn is written.
LEMMA TurnWritten ==
    ASSUME ChatInv, NEW s \in Sessions, NEW r \in Turn, turn' = [turn EXCEPT ![s] = r]
    PROVE  /\ turn' \in [Sessions -> Turn] /\ turn'[s] = r
           /\ \A x \in Sessions \ {s} : turn'[x] = turn[x]
  BY DEF ChatInv, ChatTyped

\* A turn goes on.
LEMMA TurnAdvanced ==
    ASSUME ChatInv, NEW s \in Sessions, NEW a \in {"asked", "answered"},
           turn' = [turn EXCEPT ![s].at = a]
    PROVE  /\ turn' \in [Sessions -> Turn] /\ turn'[s].at = a
           /\ turn'[s].conv = turn[s].conv
           /\ \A x \in Sessions \ {s} : turn'[x] = turn[x]
<1> DEFINE r == [turn[s] EXCEPT !.at = a]
<1>1. r \in Turn /\ r.at = a /\ r.conv = turn[s].conv
  BY ZenonT(40) DEF ChatInv, ChatTyped, Turn
<1>2. turn' = [turn EXCEPT ![s] = r]
  OBVIOUS
<1> HIDE DEF r
<1>3. /\ turn' \in [Sessions -> Turn] /\ turn'[s] = r
      /\ \A x \in Sessions \ {s} : turn'[x] = turn[x]
  BY <1>1, <1>2, TurnWritten, Zenon
<1> QED
  BY <1>1, <1>3, Zenon

LEMMA Asked ==
    ASSUME ChatInv, NEW s \in Sessions, NEW c \in Convs, Ask(s, c)
    PROVE  ChatInv'
<1> DEFINE m == Unsaved(s, "user")
           log == messages[c]
<1>1. /\ m \in Message /\ m.by = s /\ ~m.stored /\ log \in Seq(Message)
  BY Unsaving, LogOf
<1>2. /\ turn[s].at = "begun" /\ turn[s].conv = c /\ lock[c] \in {"free", s}
      /\ lock' = [lock EXCEPT ![c] = s] /\ UNCHANGED <<live, selection>>
      /\ messages' = [messages EXCEPT ![c] = Append(log, m)]
      /\ turn' = [turn EXCEPT ![s].at = "asked"]
  BY DEF Ask, At
<1>3. s \notin Streams /\ SessionOK(s) /\ ConvOK(c)
  BY <1>2 DEF ChatInv, SessionOK
<1>4. Append(log, m) \in Seq(Message)
  BY <1>1, AppendProperties
<1> HIDE DEF m
<1>5. /\ ChatTyped' /\ turn'[s].at = "asked" /\ turn'[s].conv = c /\ lock'[c] = s
      /\ messages'[c] = Append(log, m) /\ \A x \in Sessions \ {s} : turn'[x] = turn[x]
  <2>1. /\ turn' \in [Sessions -> Turn] /\ turn'[s].at = "asked" /\ turn'[s].conv = c
        /\ \A x \in Sessions \ {s} : turn'[x] = turn[x]
    BY <1>2, TurnAdvanced
  <2>2. /\ messages' \in [Convs -> Seq(Message)]
        /\ lock' \in [Convs -> Sessions \cup {"free"}] /\ lock'[c] = s
        /\ messages'[c] = Append(log, m)
    BY <1>2, <1>4 DEF ChatInv, ChatTyped
  <2> QED
    BY <1>2, <1>4, <2>1, <2>2 DEF ChatInv, ChatTyped
<1>6. SessionOK(s)'
  <2> DEFINE seen == Append(Seen(s, log), m)
  <2>1. Seen(s, messages'[c]) = seen
    BY <1>1, <1>5, SeenAppend
  <2>2. Len(seen) > 0 /\ seen[Len(seen)] = m
    BY <1>1, KeptLogs, AppendProperties, LenProperties
  <2> HIDE DEF seen
  <2> QED
    BY <1>3, <1>5, <2>1, <2>2 DEF SessionOK, At, m
<1>7. ConvOK(c)'
  <2>1. Talk(messages'[c]) = Append(Talk(log), m)
    BY <1>1, <1>3, <1>5, TalkAppend
  <2>2. ~Asking(c)
    BY <1>2, ChatAssumption DEF Asking
  <2>3. Orderly(Talk(log), lock[c], FALSE)
    BY <1>3, <2>2 DEF ConvOK, Orderly
  <2>4. Orderly(Append(Talk(log), m), s, TRUE)
    BY <1>1, <1>2, <2>3, KeptLogs, OrderlyAsk DEF m
  <2>5. Asking(c)'
    BY <1>5, ChatAssumption DEF Asking
  <2>6. Orderly(Talk(messages[c]), lock[c], Asking(c))'
    BY <1>5, <2>1, <2>4, <2>5 DEF Orderly
  <2>7. c \notin live => \A i \in 1..Len(messages'[c]) : ~messages'[c][i].stored
    BY <1>1, <1>3, <1>5, AppendProperties, LenProperties DEF ConvOK
  <2> QED
    BY <1>2, <1>3, <1>5, <2>6, <2>7 DEF ConvOK, At
<1>8. \A d \in Convs \ {c} : lock[d] # s
  BY <1>2, HeldByTurn
<1>9. \A x \in Sessions \ {s} : lock[c] # x
  BY <1>2, ChatAssumption
<1>10. \A d \in Convs \ {c} : messages'[d] = messages[d] /\ lock'[d] = lock[d]
  BY <1>2 DEF ChatInv, ChatTyped
<1> QED
  BY <1>2, <1>5, <1>6, <1>7, <1>8, <1>9, <1>10, StepIsLocal

\* What is offered lies among the messages read.
LEMMA OfferedPlaces ==
    ASSUME NEW n \in Nat, n > 0
    PROVE  Offered(n) \subseteq 1..HistoryLimit
<1> DEFINE m == Min({n, HistoryLimit})
<1>1. m \in {n, HistoryLimit} /\ m <= HistoryLimit
  <2>1. \E x \in {n, HistoryLimit} : \A y \in {n, HistoryLimit} : x =< y
    BY ChatAssumption
  <2> QED
    BY <2>1 DEF Min
<1>2. Offered(n) = {i \in 1..(m - 1) : i + PromptLimit > m - 1}
  BY DEF Offered
<1> HIDE DEF m
<1>3. \A i \in 1..(m - 1) : i \in 1..HistoryLimit
  BY <1>1, ChatAssumption
<1> QED
  BY <1>2, <1>3

LEMMA FittingPart == \A places : \A kept \in Fitting(places) : kept \subseteq places
  BY DEF Fitting

LEMMA Reading ==
    ASSUME ChatInv, NEW s \in Sessions, NEW c \in Convs, ReadHistory(s, c)
    PROVE  ChatInv'
<1> DEFINE seen == Seen(s, messages[c])
           offered == Offered(Len(seen))
<1>0. PICK prompt \in Fitting(offered) :
        turn' = [turn EXCEPT ![s] =
                   [turn[s] EXCEPT !.at = "prompted", !.offered = offered, !.prompt = prompt]]
  BY Visibly DEF ReadHistory, At
<1>1. /\ turn[s].at = "asked" /\ turn[s].conv = c
      /\ UNCHANGED <<live, messages, selection, lock>>
  BY DEF ReadHistory, At
<1>2. s \notin Streams /\ SessionOK(s) /\ ConvOK(c) /\ lock[c] = s /\ Len(seen) > 0
      /\ seen[Len(seen)] = Unsaved(s, "user")
  BY <1>1 DEF ChatInv, SessionOK
<1>3. offered \subseteq 1..HistoryLimit /\ prompt \subseteq offered
  <2>1. Len(seen) \in Nat
    BY LogOf, KeptLogs, LenProperties
  <2> QED
    BY <1>2, <2>1, OfferedPlaces, FittingPart
<1> HIDE DEF offered
<1>4. /\ ChatTyped' /\ turn'[s].at = "prompted" /\ turn'[s].conv = c
      /\ turn'[s].offered = offered /\ turn'[s].prompt = prompt
      /\ \A x \in Sessions \ {s} : turn'[x] = turn[x]
  <2>1. /\ turn' \in [Sessions -> Turn] /\ turn'[s].at = "prompted" /\ turn'[s].conv = c
        /\ turn'[s].offered = offered /\ turn'[s].prompt = prompt
        /\ \A x \in Sessions \ {s} : turn'[x] = turn[x]
    <3> DEFINE r == [turn[s] EXCEPT !.at = "prompted", !.offered = offered, !.prompt = prompt]
    <3>1. /\ r \in Turn /\ r.at = "prompted" /\ r.conv = c
          /\ r.offered = offered /\ r.prompt = prompt
      <4>1. turn[s] \in Turn
        BY DEF ChatInv, ChatTyped
      <4>2. prompt \in SUBSET (1..HistoryLimit) /\ offered \in SUBSET (1..HistoryLimit)
        BY <1>3
      <4> QED
        BY <4>1, <4>2, <1>1 DEF Turn
    <3>2. turn' = [turn EXCEPT ![s] = r]
      BY <1>0
    <3> HIDE DEF r
    <3> QED
      BY <3>1, <3>2, TurnWritten
  <2> QED
    BY <1>1, <2>1 DEF ChatInv, ChatTyped
<1>5. SessionOK(s)'
  BY <1>1, <1>2, <1>3, <1>4 DEF SessionOK, At, offered
<1>6. ConvOK(c)'
  <2>1. Asking(c) /\ Asking(c)'
    BY <1>1, <1>2, <1>4, ChatAssumption DEF Asking
  <2>2. Orderly(Talk(messages[c]), lock[c], Asking(c))'
    BY <1>1, <1>2, <2>1 DEF ConvOK, Orderly
  <2> QED
    BY <1>1, <1>2, <1>4, <2>2 DEF ConvOK, At
<1>7. \A d \in Convs \ {c} : lock[d] # s
  BY <1>1, HeldByTurn
<1> QED
  BY <1>1, <1>4, <1>5, <1>6, <1>7, StepIsLocal

LEMMA Answering ==
    ASSUME ChatInv, NEW s \in Sessions, NEW c \in Convs, Answer(s, c)
    PROVE  ChatInv'
<1> DEFINE m == Unsaved(s, "assistant")
           log == messages[c]
<1>1. /\ m \in Message /\ m.by = s /\ ~m.stored /\ log \in Seq(Message)
  BY Unsaving, LogOf
<1>2. /\ turn[s].at \in {"asked", "prompted"} /\ turn[s].conv = c
      /\ messages' = [messages EXCEPT ![c] = Append(log, m)]
      /\ turn' = [turn EXCEPT ![s].at = "answered"]
      /\ UNCHANGED <<live, selection, lock>>
  BY DEF Answer
<1>3. s \notin Streams /\ SessionOK(s) /\ ConvOK(c) /\ lock[c] = s
  BY <1>2 DEF ChatInv, SessionOK
<1>4. Append(log, m) \in Seq(Message)
  BY <1>1, AppendProperties
<1> HIDE DEF m
<1>5. /\ ChatTyped' /\ turn'[s].at = "answered" /\ turn'[s].conv = c
      /\ messages'[c] = Append(log, m) /\ \A x \in Sessions \ {s} : turn'[x] = turn[x]
  <2>1. /\ turn' \in [Sessions -> Turn] /\ turn'[s].at = "answered" /\ turn'[s].conv = c
        /\ \A x \in Sessions \ {s} : turn'[x] = turn[x]
    BY <1>2, TurnAdvanced
  <2>2. /\ messages' \in [Convs -> Seq(Message)]
        /\ lock' \in [Convs -> Sessions \cup {"free"}]
        /\ messages'[c] = Append(log, m)
    BY <1>2, <1>4 DEF ChatInv, ChatTyped
  <2> QED
    BY <1>2, <1>4, <2>1, <2>2 DEF ChatInv, ChatTyped
<1>6. SessionOK(s)'
  BY <1>2, <1>3, <1>5 DEF SessionOK, At
<1>7. ConvOK(c)'
  <2>1. Talk(messages'[c]) = Append(Talk(log), m)
    BY <1>1, <1>3, <1>5, TalkAppend
  <2>2. Asking(c) /\ ~Asking(c)'
    BY <1>2, <1>3, <1>5, ChatAssumption DEF Asking
  <2>3. Orderly(Talk(log), s, TRUE)
    BY <1>3, <2>2 DEF ConvOK, Orderly
  <2>4. Orderly(Append(Talk(log), m), s, FALSE)
    BY <1>1, <2>3, KeptLogs, OrderlyAnswer DEF m
  <2>5. Orderly(Talk(messages[c]), lock[c], Asking(c))'
    BY <1>2, <1>3, <1>5, <2>1, <2>2, <2>4 DEF Orderly
  <2>6. c \notin live => \A i \in 1..Len(messages'[c]) : ~messages'[c][i].stored
    BY <1>1, <1>3, <1>5, AppendProperties, LenProperties DEF ConvOK
  <2> QED
    BY <1>2, <1>3, <1>5, <2>5, <2>6 DEF ConvOK, At
<1>8. \A d \in Convs \ {c} : lock[d] # s
  BY <1>2, HeldByTurn
<1>9. \A d \in Convs \ {c} : messages'[d] = messages[d]
  BY <1>2 DEF ChatInv, ChatTyped
<1> QED
  BY <1>2, <1>3, <1>5, <1>6, <1>7, <1>8, <1>9, StepIsLocal

LEMMA NoTurnTyped ==
    ASSUME NEW c \in Convs
    PROVE  NoTurn(c) \in Turn /\ NoTurn(c).at = "idle" /\ NoTurn(c).conv = c
  BY ChatAssumption DEF NoTurn, Turn

\* A turn gives up the row of its own conversation and of no other.
LEMMA Releasing ==
    ASSUME ChatInv, NEW s \in Sessions, NEW c \in Convs, turn[s].conv = c
    PROVE  /\ Released(s) \in [Convs -> Sessions \cup {"free"}]
           /\ Released(s)[c] = IF lock[c] = s THEN "free" ELSE lock[c]
           /\ \A d \in Convs \ {c} : lock[d] # s /\ Released(s)[d] = lock[d]
<1>1. \A d \in Convs \ {c} : lock[d] # s
  BY HeldByTurn
<1> QED
  BY <1>1 DEF Released, ChatInv, ChatTyped

LEMMA Committing ==
    ASSUME ChatInv, NEW s \in Sessions, NEW c \in Convs, Commit(s, c)
    PROVE  ChatInv'
<1> DEFINE log == messages[c]
           kept == IF turn[s].save = "same" THEN selection[c] ELSE turn[s].save
<1>1. /\ turn[s].at = "answered" /\ turn[s].conv = c /\ live' = live \cup {c}
      /\ messages' = [messages EXCEPT ![c] = Saved(s, log)]
      /\ selection' = [selection EXCEPT ![c] = kept]
      /\ lock' = Released(s) /\ turn' = [turn EXCEPT ![s] = NoTurn(c)]
  BY DEF Commit, At
<1>2. log \in Seq(Message) /\ Saved(s, log) \in Seq(Message)
  BY LogOf, SavedLog
<1>3. s \notin Streams /\ SessionOK(s) /\ ConvOK(c) /\ lock[c] = s
  BY <1>1 DEF ChatInv, SessionOK
<1>4. kept \in Selected
  BY DEF ChatInv, ChatTyped, Turn, Selected
<1> HIDE DEF kept
<1>5. /\ ChatTyped' /\ turn'[s].at = "idle" /\ turn'[s].conv = c /\ lock'[c] = "free"
      /\ messages'[c] = Saved(s, log) /\ \A x \in Sessions \ {s} : turn'[x] = turn[x]
  BY <1>1, <1>2, <1>3, <1>4, NoTurnTyped, Releasing DEF ChatInv, ChatTyped
<1>6. SessionOK(s)'
  BY <1>3, <1>5 DEF SessionOK, At
<1>7. ConvOK(c)'
  <2>1. Talk(messages'[c]) = Saved(s, Talk(log))
    BY <1>2, <1>5, TalkSaved
  <2>2. ~Asking(c) /\ ~Asking(c)'
    BY <1>1, <1>3, <1>5 DEF Asking
  <2>3. Orderly(Talk(log), s, FALSE)
    BY <1>3, <2>2 DEF ConvOK, Orderly
  <2>4. Orderly(Saved(s, Talk(log)), "free", FALSE)
    BY <1>2, <2>3, KeptLogs, OrderlySaved
  <2>5. Orderly(Talk(messages[c]), lock[c], Asking(c))'
    BY <1>5, <2>1, <2>2, <2>4 DEF Orderly
  <2> QED
    BY <1>1, <1>5, <2>5 DEF ConvOK
<1>8. \A d \in Convs \ {c} :
        messages'[d] = messages[d] /\ lock'[d] = lock[d] /\ lock[d] # s
  BY <1>1, Releasing DEF ChatInv, ChatTyped
<1>9. \A d \in Convs \ {c} : (d \in live' <=> d \in live)
  BY <1>1
<1> QED
  BY <1>3, <1>5, <1>6, <1>7, <1>8, <1>9, StepIsLocal

LEMMA RollingBack ==
    ASSUME ChatInv, NEW s \in Sessions, NEW c \in Convs, RollBack(s, c)
    PROVE  ChatInv'
<1> DEFINE log == messages[c]
<1>1. /\ turn[s].conv = c /\ messages' = [messages EXCEPT ![c] = Dropped(s, log)]
      /\ lock' = Released(s) /\ turn' = [turn EXCEPT ![s] = NoTurn(c)]
      /\ UNCHANGED <<live, selection>>
  BY DEF RollBack
<1>2. /\ log \in Seq(Message) /\ Dropped(s, log) \in Seq(Message)
      /\ Talk(log) \in Seq(Message)
  BY LogOf, KeptLogs
<1>3. SessionOK(s) /\ ConvOK(c)
  BY DEF ChatInv
<1>4. /\ ChatTyped' /\ turn'[s].at = "idle" /\ turn'[s].conv = c
      /\ lock'[c] = IF lock[c] = s THEN "free" ELSE lock[c]
      /\ messages'[c] = Dropped(s, log) /\ \A x \in Sessions \ {s} : turn'[x] = turn[x]
  BY <1>1, <1>2, NoTurnTyped, Releasing DEF ChatInv, ChatTyped
<1>5. SessionOK(s)'
  BY <1>4 DEF SessionOK, At
<1>6. c \notin live => \A i \in 1..Len(Dropped(s, log)) : ~Dropped(s, log)[i].stored
  <2> SUFFICES ASSUME c \notin live, NEW i \in 1..Len(Dropped(s, log))
               PROVE  ~Dropped(s, log)[i].stored
    OBVIOUS
  <2>1. Dropped(s, log)[i] \in Range(Dropped(s, log))
    BY <1>2, LenProperties DEF Range
  <2>2. Dropped(s, log)[i] \in Range(log)
    BY <1>2, <2>1, KeptRange DEF Dropped
  <2>3. PICK j \in 1..Len(log) : log[j] = Dropped(s, log)[i]
    BY <1>2, <2>2, LenProperties DEF Range
  <2> QED
    BY <1>3, <2>3 DEF ConvOK
<1>7. ConvOK(c)'
  <2>1. Talk(messages'[c]) = Dropped(s, Talk(log))
    BY <1>2, <1>4, TalkDropped
  <2>2. CASE lock[c] = s
    <3>1. Orderly(Talk(log), s, Asking(c))
      BY <1>3, <2>2 DEF ConvOK
    <3>2. Orderly(Dropped(s, Talk(log)), "free", FALSE)
      <4>1. CASE Asking(c)
        <5>1. Orderly(Talk(log), s, TRUE)
          BY <3>1, <4>1 DEF Orderly
        <5> QED
          BY <5>1, <1>2, OrderlyDropped
      <4>2. CASE ~Asking(c)
        <5>1. Orderly(Talk(log), s, FALSE)
          BY <3>1, <4>2 DEF Orderly
        <5> QED
          BY <5>1, <1>2, OrderlyDropped
      <4> QED
        BY <4>1, <4>2
    <3>3. ~Asking(c)'
      BY <1>4, <2>2 DEF Asking
    <3>4. Orderly(Talk(messages[c]), lock[c], Asking(c))'
      BY <1>4, <2>1, <2>2, <3>2, <3>3 DEF Orderly
    <3> QED
      BY <1>1, <1>4, <1>6, <2>2, <3>4 DEF ConvOK
  <2>3. CASE lock[c] # s
    <3>1. \A i \in 1..Len(Talk(log)) : Talk(log)[i].stored \/ Talk(log)[i].by # s
      BY <1>3, <2>3 DEF ConvOK, Orderly
    <3>2. Talk(messages'[c]) = Talk(log)
      BY <1>2, <2>1, <3>1, DroppedNothing
    <3>3. lock'[c] = lock[c] /\ (lock[c] # "free" => turn'[lock[c]] = turn[lock[c]])
      BY <1>4, <2>3 DEF ChatInv, ChatTyped
    <3>4. Asking(c)' <=> Asking(c)
      BY <3>3 DEF Asking
    <3>5. Orderly(Talk(messages[c]), lock[c], Asking(c))'
      BY <1>3, <3>2, <3>3, <3>4 DEF ConvOK, Orderly
    <3> QED
      BY <1>1, <1>3, <1>4, <1>6, <3>3, <3>5 DEF ConvOK, At
  <2> QED
    BY <2>2, <2>3
<1>8. \A d \in Convs \ {c} :
        messages'[d] = messages[d] /\ lock'[d] = lock[d] /\ lock[d] # s
  BY <1>1, Releasing DEF ChatInv, ChatTyped
<1>9. \A x \in Sessions \ {s} : lock[c] = x =>
        lock'[c] = x /\ Seen(x, messages'[c]) = Seen(x, messages[c])
  BY <1>2, <1>4, SeenDropped
<1> QED
  BY <1>1, <1>4, <1>5, <1>7, <1>8, <1>9, StepIsLocal

-----------------------------------------------------------------------------
(* Steps of a stream, and rows without a turn                              *)

LEMMA Stamping ==
    ASSUME ChatInv, NEW s \in Sessions, NEW c \in Convs, Stamp(s, c)
    PROVE  ChatInv'
<1> DEFINE role == IF At(s, "idle") THEN "user" ELSE "assistant"
           m == Unsaved(s, role)
           log == messages[c]
           at == IF turn[s].at = "idle" THEN "stamped" ELSE "answering"
<1>1. /\ s \in Streams /\ c \in live
      /\ messages' = [messages EXCEPT ![c] = Append(log, m)]
      /\ turn' = [turn EXCEPT ![s] = [turn[s] EXCEPT !.at = at, !.conv = c]]
      /\ UNCHANGED <<live, selection, lock>>
  BY DEF Stamp
<1>2. m \in Message /\ m.by = s /\ ~m.stored /\ log \in Seq(Message)
  BY Unsaving, LogOf
<1>3. Append(log, m) \in Seq(Message) /\ at \in {"stamped", "answering"}
  BY <1>2, AppendProperties
<1> HIDE DEF m, at, role
<1>4. /\ ChatTyped' /\ turn'[s].at = at /\ turn'[s].conv = c
      /\ messages'[c] = Append(log, m) /\ \A x \in Sessions \ {s} : turn'[x] = turn[x]
  <2>1. /\ turn' \in [Sessions -> Turn] /\ turn'[s].at = at /\ turn'[s].conv = c
        /\ \A x \in Sessions \ {s} : turn'[x] = turn[x]
    <3> DEFINE r == [turn[s] EXCEPT !.at = at, !.conv = c]
    <3>1. r \in Turn /\ r.at = at /\ r.conv = c
      BY <1>1, <1>3, ZenonT(40) DEF ChatInv, ChatTyped, Turn
    <3>2. turn' = [turn EXCEPT ![s] = r]
      BY <1>1
    <3> HIDE DEF r
    <3> QED
      BY <3>1, <3>2, TurnWritten
  <2>2. /\ messages' \in [Convs -> Seq(Message)]
        /\ lock' \in [Convs -> Sessions \cup {"free"}]
        /\ messages'[c] = Append(log, m)
    BY <1>1, <1>3 DEF ChatInv, ChatTyped
  <2> QED
    BY <1>1, <1>3, <2>1, <2>2 DEF ChatInv, ChatTyped
<1>5. SessionOK(s)'
  BY <1>1, <1>3, <1>4 DEF SessionOK, At
<1>6. \A d \in Convs : lock[d] # s
  BY <1>1, HeldByTurn
<1>7. ConvOK(c)'
  <2>1. ConvOK(c) /\ lock' = lock /\ live' = live
    BY <1>1 DEF ChatInv
  <2>2. lock[c] # "free" => turn'[lock[c]] = turn[lock[c]]
    BY <1>4, <1>6 DEF ChatInv, ChatTyped
  <2>3. Talk(messages'[c]) = Talk(log)
    BY <1>1, <1>2, <1>4, TalkAppend
  <2>4. Asking(c)' <=> Asking(c)
    BY <2>1, <2>2 DEF Asking
  <2>5. Orderly(Talk(messages[c]), lock[c], Asking(c))'
    BY <2>1, <2>3, <2>4 DEF ConvOK, Orderly
  <2> QED
    BY <1>1, <2>1, <2>2, <2>5 DEF ConvOK, At
<1>8. \A x \in Sessions \ {s} : Seen(x, messages'[c]) = Seen(x, messages[c])
  BY <1>2, <1>4, SeenAppend
<1>9. \A d \in Convs \ {c} : messages'[d] = messages[d]
  BY <1>1 DEF ChatInv, ChatTyped
<1> QED
  BY <1>1, <1>4, <1>5, <1>6, <1>7, <1>8, <1>9, StepIsLocal

LEMMA Adding ==
    ASSUME ChatInv, NEW s \in Sessions, NEW c \in Convs, AddMessage(s, c)
    PROVE  ChatInv'
<1> DEFINE log == messages[c]
           next == IF At(s, "stamped") THEN [turn[s] EXCEPT !.at = "saved"] ELSE NoTurn(c)
<1>1. /\ turn[s].at \in {"stamped", "answering"} /\ turn[s].conv = c
      /\ c \in live /\ lock[c] = "free"
      /\ messages' = [messages EXCEPT ![c] = Saved(s, log)]
      /\ turn' = [turn EXCEPT ![s] = next] /\ UNCHANGED <<live, selection, lock>>
  BY DEF AddMessage
<1>2. s \in Streams /\ ConvOK(c)
  BY <1>1 DEF ChatInv, SessionOK
<1>3. /\ log \in Seq(Message) /\ Saved(s, log) \in Seq(Message)
      /\ Talk(log) \in Seq(Message)
  BY LogOf, SavedLog, KeptLogs
<1>4. next \in Turn /\ next.at \in {"saved", "idle"} /\ next.conv = c
  BY <1>1, NoTurnTyped, TurnFields DEF Turn
<1> HIDE DEF next
<1>5. /\ ChatTyped' /\ turn'[s] = next /\ messages'[c] = Saved(s, log)
      /\ \A x \in Sessions \ {s} : turn'[x] = turn[x]
  BY <1>1, <1>3, <1>4 DEF ChatInv, ChatTyped
<1>6. SessionOK(s)'
  BY <1>2, <1>4, <1>5 DEF SessionOK, At
<1>7. ConvOK(c)'
  <2>1. \A i \in 1..Len(Talk(log)) : Talk(log)[i].by # s
    BY <1>2, <1>3, TalkElements
  <2>2. Talk(messages'[c]) = Talk(log)
    BY <1>3, <1>5, <2>1, TalkSaved, SavedNothing
  <2>3. ~Asking(c) /\ ~Asking(c)'
    BY <1>1 DEF Asking
  <2>4. Orderly(Talk(messages[c]), lock[c], Asking(c))'
    BY <1>1, <1>2, <2>2, <2>3 DEF ConvOK, Orderly
  <2> QED
    BY <1>1, <2>4 DEF ConvOK
<1>8. \A d \in Convs \ {c} : lock[d] # s
  BY <1>2, HeldByTurn
<1>9. \A d \in Convs \ {c} : messages'[d] = messages[d]
  BY <1>1 DEF ChatInv, ChatTyped
<1>10. \A x \in Sessions : lock[c] # x
  BY <1>1, ChatAssumption
<1> QED
  BY <1>1, <1>5, <1>6, <1>7, <1>8, <1>9, <1>10, StepIsLocal

LEMMA Creating ==
    ASSUME ChatInv, NEW c \in Convs,
           CreateConversation(c) \/ \E docs \in Docs \cup {"none"} : StreamCreate(c, docs)
    PROVE  ChatInv'
<1>1. PICK kept \in Selected :
        /\ selection' = [selection EXCEPT ![c] = kept] /\ live' = live \cup {c}
        /\ UNCHANGED <<messages, lock, turn>>
  BY DEF CreateConversation, StreamCreate, Selected
<1>2. ChatTyped'
  BY <1>1 DEF ChatInv, ChatTyped
<1>3. ASSUME NEW s \in Sessions PROVE SessionOK(s)'
  BY <1>1 DEF ChatInv, SessionOK, At
<1>4. ASSUME NEW d \in Convs PROVE ConvOK(d)'
  <2>1. ConvOK(d) /\ Orderly(Talk(messages[d]), lock[d], Asking(d))
    BY DEF ChatInv, ConvOK
  <2>2. Orderly(Talk(messages[d]), lock[d], Asking(d))'
    BY <1>1, <2>1 DEF Orderly, Asking
  <2> QED
    BY <1>1, <2>1, <2>2 DEF ConvOK, At
<1> QED
  BY <1>2, <1>3, <1>4 DEF ChatInv

LEMMA ChatStep == ASSUME ChatInv, ChatNext PROVE ChatInv'
<1>1. PICK c \in Convs :
        \/ CreateConversation(c)
        \/ \E docs \in Docs \cup {"none"} : StreamCreate(c, docs)
        \/ \E s \in Sessions : TurnStep(s, c)
  BY DEF ChatNext
<1>2. ASSUME NEW s \in Sessions, TurnStep(s, c) PROVE ChatInv'
  BY <1>2, Beginning, Asked, Reading, Answering, Committing, RollingBack, Stamping,
     Adding DEF TurnStep
<1> QED
  BY <1>1, <1>2, Creating

-----------------------------------------------------------------------------
(* The history                                                             *)

LEMMA StoredCounts ==
    ASSUME ChatInv, NEW c \in Convs
    PROVE  Stored(c) \in Nat /\ (c \notin live => Stored(c) = 0)
<1> DEFINE n == Len(messages[c])
           S == {i \in DOMAIN messages[c] : messages[c][i].stored}
<1>1. n \in Nat /\ DOMAIN messages[c] = 1..n
  BY LogOf, LenProperties
<1>2. 1 \in Int /\ n \in Int
  BY <1>1
<1>3. IsFiniteSet(1..n)
  BY <1>2, FS_Interval
<1>4. S \subseteq 1..n
  BY <1>1
<1>5. Cardinality(S) \in Nat
  BY <1>3, <1>4, FS_Subset, FS_CardinalityType
<1>6. c \notin live => S = {}
  BY <1>1 DEF ChatInv, ConvOK
<1> QED
  BY <1>5, <1>6, FS_EmptySet DEF Stored

LEMMA HistoryTyped == HistoryInv => HistoryTypeOK
<1> SUFFICES ASSUME HistoryInv PROVE HistoryTypeOK
  OBVIOUS
<1>1. ChatTypeOK
  <2>1. \A c \in Convs : ConvOK(c)
    BY DEF HistoryInv, ChatInv
  <2>2. \A c \in Convs : lock[c] # "free" => turn[lock[c]].at # "idle" /\ turn[lock[c]].conv = c
    BY <2>1 DEF ConvOK, At
  <2>3. ChatTyped
    BY DEF HistoryInv, ChatInv
  <2> QED
    BY <2>2, <2>3 DEF ChatTyped, ChatTypeOK, Turn
<1>2. \A c \in Convs \ live : Stored(c) = 0
  BY StoredCounts DEF HistoryInv
<1> QED
  BY <1>1, <1>2 DEF HistoryInv, RecordsOK, HistoryTypeOK

LEMMA HistoryInitially == ASSUME HistoryInit PROVE HistoryInv
<1>1. ChatInv
  BY Initially DEF HistoryInit
<1>2. RecordsOK
  BY DEF HistoryInit, ChatInit, RecordsOK, NoCleanup
<1> QED
  BY <1>1, <1>2 DEF HistoryInv

LEMMA LiveGrows == ASSUME ChatNext PROVE live \subseteq live'
<1>1. PICK c \in Convs :
        \/ CreateConversation(c)
        \/ \E docs \in Docs \cup {"none"} : StreamCreate(c, docs)
        \/ \E s \in Sessions : TurnStep(s, c)
  BY DEF ChatNext
<1>2. CASE CreateConversation(c)
  BY <1>2 DEF CreateConversation
<1>3. CASE \E docs \in Docs \cup {"none"} : StreamCreate(c, docs)
  BY <1>3 DEF StreamCreate
<1>4. ASSUME NEW s \in Sessions, TurnStep(s, c) PROVE live \subseteq live'
  <2>1. CASE Commit(s, c)
    BY <2>1 DEF Commit
  <2>2. CASE \E docs \in Docs \cup {"none"} : Begin(s, c, docs) \/ BeginNew(s, c, docs)
    BY <2>2 DEF Begin, BeginNew
  <2>3. CASE Ask(s, c) \/ ReadHistory(s, c) \/ Answer(s, c)
    BY <2>3 DEF Ask, ReadHistory, Answer
  <2>4. CASE RollBack(s, c) \/ Stamp(s, c) \/ AddMessage(s, c)
    BY <2>4 DEF RollBack, Stamp, AddMessage
  <2> QED
    BY <1>4, <2>1, <2>2, <2>3, <2>4 DEF TurnStep
<1> QED
  BY <1>1, <1>2, <1>3, <1>4

\* The cleanup waits for the holders of the rows: of the conversations that it
\* deletes only what a stream has not committed is left.
LEMMA CleaningChats ==
    ASSUME HistoryInv, CleanupCommit
    PROVE  ChatInv' /\ RecordsOK'
<1> DEFINE deleted == IF \A c \in cleanup.chosen : Deletable(c)
                        THEN cleanup.chosen ELSE {}
           unsaved == {m \in Message : ~m.stored}
<1>1. /\ cleanup' = NoCleanup /\ \A c \in cleanup.chosen : lock[c] = "free"
      /\ live' = live \ deleted /\ old' = old \ deleted
      /\ messages' = [c \in Convs |-> IF c \in deleted
                         THEN Kept(messages[c], unsaved) ELSE messages[c]]
      /\ retention' = [c \in Convs |-> IF c \in deleted THEN "none" ELSE retention[c]]
      /\ UNCHANGED <<selection, lock, turn>>
  BY DEF CleanupCommit
<1>2. \A c \in deleted : lock[c] = "free"
  BY <1>1
<1> HIDE DEF deleted
<1>3. ChatInv
  BY DEF HistoryInv
<1>4. \A c \in Convs : Kept(messages[c], unsaved) \in Seq(Message)
  BY <1>3, LogOf, KeptInSeq
<1>5. ChatTyped'
  <2>1. messages' \in [Convs -> Seq(Message)]
    BY <1>1, <1>3, <1>4, LogOf
  <2> QED
    BY <1>1, <1>3, <2>1 DEF ChatInv, ChatTyped
<1>6. ASSUME NEW s \in Sessions PROVE SessionOK(s)'
  <2> DEFINE c == turn[s].conv
  <2>1. SessionOK(s) /\ c \in Convs
    BY <1>3, TurnFields DEF ChatInv, Turn
  <2>2. CASE turn[s].at \in {"asked", "prompted", "answered"}
    <3>1. lock[c] # "free"
      BY <2>1, <2>2, ChatAssumption DEF SessionOK
    <3>2. messages'[c] = messages[c]
      BY <1>1, <1>2, <2>1, <3>1
    <3> QED
      BY <1>1, <2>1, <3>2 DEF SessionOK, At
  <2>3. CASE turn[s].at \notin {"asked", "prompted", "answered"}
    BY <1>1, <2>1, <2>3 DEF SessionOK, At
  <2> QED
    BY <2>2, <2>3
<1>7. ASSUME NEW c \in Convs PROVE ConvOK(c)'
  <2>1. ConvOK(c) /\ Orderly(Talk(messages[c]), lock[c], Asking(c))
    BY <1>3 DEF ChatInv, ConvOK
  <2>2. lock' = lock /\ turn' = turn /\ (Asking(c)' <=> Asking(c))
    BY <1>1 DEF Asking
  <2>3. CASE c \in deleted
    <3>1. lock[c] = "free" /\ ~Asking(c)
      BY <1>2, <2>3 DEF Asking
    <3>2. Orderly(Talk(messages[c]), "free", FALSE)
      BY <2>1, <3>1 DEF Orderly
    <3>3. messages'[c] = Kept(messages[c], unsaved)
      BY <1>1, <2>3
    <3>4. Talk(messages'[c]) = <<>>
      BY <1>3, <3>2, <3>3, LogOf, OrderlyCleaned
    <3>5. Orderly(<<>>, "free", FALSE)
      BY OrderlyEmpty
    <3>6. Orderly(Talk(messages[c]), lock[c], Asking(c))'
      BY <2>2, <3>1, <3>4, <3>5 DEF Orderly
    <3>7. messages'[c] \in Seq(Message \cap unsaved)
      BY <1>3, <3>3, LogOf, KeptInSeq
    <3>8. \A i \in 1..Len(messages'[c]) : messages'[c][i] \in unsaved
      BY <3>7, ElementOfSeq
    <3> QED
      BY <2>2, <3>1, <3>6, <3>8 DEF ConvOK
  <2>4. CASE c \notin deleted
    <3>1. messages'[c] = messages[c] /\ (c \in live' <=> c \in live)
      BY <1>1, <2>4
    <3>2. Orderly(Talk(messages[c]), lock[c], Asking(c))'
      BY <2>1, <2>2, <3>1 DEF Orderly
    <3> QED
      BY <2>1, <2>2, <3>1, <3>2 DEF ConvOK, At
  <2> QED
    BY <2>3, <2>4
<1>8. RecordsOK'
  BY <1>1 DEF HistoryInv, RecordsOK, NoCleanup
<1> QED
  BY <1>5, <1>6, <1>7, <1>8 DEF ChatInv

LEMMA ChatUnchanged ==
    ASSUME ChatInv, UNCHANGED chatVars
    PROVE  ChatInv'
  BY DEF ChatInv, chatVars, ChatTyped, SessionOK, ConvOK, At, Asking, Orderly

LEMMA HistoryStep ==
    ASSUME HistoryInv, [HistoryNext]_historyVars
    PROVE  HistoryInv'
<1>1. ChatInv /\ RecordsOK
  BY DEF HistoryInv
<1>2. CASE Turns
  <2>1. ChatInv'
    BY <1>1, <1>2, ChatStep DEF Turns
  <2>2. RecordsOK'
    BY <1>1, <1>2, LiveGrows DEF Turns, RecordsOK
  <2> QED
    BY <2>1, <2>2 DEF HistoryInv
<1>3. CASE CleanupCommit
  BY <1>3, CleaningChats DEF HistoryInv
<1>4. CASE UNCHANGED chatVars
  <2>1. ChatInv'
    BY <1>1, <1>4, ChatUnchanged
  <2>2. live' = live
    BY <1>4 DEF chatVars
  <2>3. CASE ListHistory
    BY <1>1, <2>1, <2>2, <2>3 DEF ListHistory, Record, RecordsOK, HistoryInv
  <2>4. CASE CleanupSelect
    BY <1>1, <2>1, <2>2, <2>4 DEF CleanupSelect, RecordsOK, HistoryInv, ChatInv, ChatTyped
  <2>5. CASE CleanupLoad
    <3>1. [c \in Convs |-> IF c \in cleanup.chosen THEN Stored(c) ELSE 0] \in [Convs -> Nat]
      BY <1>1, StoredCounts
    <3> QED
      BY <1>1, <2>1, <2>2, <2>5, <3>1 DEF CleanupLoad, RecordsOK, HistoryInv
  <2>6. CASE CleanupFail
    BY <1>1, <2>1, <2>2, <2>6 DEF CleanupFail, NoCleanup, RecordsOK, HistoryInv
  <2>7. ASSUME NEW c \in Convs, Age(c) PROVE HistoryInv'
    BY <1>1, <2>1, <2>2, <2>7 DEF Age, RecordsOK, HistoryInv
  <2>8. ASSUME NEW c \in Convs, Archive(c) PROVE HistoryInv'
    BY <1>1, <2>1, <2>2, <2>8 DEF Archive, Record, RecordsOK, HistoryInv
  <2>9. ASSUME NEW c \in Convs, NEW pinned \in BOOLEAN, Pin(c, pinned) PROVE HistoryInv'
    BY <1>1, <2>1, <2>2, <2>9 DEF Pin, RecordsOK, HistoryInv
  <2>10. CASE UNCHANGED historyVars
    BY <1>1, <2>1, <2>10 DEF historyVars, RecordsOK, HistoryInv
  <2> QED
    BY <1>2, <1>3, <2>3, <2>4, <2>5, <2>6, <2>7, <2>8, <2>9, <2>10 DEF HistoryNext
<1>5. \/ Turns \/ CleanupCommit \/ UNCHANGED chatVars
  BY DEF HistoryNext, historyVars, chatVars, ListHistory, CleanupSelect, CleanupLoad,
         CleanupFail, Age, Archive, Pin
<1> QED
  BY <1>2, <1>3, <1>4, <1>5

-----------------------------------------------------------------------------
(* What the invariant implies                                              *)

\* The last message seen is the question, and what is offered comes before it.
LEMMA PromptFollows == ASSUME HistoryInv PROVE PromptIsWhatCameBefore
<1> SUFFICES ASSUME NEW s \in Sessions, turn[s].at = "prompted"
             PROVE  LET q == QuestionAt(s, turn[s].conv) IN
                      /\ turn[s].prompt \subseteq 1..(q - 1)
                      /\ q <= HistoryLimit =>
                           turn[s].offered = {i \in 1..(q - 1) : i + PromptLimit >= q}
  BY DEF PromptIsWhatCameBefore, At
<1> DEFINE c == turn[s].conv
           seen == Seen(s, messages[c])
           n == Len(seen)
           S == {i \in DOMAIN seen : seen[i].by = s /\ seen[i].role = "user"}
<1>1. ChatInv /\ SessionOK(s) /\ c \in Convs
  BY TurnFields DEF HistoryInv, ChatInv, Turn
<1>2. /\ n > 0 /\ seen[n] = Unsaved(s, "user")
      /\ turn[s].offered = Offered(n) /\ turn[s].prompt \subseteq Offered(n)
  BY <1>1 DEF SessionOK, At
<1>3. n \in Nat /\ DOMAIN seen = 1..n
  BY <1>1, LogOf, KeptLogs, LenProperties
<1>4. n \in S
  BY <1>2, <1>3, Unsaving
<1>5. \A i \in S : i \in Nat /\ n >= i
  BY <1>3
<1>6. QuestionAt(s, c) = Max(S)
  BY Visibly DEF QuestionAt
<1> HIDE DEF n, S
<1>7. Max(S) = n
  <2>1. \E x \in S : \A y \in S : x >= y
    BY <1>4, <1>5
  <2>2. Max(S) \in S /\ \A y \in S : Max(S) >= y
    BY <2>1 DEF Max
  <2>3. Max(S) \in Nat /\ n >= Max(S) /\ Max(S) >= n
    BY <1>4, <1>5, <2>2
  <2> HIDE DEF Max
  <2> QED
    BY <1>3, <2>3
<1> DEFINE m == Min({n, HistoryLimit})
<1>8. m \in Nat /\ m <= n /\ (n <= HistoryLimit => m = n)
  <2>1. \E x \in {n, HistoryLimit} : \A y \in {n, HistoryLimit} : x =< y
    BY <1>3, ChatAssumption
  <2>2. m \in {n, HistoryLimit} /\ m <= n /\ m <= HistoryLimit
    BY <2>1 DEF Min
  <2> HIDE DEF m
  <2> QED
    BY <2>2, <1>3, ChatAssumption
<1>9. Offered(n) = {i \in 1..(m - 1) : i + PromptLimit > m - 1}
  BY DEF Offered
<1> HIDE DEF m
<1>10. Offered(n) \subseteq 1..(n - 1)
  <2>1. \A i \in 1..(m - 1) : i \in 1..(n - 1)
    BY <1>3, <1>8
  <2> QED
    BY <1>9, <2>1
<1>11. n <= HistoryLimit => Offered(n) = {i \in 1..(n - 1) : i + PromptLimit >= n}
  <2>1. \A i \in 1..(n - 1) : i + PromptLimit > n - 1 <=> i + PromptLimit >= n
    BY <1>3, ChatAssumption
  <2> QED
    BY <1>8, <1>9, <2>1
<1> QED
  BY <1>2, <1>6, <1>7, <1>10, <1>11

LEMMA PairsFollow ==
    ASSUME HistoryInv PROVE AnswersFollowQuestions /\ StoredTurnsAreWhole
<1> SUFFICES ASSUME NEW c \in Convs
             PROVE  LET log == Unstreamed(c) IN
               /\ \A i \in DOMAIN log : log[i].role = "assistant" =>
                    i > 1 /\ log[i - 1] = [log[i] EXCEPT !.role = "user"]
               /\ \A i \in DOMAIN log : log[i].role = "user" /\ log[i].stored =>
                    i < Len(log) /\ log[i + 1] = [log[i] EXCEPT !.role = "assistant"]
  BY DEF AnswersFollowQuestions, StoredTurnsAreWhole
<1> DEFINE log == Talk(messages[c])
           n == Len(log)
<1>1. ChatInv /\ ConvOK(c)
  BY DEF HistoryInv, ChatInv
<1>2. /\ \A i \in 1..n : log[i].role = "assistant" => i > 1 /\ Answered(log[i - 1], log[i])
      /\ \A i \in 1..n : log[i].role = "user" /\ i < n => Answered(log[i], log[i + 1])
      /\ n > 0 /\ log[n].role = "user" => ~log[n].stored
  BY <1>1 DEF ConvOK, Orderly
<1>3. n \in Nat /\ DOMAIN log = 1..n /\ \A i \in 1..n : log[i] \in Message
  BY <1>1, LogOf, KeptLogs, LenProperties, ElementOfSeq
<1> HIDE DEF log, n
<1>4. \A q, a \in Message : Answered(q, a) =>
        q = [a EXCEPT !.role = "user"] /\ a = [q EXCEPT !.role = "assistant"]
  BY DEF Answered, Message
<1>5. ASSUME NEW i \in 1..n, log[i].role = "assistant"
      PROVE  i > 1 /\ log[i - 1] = [log[i] EXCEPT !.role = "user"]
  <2>1. i > 1 /\ Answered(log[i - 1], log[i]) /\ i - 1 \in 1..n
    BY <1>2, <1>3, <1>5
  <2> QED
    BY <2>1, <1>3, <1>4
<1>6. ASSUME NEW i \in 1..n, log[i].role = "user", log[i].stored
      PROVE  i < n /\ log[i + 1] = [log[i] EXCEPT !.role = "assistant"]
  <2>1. i # n
    BY <1>2, <1>3, <1>6
  <2>2. i < n /\ i + 1 \in 1..n
    BY <2>1, <1>3
  <2>3. Answered(log[i], log[i + 1])
    BY <2>2, <1>2, <1>6
  <2> QED
    BY <2>2, <2>3, <1>3, <1>4
<1>7. Unstreamed(c) = log
  BY Unstreamedly DEF log
<1> QED
  BY <1>3, <1>5, <1>6, <1>7 DEF n

-----------------------------------------------------------------------------
(* Theorems                                                                *)

\* The invariant holds in every state of every behaviour.
LEMMA HistoryInvariant == HistorySpec => []HistoryInv
<1>1. HistoryInit => HistoryInv
  BY HistoryInitially
<1>2. HistoryInv /\ [HistoryNext]_historyVars => HistoryInv'
  BY HistoryStep
<1> QED
  BY <1>1, <1>2, PTL DEF HistorySpec

\* Sessions, messages, locks, retention records and the cleanup keep their
\* types; the holder of a row is a turn in that conversation, and a
\* conversation whose row is not committed has no record and nothing stored.
THEOREM HistoryTypeCorrect == HistorySpec => []HistoryTypeOK
<1>1. HistoryInv => HistoryTypeOK
  BY HistoryTyped
<1> QED
  BY <1>1, HistoryInvariant, PTL

\* POST /chat/chat and the web socket: however turns, streams and the cleanup
\* interleave, only what was said before the question reaches its prompt, and
\* in a conversation the query reads whole what is offered are the messages
\* just before the question.  (In a longer one they are old: nothing is claimed.)
THEOREM PromptsAreHistory == HistorySpec => []PromptIsWhatCameBefore
<1>1. HistoryInv => PromptIsWhatCameBefore
  BY PromptFollows
<1> QED
  BY <1>1, HistoryInvariant, PTL

\* Turns of a conversation do not overlap: the answer stands behind its own
\* question, of any number of requests and sockets.
THEOREM TurnsDoNotOverlap == HistorySpec => []AnswersFollowQuestions
<1>1. HistoryInv => AnswersFollowQuestions
  BY PairsFollow
<1> QED
  BY <1>1, HistoryInvariant, PTL

\* A question of a request or of a web socket is stored with its answer or not
\* at all, whatever fails.  Nothing is claimed of the questions of streams.
THEOREM TurnsAreAtomic == HistorySpec => []StoredTurnsAreWhole
<1>1. HistoryInv => StoredTurnsAreWhole
  BY PairsFollow
<1> QED
  BY <1>1, HistoryInvariant, PTL

\* cleanup_old_conversations deletes no conversation that is pinned when it
\* commits: a record keeps its conversation.
THEOREM PinnedIsNeverDeleted == HistorySpec => PinnedSurvives
<1>1. ASSUME HistoryNext, NEW c \in live, retention[c] = "pinned"
      PROVE  c \in live'
  <2>1. CASE Turns
    BY <2>1, LiveGrows DEF Turns
  <2>2. CASE CleanupCommit
    BY <1>1, <2>2 DEF CleanupCommit, Deletable
  <2>3. CASE live' = live
    BY <2>3
  <2> QED
    BY <1>1, <2>1, <2>2, <2>3 DEF HistoryNext, ListHistory, CleanupSelect, CleanupLoad,
                                  CleanupFail, Age, Archive, Pin
<1>2. [HistoryNext]_historyVars =>
        [\A c \in live : retention[c] = "pinned" => c \in live']_historyVars
  BY <1>1
<1> QED
  BY <1>2, PTL DEF HistorySpec, PinnedSurvives

=============================================================================
