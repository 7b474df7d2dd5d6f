---------------------------- MODULE ChatHistory ----------------------------
(***************************************************************************)
(* ChatHistoryService beside the turns of the conversations: the retention *)
(* record that archiving, pinning and listing create, and the cleanup that *)
(* deletes a user's old conversations in one transaction.                  *)
(*                                                                         *)
(* A record refers to its conversation by a foreign key that may not be    *)
(* null and does not cascade.  The storage counted, the archive flag and   *)
(* the cached conversations are left out: nothing here reads them.         *)
(***************************************************************************)
EXTENDS ChatTurns, FiniteSets

VARIABLES
    retention,  \* by conversation: no record, a record, a pinned record
    old,        \* conversations updated before the cutoff
    cleanup     \* the cleanup under way

historyVars == <<live, messages, selection, lock, turn, retention, old, cleanup>>

Stored(c) == Cardinality({i \in DOMAIN messages[c] : messages[c][i].stored})

NoCleanup == [at |-> "idle", chosen |-> {}, loaded |-> [c \in Convs |-> 0]]

HistoryTypeOK ==
    /\ ChatTypeOK
    /\ retention \in [Convs -> {"none", "plain", "pinned"}]
    /\ old \subseteq live
    /\ cleanup \in [at : {"idle", "selected", "loaded"}, chosen : SUBSET Convs,
                    loaded : [Convs -> Nat]]
    /\ \A c \in Convs \ live : retention[c] = "none" /\ Stored(c) = 0

HistoryInit ==
    /\ ChatInit
    /\ retention = [c \in Convs |-> "none"] /\ old = {} /\ cleanup = NoCleanup

-----------------------------------------------------------------------------
\* A turn or a message of a stream updates the conversation it is stored in.
Turns ==
    /\ ChatNext
    /\ old' = {c \in old : Stored(c)' = Stored(c)}
    /\ UNCHANGED <<retention, cleanup>>

\* Days pass without a message.
Age(c) ==
    /\ c \in live \ old /\ old' = old \cup {c}
    /\ UNCHANGED <<live, messages, selection, lock, turn, retention, cleanup>>

\* A record that exists keeps what the user has chosen.
Record(chosen) ==
    [c \in Convs |-> IF c \in chosen /\ retention[c] = "none" THEN "plain"
                                                               ELSE retention[c]]

\* GET /chat/history: the deletion of the old conversations is scheduled, on a
\* record.  Nothing ever carries it out.
ListHistory ==
    /\ retention' = Record(old)
    /\ UNCHANGED <<live, messages, selection, lock, turn, old, cleanup>>

\* POST .../archive.
Archive(c) ==
    /\ c \in live /\ retention' = Record({c})
    /\ UNCHANGED <<live, messages, selection, lock, turn, old, cleanup>>

\* POST .../pin.
Pin(c, pinned) ==
    /\ c \in live
    /\ retention' = [retention EXCEPT ![c] = IF pinned THEN "pinned" ELSE "plain"]
    /\ UNCHANGED <<live, messages, selection, lock, turn, old, cleanup>>

\* DELETE /chat/cleanup.
CleanupSelect ==
    /\ cleanup.at = "idle"
    /\ LET chosen == {c \in old : retention[c] # "pinned"} IN
         chosen # {} /\ cleanup' = [cleanup EXCEPT !.at = "selected", !.chosen = chosen]
    /\ UNCHANGED <<live, messages, selection, lock, turn, retention, old>>

\* The messages are read and marked for deletion with their conversations.
CleanupLoad ==
    /\ cleanup.at = "selected"
    /\ cleanup' = [cleanup EXCEPT !.at = "loaded",
         !.loaded = [c \in Convs |-> IF c \in cleanup.chosen THEN Stored(c) ELSE 0]]
    /\ UNCHANGED <<live, messages, selection, lock, turn, retention, old>>

\* Mutant: the records go with their conversations.
DeletableRecorded(c) == Stored(c) = cleanup.loaded[c]

\* The mapper sets the key of a record to null, which the database refuses; a
\* message added since keeps its conversation too.
Deletable(c) == retention[c] = "none" /\ Stored(c) = cleanup.loaded[c]

\* The commit waits for the rows that turns hold.  One conversation that cannot
\* be deleted, and none is.
CleanupCommit ==
    /\ cleanup.at = "loaded" /\ cleanup' = NoCleanup
    /\ \A c \in cleanup.chosen : lock[c] = "free"
    /\ LET deleted == IF \A c \in cleanup.chosen : Deletable(c)
                      THEN cleanup.chosen ELSE {} IN
         /\ live' = live \ deleted /\ old' = old \ deleted
         /\ messages' = [c \in Convs |-> IF c \in deleted
              THEN Kept(messages[c], {m \in Message : ~m.stored}) ELSE messages[c]]
         /\ retention' = [c \in Convs |-> IF c \in deleted THEN "none"
                                                           ELSE retention[c]]
    /\ UNCHANGED <<selection, lock, turn>>

\* A statement fails, or the server stops.
CleanupFail ==
    /\ cleanup.at # "idle" /\ cleanup' = NoCleanup
    /\ UNCHANGED <<live, messages, selection, lock, turn, retention, old>>

HistoryNext ==
    \/ Turns \/ ListHistory \/ CleanupSelect \/ CleanupLoad \/ CleanupCommit
    \/ CleanupFail
    \/ \E c \in Convs : Age(c) \/ Archive(c)
                       \/ \E pinned \in BOOLEAN : Pin(c, pinned)

HistorySpec == HistoryInit /\ [][HistoryNext]_historyVars

-----------------------------------------------------------------------------
(* Safety                                                                  *)

\* "Pinned conversations never auto-delete", also one that is pinned after the
\* cleanup has chosen it.
PinnedSurvives ==
    [][\A c \in live : retention[c] = "pinned" => c \in live']_historyVars
=============================================================================
