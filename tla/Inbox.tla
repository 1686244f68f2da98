------------------------------- MODULE Inbox -------------------------------
(* The inbox of App.tsx: the list of threads the window shows, which is a copy *)
(* of the engine's, the reading pane, the search, and triage with its undo.    *)
(*                                                                             *)
(* A thread is its folder, whether it is unread and which messages it has; the *)
(* effects of React run in one step after the change that made them due.       *)
EXTENDS Naturals, Sequences, FiniteSets

CONSTANTS
    Threads, Queries, None,
    MaxIds,         \* versions of the messages of a thread, 0 for no message
    MaxInputs,      \* what the user does
    MaxPulls        \* changes the engine pulls

VARIABLES
    list,       \* threads
    engine,     \* sync.localThreads
    selected, opened,
    pane,       \* message, threadMessages, threadLoading, threadLoadError
    loads,      \* loads of a thread, running or overtaken
    ran,        \* the dependencies the effects last ran with
    query, hits, searches,  \* searchQuery, searchMessageIds, searches running or overtaken
    label, folders,         \* activeLabel; folders[f]: not synced, loading or synced
    bulk,       \* bulkSelection
    refreshing, \* pulls of the window on their way
    calls,      \* enqueues not answered yet
    rows,       \* rows of the outbox that have an undo: their action, what became of them
    undo,       \* undoRef: the action it takes back, 0 for none
    undoing,    \* the rows a running undo still has to cancel
    undone,     \* actions taken back before any of their rows had left
    inputs, pulls

vars == <<list, engine, selected, opened, pane, loads, ran, query, hits, searches, label,
          folders, bulk, refreshing, calls, rows, undo, undoing, undone, inputs, pulls>>
reading == <<pane, loads, ran>>
searching == <<query, hits, searches>>
outbox == <<calls, rows, undo, undoing, undone>>

-----------------------------------------------------------------------------
(* Data.                                                                      *)

Folders == {"INBOX", "ARCHIVE", "OTHER"}
Thread == [folder : Folders, unread : BOOLEAN, ids : 0..MaxIds]
Absent == [folder |-> "OTHER", unread |-> FALSE, ids |-> MaxIds + 1]
Lists == [Threads -> Thread \cup {Absent}]
In(l) == {t \in Threads : l[t] # Absent}

Nothing == [of |-> None, loading |-> FALSE, error |-> FALSE]
Kinds == {"archive", "trash", "spam", "snooze", "star", "mark_read", "mark_unread",
          "apply_label", "move_folder"}
Immediate == {"mark_read", "mark_unread"}

\* What the list shows of a thread after a change of that kind.
Shown(th, kind) ==
    CASE kind \in {"archive", "snooze"} ->
            [th EXCEPT !.folder = IF @ = "INBOX" THEN "ARCHIVE" ELSE @]
      [] kind \in {"trash", "spam", "move_folder"} -> [th EXCEPT !.folder = "OTHER"]
      [] kind \in Immediate -> [th EXCEPT !.unread = kind = "mark_unread"]
      [] OTHER -> th

Changed(targets, kind) ==
    [t \in Threads |-> IF t \in targets /\ list[t] # Absent THEN Shown(list[t], kind)
                       ELSE list[t]]

\* filteredThreads: a search spans the folders.
Visible == {t \in In(list) : query # None \/ list[t].folder = label}

\* openedFetchKey, and the dependencies of the other effects.
FetchKey == IF opened = None THEN <<None, None>>
            ELSE <<opened, IF opened \in In(list) THEN list[opened].ids ELSE None>>
Deps == [key |-> FetchKey, opened |-> opened, query |-> query, label |-> label]
Due == ran # Deps
\* What the user did is followed by its effects before anything else runs; after a change
\* made by an answer another answer may come first.
Urgent == ran.query # query \/ ran.label # label \/ (opened # None /\ ran.opened # opened)

TypeOK ==
    /\ list \in Lists /\ engine \in Lists
    /\ selected \in Threads \cup {None} /\ opened \in Threads \cup {None}
    /\ pane \in [of : Threads \cup {None}, loading : BOOLEAN, error : BOOLEAN]
    /\ loads \subseteq [of : Threads, ids : 0..MaxIds, pc : {"thread", "messages"}, live : BOOLEAN]
    /\ query \in Queries \cup {None} /\ hits \in Queries \cup {None}
    /\ searches \subseteq [of : Queries, live : BOOLEAN]
    /\ label \in Folders /\ folders \in [Folders -> {"no", "loading", "synced"}]
    /\ bulk \subseteq Threads /\ refreshing \subseteq {"hydrate", "refresh"}
    /\ \A i \in DOMAIN rows : rows[i].state \in {"held", "sent", "cancelled"}
    /\ undoing \subseteq DOMAIN rows

Input == inputs < MaxInputs /\ inputs' = inputs + 1

-----------------------------------------------------------------------------
(* The effects.                                                               *)

\* The load of the thread that was open is overtaken; the open one is loaded, unless
\* the list has lost it.
Overtaken == {[l EXCEPT !.live = FALSE] : l \in loads}

LoadThread ==
    IF ran.key = FetchKey THEN UNCHANGED <<pane, loads>>
    ELSE \/ opened = None /\ pane' = Nothing /\ loads' = Overtaken
         \/ opened # None /\ opened \notin In(list) /\ loads' = Overtaken /\ UNCHANGED pane
         \/ /\ opened \in In(list) /\ list[opened].ids = 0
            /\ pane' = [Nothing EXCEPT !.error = TRUE] /\ loads' = Overtaken
         \/ /\ opened \in In(list) /\ list[opened].ids # 0
            /\ pane' = [Nothing EXCEPT !.loading = TRUE]
            /\ loads' = Overtaken \cup
                  {[of |-> opened, ids |-> list[opened].ids, pc |-> "thread", live |-> TRUE]}

\* Opening a thread marks it read.
MarksRead == ran.opened # opened /\ opened \in In(list) /\ list[opened].unread
                /\ list[opened].ids # 0

MarkOpenedRead == list' = IF MarksRead THEN Changed({opened}, "mark_read") ELSE list

\* Prior hits are dropped at once; the debounced search of the former query is overtaken.
SearchMailbox ==
    IF ran.query = query THEN UNCHANGED <<hits, searches>>
    ELSE /\ hits' = None
         /\ searches' = {[s EXCEPT !.live = FALSE] : s \in searches} \cup
               (IF query = None THEN {} ELSE {[of |-> query, live |-> TRUE]})

\* A folder other than the inbox is synchronised once; leaving it earlier cancels that.
SyncLabel ==
    LET left == [f \in Folders |-> IF folders[f] = "loading" THEN "no" ELSE folders[f]] IN
    folders' = IF ran.label = label THEN folders
               ELSE IF label # "INBOX" /\ left[label] = "no" THEN [left EXCEPT ![label] = "loading"]
               ELSE left

Effects ==
    /\ Due
    /\ LoadThread /\ MarkOpenedRead /\ SearchMailbox /\ SyncLabel
    /\ ran' = Deps
    /\ UNCHANGED <<engine, selected, opened, query, label, bulk, refreshing, outbox, inputs,
                   pulls>>

-----------------------------------------------------------------------------
(* Answers to what the effects asked for.                                     *)

unread == <<engine, selected, opened, ran, searching, label, folders, bulk, refreshing,
            outbox, inputs, pulls>>

\* getThread: the membership the provider knows replaces that of the list, also for a
\* load that was overtaken; an unknown thread is loaded as the list has it.
GetThread(l) ==
    /\ l.pc = "thread"
    /\ \E n \in {l.ids} \cup 1..MaxIds :
          /\ list' = [t \in Threads |->
                        IF t = l.of /\ n # l.ids /\ t \in In(list) THEN [list[t] EXCEPT !.ids = n]
                        ELSE list[t]]
          /\ loads' = (loads \ {l}) \cup {[l EXCEPT !.pc = "messages", !.ids = n]}
    /\ UNCHANGED <<pane, unread>>

\* Mutant of ShowMessages: a load that was superseded shows its thread all the same.
MutantShows(l) ==
    /\ l.pc = "messages"
    /\ loads' = loads \ {l}
    /\ pane' = [Nothing EXCEPT !.of = l.of]
    /\ UNCHANGED <<list, unread>>

\* The messages that could be loaded are shown.
ShowMessages(l) ==
    /\ l.pc = "messages"
    /\ loads' = loads \ {l}
    /\ pane' = IF l.live THEN [Nothing EXCEPT !.of = l.of] ELSE pane
    /\ UNCHANGED <<list, unread>>

\* No message could be loaded, or the provider does not answer.
LoadFails(l) ==
    /\ loads' = loads \ {l}
    /\ pane' = IF l.live THEN [pane EXCEPT !.loading = FALSE, !.error = TRUE] ELSE pane
    /\ UNCHANGED <<list, unread>>

unfound == <<engine, selected, opened, reading, query, label, folders, bulk, refreshing,
             outbox, inputs, pulls>>

\* The hits, and the threads the search has stored.
SearchFound(s) ==
    /\ searches' = searches \ {s}
    /\ IF s.live THEN hits' = s.of /\ list' = engine ELSE UNCHANGED <<hits, list>>
    /\ UNCHANGED unfound

SearchFailed(s) == searches' = searches \ {s} /\ UNCHANGED <<hits, list, unfound>>

LabelSynced ==
    /\ folders[label] = "loading"
    /\ \/ folders' = [folders EXCEPT ![label] = "synced"] /\ list' = engine
       \/ folders' = [folders EXCEPT ![label] = "no"] /\ UNCHANGED list
    /\ UNCHANGED <<engine, selected, opened, reading, searching, label, bulk, refreshing,
                   outbox, inputs, pulls>>

-----------------------------------------------------------------------------
(* The list.                                                                  *)

\* pullDeltas, as far as the list can tell.
Pull(t, th) ==
    /\ pulls < MaxPulls /\ pulls' = pulls + 1
    /\ engine' = [engine EXCEPT ![t] = th]
    /\ UNCHANGED <<list, selected, opened, reading, searching, label, folders, bulk,
                   refreshing, outbox, inputs>>

\* hydrateRuntime, when the runtime is there and when its first pull has returned.
HydrateRuntime ==
    /\ Input
    /\ list' = engine /\ opened' = None /\ bulk' = {}
    /\ selected' \in IF In(engine) = {} THEN {None} ELSE In(engine)
    /\ refreshing' = refreshing \cup {"hydrate"}
    /\ UNCHANGED <<engine, reading, searching, label, folders, outbox, pulls>>

\* The pull to refresh, one at a time.
RefreshInbox ==
    /\ Input /\ "refresh" \notin refreshing
    /\ refreshing' = refreshing \cup {"refresh"}
    /\ UNCHANGED <<list, engine, selected, opened, reading, searching, label, folders, bulk,
                   outbox, pulls>>

\* The pull has returned, or failed and left the list.
Refreshed(by) ==
    /\ by \in refreshing /\ refreshing' = refreshing \ {by}
    /\ \/ list' = engine /\ selected' \in IF by = "hydrate" /\ selected = None /\ In(engine) # {}
                                          THEN In(engine) ELSE {selected}
       \/ UNCHANGED <<list, selected>>
    /\ UNCHANGED <<engine, opened, reading, searching, label, folders, bulk, outbox,
                   inputs, pulls>>

Goes(s, o) ==
    /\ Input /\ selected' = s /\ opened' = o
    /\ UNCHANGED <<list, engine, reading, searching, folders, refreshing, outbox, pulls>>

\* j and k move the reading pane along; Enter and a click open; a click with Shift
\* selects the range and leaves the pane.
Navigate(t) == Goes(t, IF opened = None THEN None ELSE t) /\ UNCHANGED <<label, bulk>>
OpenThread(t) == Goes(t, t) /\ UNCHANGED <<label, bulk>>
RangeSelect(ts, t) == t \in ts /\ Goes(t, opened) /\ bulk' = ts /\ UNCHANGED label
CloseReading == opened # None /\ Goes(selected, None) /\ UNCHANGED <<label, bulk>>
GoToInbox ==
    /\ \E t \in Threads \cup {None} : Goes(t, None) /\ (t \in In(list) \/ In(list) = {})
    /\ label' = "INBOX" /\ UNCHANGED bulk
OpenFolder(f) ==
    /\ f # label /\ \E o \in {opened, None} : Goes(selected, o)
    /\ label' = f /\ UNCHANGED bulk

\* Typing in the search field.
Search(q) ==
    /\ Input /\ query' = q
    /\ UNCHANGED <<list, engine, selected, opened, reading, hits, searches, label, folders,
                   bulk, refreshing, outbox, pulls>>

\* threadLoadNonce makes the effect run again.
RetryLoad ==
    /\ Input /\ pane.error /\ ran' = [ran EXCEPT !.key = <<None>>]
    /\ UNCHANGED <<list, engine, selected, opened, pane, loads, searching, label, folders,
                   bulk, refreshing, outbox, pulls>>

-----------------------------------------------------------------------------
(* Triage.                                                                    *)

\* What an undo gives back to the list: a star or a label of the opened thread left it alone.
Snapshots(kind, targets, ofBulk) ==
    [t \in IF kind = "star" \/ (kind = "apply_label" /\ ~ofBulk) THEN {} ELSE targets |-> list[t]]

\* A row without an undo, of a list that shows its effect already, is left to the outbox.
Enqueues(kind, targets, shown, ofBulk) ==
    /\ Input /\ targets # {}
    /\ calls' = IF kind \in Immediate /\ shown THEN calls
                ELSE Append(calls, [kind |-> kind, targets |-> targets, shown |-> shown,
                                    snap |-> Snapshots(kind, targets, ofBulk), bulk |-> ofBulk])
    /\ list' = IF shown THEN Changed(targets, kind) ELSE list
    /\ UNCHANGED <<engine, reading, searching, label, folders, bulk, refreshing, rows, undo,
                   undoing, undone, pulls>>

Closes(t) == opened' = IF opened = t THEN None ELSE opened

ArchiveSelected ==
    /\ selected \in In(list) /\ list[selected].ids # 0
    /\ Enqueues("archive", {selected}, TRUE, FALSE)
    /\ Closes(selected)
    /\ selected' \in IF Visible \ {selected} = {} THEN {None} ELSE Visible \ {selected}

ToggleReadSelected ==
    /\ selected \in In(list) /\ list[selected].ids # 0
    /\ Enqueues(IF list[selected].unread THEN "mark_read" ELSE "mark_unread", {selected},
                TRUE, FALSE)
    /\ UNCHANGED <<selected, opened>>

TrashSelected ==
    /\ Enqueues("trash", (IF bulk = {} THEN {selected} ELSE bulk) \cap In(list), TRUE, TRUE)
    /\ UNCHANGED <<selected, opened>>

ApplyThreadSwipeAction(t, kind) ==
    /\ kind \in {"archive", "trash"} \/ list[t].ids # 0
    /\ Enqueues(kind, {t}, TRUE, FALSE)
    /\ IF kind \in Immediate THEN UNCHANGED opened ELSE Closes(t)
    /\ UNCHANGED selected

\* trashThread, after an unsubscribe.
TrashThread(t) ==
    /\ pane.of # None /\ t \in {opened, pane.of} /\ t \in In(list)
    /\ Enqueues("trash", {t}, TRUE, FALSE)
    /\ UNCHANGED <<selected, opened>>

\* Both wait for the outbox before the list changes.
MutateOpened(kind) ==
    /\ pane.of # None
    /\ Enqueues(kind, {pane.of}, FALSE, FALSE)
    /\ UNCHANGED <<selected, opened>>

BulkMutate(kind) ==
    /\ Enqueues(kind, bulk \cap In(list), FALSE, TRUE)
    /\ UNCHANGED <<selected, opened>>

\* One row for each thread; a snooze has a second one that wakes the thread up.
RowsOf(c) == Cardinality(c.targets) + IF c.kind = "snooze" THEN 1 ELSE 0
Actions == {rows[i].act : i \in DOMAIN rows}

\* The first n rows of the call are in the outbox, under one action.
WithRows(c, n) ==
    rows \o [i \in 1..n |-> [act |-> Cardinality(Actions) + 1, state |-> "held", snap |-> c.snap]]

Queued ==
    /\ calls # <<>> /\ calls' = Tail(calls)
    /\ LET c == Head(calls) IN
       /\ IF c.kind \in Immediate THEN UNCHANGED <<rows, undo>>
          ELSE rows' = WithRows(c, RowsOf(c)) /\ undo' = Cardinality(Actions) + 1
       /\ list' = IF c.shown THEN list ELSE Changed(c.targets, c.kind)
       /\ opened' = IF c.kind = "spam" /\ ~c.shown THEN None ELSE opened
       /\ bulk' = IF c.bulk THEN {} ELSE bulk
    /\ UNCHANGED <<engine, selected, reading, searching, label, folders, refreshing, undoing,
                   undone, inputs, pulls>>

\* The store rejects one of the rows: the others stay, and no undo is presented for them;
\* what the list shows stays too.
QueueFails ==
    /\ calls # <<>> /\ calls' = Tail(calls)
    /\ LET c == Head(calls) IN
       \/ UNCHANGED rows
       \/ c.kind \notin Immediate /\ \E n \in 1..(RowsOf(c) - 1) : rows' = WithRows(c, n)
    /\ UNCHANGED <<list, engine, selected, opened, reading, searching, label, folders, bulk,
                   refreshing, undo, undoing, undone, inputs, pulls>>

Flush(i) ==
    /\ rows[i].state = "held" /\ rows' = [rows EXCEPT ![i].state = "sent"]
    /\ UNCHANGED <<list, engine, selected, opened, reading, searching, label, folders, bulk,
                   refreshing, calls, undo, undoing, undone, inputs, pulls>>

-----------------------------------------------------------------------------
(* presentUndoToast, the undo command, performUndo.                           *)

OfAction(a) == {i \in DOMAIN rows : rows[i].act = a}

\* Mutant of Undo: it forgets the row that wakes a snoozed thread up.
MutantUndo ==
    /\ undo # 0 /\ undoing = {}
    /\ undo' = 0
    /\ undoing' = {CHOOSE i \in OfAction(undo) : \A j \in OfAction(undo) : i <= j}
    /\ undone' = undone \cup {undo}
    /\ UNCHANGED <<list, engine, selected, opened, reading, searching, label, folders, bulk,
                   refreshing, calls, rows, inputs, pulls>>

Undo ==
    /\ undo # 0 /\ undoing = {}
    /\ undo' = 0
    /\ undoing' = OfAction(undo)
    /\ undone' = undone \cup {undo}
    /\ UNCHANGED <<list, engine, selected, opened, reading, searching, label, folders, bulk,
                   refreshing, calls, rows, inputs, pulls>>

\* cancelOutbox, then, after the last one, the list shows what it showed before.
CancelRow(i) ==
    /\ i \in undoing /\ undoing' = undoing \ {i}
    /\ rows' = IF rows[i].state = "held" THEN [rows EXCEPT ![i].state = "cancelled"] ELSE rows
    /\ list' = IF undoing' # {} THEN list
               ELSE [t \in Threads |-> IF t \in DOMAIN rows[i].snap /\ t \in In(list)
                                       THEN rows[i].snap[t] ELSE list[t]]
    /\ UNCHANGED <<engine, selected, opened, reading, searching, label, folders, bulk,
                   refreshing, calls, undo, undone, inputs, pulls>>

-----------------------------------------------------------------------------

\* What the engine had stored is shown.
Init ==
    /\ engine = [t \in Threads |-> [folder |-> "INBOX", unread |-> TRUE, ids |-> 1]]
    /\ list = engine /\ selected = None /\ opened = None
    /\ pane = Nothing /\ loads = {}
    /\ query = None /\ hits = None /\ searches = {}
    /\ label = "INBOX" /\ folders = [f \in Folders |-> "no"]
    /\ ran = Deps
    /\ bulk = {} /\ refreshing = {}
    /\ calls = <<>> /\ rows = <<>> /\ undo = 0 /\ undoing = {} /\ undone = {}
    /\ inputs = 0 /\ pulls = 0

Others ==
    \/ \E l \in loads : GetThread(l) \/ ShowMessages(l) \/ LoadFails(l)
    \/ \E s \in searches : SearchFound(s) \/ SearchFailed(s)
    \/ LabelSynced \/ HydrateRuntime \/ RefreshInbox
    \/ \E by \in refreshing : Refreshed(by)
    \/ \E t \in Threads :
          Pull(t, Absent) \/ \E f \in Folders : Pull(t, [folder |-> f, unread |-> TRUE, ids |-> MaxIds])
    \/ \E t \in Visible : Navigate(t) \/ OpenThread(t)
    \/ \E ts \in SUBSET Visible, t \in Visible : RangeSelect(ts, t)
    \/ CloseReading \/ GoToInbox \/ RetryLoad
    \/ \E f \in Folders : OpenFolder(f)
    \/ \E q \in (Queries \cup {None}) \ {query} : Search(q)
    \/ ArchiveSelected \/ ToggleReadSelected \/ TrashSelected
    \/ \E t \in Visible, kind \in {"archive", "trash", "spam"} \cup Immediate :
          ApplyThreadSwipeAction(t, kind)
    \/ \E t \in Threads : TrashThread(t)
    \/ \E kind \in {"star", "spam", "snooze", "apply_label"} : MutateOpened(kind)
    \/ \E kind \in {"archive", "apply_label", "move_folder"} \cup Immediate : BulkMutate(kind)
    \/ Queued \/ QueueFails \/ Undo
    \/ \E i \in DOMAIN rows : Flush(i) \/ CancelRow(i)

Next == Effects \/ (~Urgent /\ Others)

Spec == Init /\ [][Next]_vars

-----------------------------------------------------------------------------
(* Properties.                                                                *)

\* Once the effects have run, the pane shows the opened thread or none, whatever loads
\* of others are still on their way, and hits are those of the query in the field.
ShownIsCurrent ==
    ~Due => /\ pane.of \in {None, opened}
            /\ hits \in {None, query}

\* An opened thread that is in the list is shown, was reported as not loadable, or a
\* load that will say so is running: the pane does not stay at "Loading email".
PaneAnswers ==
    ~Due /\ opened \in In(list)
        => pane.of = opened \/ pane.error \/ (pane.loading /\ \E l \in loads : l.live)

\* When an undo has been carried out no row of the action is left that would still leave,
\* those of its other threads and the one that wakes a snoozed thread up included.
UndoneIsOver ==
    undoing = {} => \A i \in DOMAIN rows : rows[i].act \in undone => rows[i].state # "held"
=============================================================================
