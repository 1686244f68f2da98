------------------------------ MODULE Compose ------------------------------
(***************************************************************************)
(* Writing a message: the composer (ComposeModal.tsx), the floating draft  *)
(* windows, and the undo snackbar of a queued send, as App.tsx wires them. *)
(* The outbox behind them is module Outbox; here a row is only held, sent  *)
(* or cancelled, and saved[d] is the newest content of draft d handed to   *)
(* enqueue("save_draft").                                                  *)
(*                                                                         *)
(* A draft's text stands for all its fields; Blank is what the composer    *)
(* never saves and the form does not submit (to, subject and body empty).  *)
(* A message changes its draft id when it is minimized or expanded: the    *)
(* root of a draft is the id under which its message was begun.  The code  *)
(* keeps no such thing; it is there to tell the copies of one message.     *)
(***************************************************************************)
EXTENDS Naturals, Sequences, FiniteSets

CONSTANTS Texts, Blank,   \* what the user may have written; nothing yet
          MaxDrafts,      \* draft ids handed out
          MaxSends,       \* rows enqueued with kind "send"
          MaxFloats,      \* floating windows at once
          MaxPresses      \* calls of onSend/sendDraft awaiting enqueue

VARIABLES
    composer,  \* the mounted ComposeModal
    initial,   \* composeInitial of App.tsx: NoDraft when undefined
    drafts,    \* the floating windows: id -> text, and its age for the user
    nextId,    \* draft ids used so far
    saved,     \* saved[d]: newest content of d given to the outbox
    calls,     \* calls of onSend and sendDraft awaiting runtime.sync.enqueue
    rows,      \* rows[n]: the n-th "send" row of the outbox
    undo,      \* undoRef.current: the row it cancels, 0 when null or not ours
    \* Ghosts, sets of roots:
    late,      \* the send had left when the user undid it
    twice,     \* the floating window was sent again before its first call returned
    split      \* minimized or expanded while a call was awaiting enqueue

vars == <<composer, initial, drafts, nextId, saved, calls, rows, undo, late, twice, split>>

-----------------------------------------------------------------------------
(* Data *)

Ids == 1..MaxDrafts
AnyText == Texts \cup {Blank}
Draft == [id : Ids \cup {0}, root : Ids \cup {0}, text : AnyText]
NoDraft == [id |-> 0, root |-> 0, text |-> Blank]

\* id 0: not mounted.  timer: the 750 ms timeout of the autosave effect is
\* set; edited: the effect has run since the composer was mounted; rejected:
\* the save of what it holds failed, and the composer said so.
Composer == [id : Ids \cup {0}, root : Ids \cup {0}, text : AnyText, timer : BOOLEAN,
             edited : BOOLEAN, rejected : BOOLEAN, busy : BOOLEAN]
Closed == [id |-> 0, root |-> 0, text |-> Blank, timer |-> FALSE, edited |-> FALSE,
           rejected |-> FALSE, busy |-> FALSE]

Call == [draft : Draft, from : {"composer", "float"}, scheduled : BOOLEAN]

TypeOK ==
    /\ composer \in Composer
    /\ initial \in Draft
    /\ drafts \in SUBSET Draft
    /\ nextId \in 0..MaxDrafts
    /\ saved \in [Ids -> AnyText]
    /\ calls \in Seq(Call)
    /\ rows \in Seq([draft : Draft, from : {"composer", "float"},
                     state : {"held", "sent", "cancelled"}])
    /\ undo \in 0..MaxSends
    /\ late \subseteq Ids /\ twice \subseteq Ids /\ split \subseteq Ids

IsOpen == composer.id # 0

Init ==
    /\ composer = Closed /\ initial = NoDraft
    /\ drafts = {} /\ nextId = 0
    /\ saved = [d \in Ids |-> Blank]
    /\ calls = <<>> /\ rows = <<>> /\ undo = 0
    /\ late = {} /\ twice = {} /\ split = {}

-----------------------------------------------------------------------------
(* The composer *)

\* Mutant of Fields: a change of one field leaves the old timeout to fire.
MutantFields(c, t) == [c EXCEPT !.text = t, !.edited = TRUE]

\* Every change of a field runs the autosave effect: the timeout of the former
\* content is cleared and, unless the fields are empty, a new one is set.
Fields(c, t) == IF t = c.text THEN c
                ELSE [c EXCEPT !.text = t, !.timer = t # Blank, !.edited = TRUE,
                               !.rejected = FALSE]

\* Mutant of Shown: a draft that is reopened takes a new id.
MutantShown(d) ==
    IF IsOpen THEN Fields(composer, d.text)
    ELSE [Closed EXCEPT !.id = nextId + 1, !.text = d.text,
                        !.root = IF d.root # 0 THEN d.root ELSE nextId + 1]

\* openCompose: a mounted composer takes over the content and keeps its own
\* draft id (draftId is a ref); a new one takes the id of the draft, or a new
\* id for one that has none.  The message is that of the draft, if it has one.
Shown(d) ==
    IF IsOpen
    THEN [Fields(composer, d.text) EXCEPT !.root = IF d.root # 0 THEN d.root ELSE composer.root]
    ELSE [Closed EXCEPT !.id = IF d.id # 0 THEN d.id ELSE nextId + 1, !.text = d.text,
                        !.root = IF d.root # 0 THEN d.root ELSE nextId + 1]

OpenCompose(d) ==
    /\ IsOpen \/ d.id # 0 \/ nextId < MaxDrafts
    /\ initial' = d
    /\ composer' = Shown(d)
    /\ nextId' = IF IsOpen \/ d.id # 0 THEN nextId ELSE nextId + 1

\* The compose command (d = NoDraft; also under an open composer, from the
\* bottom bar of the phone layout), Reply, Reply all and Forward.
Open(t) ==
    /\ t = Blank \/ ~IsOpen
    /\ OpenCompose([NoDraft EXCEPT !.text = t])
    /\ UNCHANGED <<drafts, saved, calls, rows, undo, late, twice, split>>

\* The user edits a field, adds or removes an attachment, changes the account.
Type(t) ==
    /\ IsOpen /\ t # composer.text
    /\ composer' = Fields(composer, t)
    /\ UNCHANGED <<initial, drafts, nextId, saved, calls, rows, undo, late, twice, split>>

\* App renders again for any reason (a poll, Escape in a field).  A composer
\* that was opened blank is handed a new initialDraft object, and the effect
\* on it sets every field back.
Render ==
    /\ IsOpen /\ initial = NoDraft
    /\ composer' = Fields(composer, Blank)
    /\ UNCHANGED <<initial, drafts, nextId, saved, calls, rows, undo, late, twice, split>>

\* The timeout of the autosave effect: onSaveDraft(current).
Autosave ==
    /\ composer.timer
    /\ composer' = [composer EXCEPT !.timer = FALSE]
    /\ saved' = [saved EXCEPT ![composer.id] = composer.text]
    /\ UNCHANGED <<initial, drafts, nextId, calls, rows, undo, late, twice, split>>

\* enqueue rejects the save: its message takes the place of "Saving draft...",
\* and nothing tries again before the next edit.
AutosaveFails ==
    /\ composer.timer
    /\ composer' = [composer EXCEPT !.timer = FALSE, !.rejected = TRUE]
    /\ UNCHANGED <<initial, drafts, nextId, saved, calls, rows, undo, late, twice, split>>

\* Close and Back drop what the timer had not saved yet; Back does not reset
\* composeInitial, which the next opening does.
Close ==
    /\ IsOpen
    /\ composer' = Closed
    /\ initial' \in {initial, NoDraft}
    /\ UNCHANGED <<drafts, nextId, saved, calls, rows, undo, late, twice, split>>

\* A call for this message is awaiting enqueue.
Awaited(root) == \E i \in DOMAIN calls : calls[i].draft.root = root
Splits(root) == split' = IF Awaited(root) THEN split \cup {root} ELSE split

\* minimizeCompose: the floating window is a draft with an id of its own.
\* Nothing keeps the user from it while onSend is awaited.
Minimize ==
    /\ IsOpen /\ Cardinality(drafts) < MaxFloats /\ nextId < MaxDrafts
    /\ drafts' = drafts \cup {[id |-> nextId + 1, root |-> composer.root, text |-> composer.text]}
    /\ nextId' = nextId + 1
    /\ composer' = Closed /\ initial' = NoDraft
    /\ Splits(composer.root)
    /\ UNCHANGED <<saved, calls, rows, undo, late, twice>>

\* expandDraft and closeDraft; the scrim of an open composer covers the windows.
Expand(d) ==
    /\ ~IsOpen /\ d \in drafts
    /\ OpenCompose([d EXCEPT !.id = 0])
    /\ drafts' = drafts \ {d}
    /\ Splits(d.root)
    /\ UNCHANGED <<saved, calls, rows, undo, late, twice>>

Discard(d) ==
    /\ ~IsOpen /\ d \in drafts
    /\ drafts' = drafts \ {d}
    /\ UNCHANGED <<composer, initial, nextId, saved, calls, rows, undo, late, twice, split>>

-----------------------------------------------------------------------------
(* Sending and undoing *)

CanCall == Len(calls) < MaxPresses /\ Len(rows) + Len(calls) < MaxSends

\* onSubmit: the button is disabled and the shortcut ignored while busy.
Submit(scheduled) ==
    /\ IsOpen /\ ~composer.busy /\ composer.text # Blank /\ CanCall
    /\ composer' = [composer EXCEPT !.busy = TRUE]
    /\ calls' = Append(calls, [draft |-> [id |-> composer.id, root |-> composer.root,
                                         text |-> composer.text],
                               from |-> "composer", scheduled |-> scheduled])
    /\ UNCHANGED <<initial, drafts, nextId, saved, rows, undo, late, twice, split>>

\* sendDraft: the window stays, and can be pressed again, until enqueue returns.
SendFloat(d) ==
    /\ ~IsOpen /\ d \in drafts /\ CanCall
    /\ calls' = Append(calls, [draft |-> d, from |-> "float", scheduled |-> FALSE])
    /\ twice' = IF \E i \in DOMAIN calls : calls[i].draft = d
                THEN twice \cup {d.root} ELSE twice
    /\ UNCHANGED <<composer, initial, drafts, nextId, saved, rows, undo, late, split>>

\* enqueue has returned: the row is held for the undo window or until its
\* time, whatever composer is open now is closed, and the snackbar's undo
\* takes the place of the former one.
Queued ==
    /\ calls # <<>>
    /\ LET c == Head(calls) IN
       /\ rows' = Append(rows, [draft |-> c.draft, from |-> c.from, state |-> "held"])
       /\ IF c.from = "composer"
          THEN composer' = Closed /\ initial' = NoDraft /\ UNCHANGED drafts
          ELSE drafts' = {d \in drafts : d.id # c.draft.id} /\ UNCHANGED <<composer, initial>>
       /\ undo' = IF c.scheduled THEN undo ELSE Len(rows) + 1
    /\ calls' = Tail(calls)
    /\ UNCHANGED <<nextId, saved, late, twice, split>>

\* enqueue is rejected by the store: finally resets busy.
QueueFails ==
    /\ calls # <<>>
    /\ composer' = IF Head(calls).from = "composer" /\ Head(calls).draft.id = composer.id
                   THEN [composer EXCEPT !.busy = FALSE] ELSE composer
    /\ calls' = Tail(calls)
    /\ UNCHANGED <<initial, drafts, nextId, saved, rows, undo, late, twice, split>>

\* The undo window has passed, or the scheduled time, and a flush sends the row.
Flush(n) ==
    /\ rows[n].state = "held"
    /\ rows' = [rows EXCEPT ![n].state = "sent"]
    /\ UNCHANGED <<composer, initial, drafts, nextId, saved, calls, undo, late, twice, split>>

\* Mutant of Undo: the draft is given back, the outbox leaves the row to be sent.
MutantUndo ==
    /\ undo # 0
    /\ LET r == rows[undo] IN
       /\ IF r.from = "composer" THEN OpenCompose(r.draft) /\ UNCHANGED drafts
          ELSE drafts' = drafts \cup {r.draft} /\ UNCHANGED <<composer, initial, nextId>>
       /\ late' = IF r.state = "sent" THEN late \cup {r.draft.root} ELSE late
    /\ undo' = 0
    /\ UNCHANGED <<saved, calls, rows, twice, split>>

\* The snackbar's button, or the undo command, which keeps the function after
\* the snackbar is gone.  cancelOutbox cancels a row that has not left; its
\* answer is not looked at, and the draft is given back either way.
Undo ==
    /\ undo # 0
    /\ LET r == rows[undo] IN
       /\ rows' = IF r.state = "held" THEN [rows EXCEPT ![undo].state = "cancelled"] ELSE rows
       /\ IF r.from = "composer" THEN OpenCompose(r.draft) /\ UNCHANGED drafts
          ELSE drafts' = drafts \cup {r.draft} /\ UNCHANGED <<composer, initial, nextId>>
       /\ late' = IF r.state = "sent" THEN late \cup {r.draft.root} ELSE late
    /\ undo' = 0
    /\ UNCHANGED <<saved, calls, twice, split>>

\* Another change presents its own snackbar: only the newest undo is active.
OtherUndo ==
    /\ undo # 0
    /\ undo' = 0
    /\ UNCHANGED <<composer, initial, drafts, nextId, saved, calls, rows, late, twice, split>>

Next ==
    \/ \E t \in AnyText : Open(t) \/ Type(t)
    \/ Render \/ Autosave \/ AutosaveFails \/ Close \/ Minimize
    \/ \E d \in drafts : Expand(d) \/ Discard(d) \/ SendFloat(d)
    \/ \E scheduled \in BOOLEAN : Submit(scheduled)
    \/ Queued \/ QueueFails \/ Undo \/ OtherUndo
    \/ \E n \in DOMAIN rows : Flush(n)

Spec == Init /\ [][Next]_vars

-----------------------------------------------------------------------------
(* Properties *)

\* What was edited in the open composer and is not blank has been handed to
\* the outbox, or the timeout that will do it is running, or the composer says
\* that its save failed: whatever the order of edits, timeouts, undone sends
\* and renders (the autosave effect).
SettledIsSaved ==
    composer.edited /\ composer.text # Blank /\ ~composer.timer /\ ~composer.rejected
        => saved[composer.id] = composer.text

\* Two copies of a message leave, under whatever draft ids, only when the user
\* took back one that had already left, pressed Send twice on a floating
\* window before its call returned, or minimized or expanded the message while
\* a call for it was awaited: the busy flag, the cancellation and the reopened
\* composer keep every other message from being sent twice.
SecondCopyExplained ==
    \A n, m \in DOMAIN rows :
        n # m /\ rows[n].state = "sent" /\ rows[m].state = "sent"
              /\ rows[n].draft.root = rows[m].draft.root
            => rows[n].draft.root \in late \cup twice \cup split
=============================================================================
