------------------------------ MODULE MCWindow ------------------------------
(* The window of the application: the list of mail with the reading pane, and  *)
(* the composer.  They share no state that both change, so a behaviour takes    *)
(* the steps of one of them.                                                    *)
EXTENDS Naturals, Sequences, FiniteSets, TLC

CONSTANTS Threads, Queries, None, MaxIds, MaxInputs, MaxPulls,
          Texts, Blank, MaxDrafts, MaxSends, MaxFloats, MaxPresses

VARIABLES part,
    list, engine, selected, opened, pane, loads, ran, query, hits, searches, label,
    folders, bulk, refreshing, calls, rows, undo, undoing, undone, inputs, pulls,
    composer, initial, drafts, nextId, saved, onSend, sends, undoSend, late, twice,
    split

inboxVars == <<list, engine, selected, opened, pane, loads, ran, query, hits, searches, label,
               folders, bulk, refreshing, calls, rows, undo, undoing, undone, inputs, pulls>>
composeVars == <<composer, initial, drafts, nextId, saved, onSend, sends, undoSend, late, twice,
                 split>>

I == INSTANCE Inbox
C == INSTANCE Compose WITH calls <- onSend, rows <- sends, undo <- undoSend

ASSUME WindowAssumption ==
    /\ IsFiniteSet(Threads) /\ None \notin Threads
    /\ MaxIds \in Nat \ {0} /\ None \notin 0..MaxIds
    /\ MaxDrafts \in Nat /\ MaxSends \in Nat

Init == part \in {"inbox", "compose"} /\ I!Init /\ C!Init

Next ==
    \/ part = "inbox" /\ I!Next /\ UNCHANGED <<part, composeVars>>
    \/ part = "compose" /\ C!Next /\ UNCHANGED <<part, inboxVars>>

Spec == Init /\ [][Next]_<<part, inboxVars, composeVars>>

Symmetry == Permutations(Threads) \cup Permutations(Queries) \cup Permutations(Texts)

\* The types of the two modules.
TypeOK == I!TypeOK /\ C!TypeOK

\* Inbox: the pane and the search show what is opened and asked now, and the pane does
\* show it, or says that it cannot.
ReadingPane == I!ShownIsCurrent /\ I!PaneAnswers

\* Inbox: after an undo nothing of the action waits in the outbox.
UndoneIsOver == I!UndoneIsOver

\* Compose: what was typed is saved, about to be, or reported as not saved.
SettledIsSaved == C!SettledIsSaved

\* Compose: a message leaves twice only in the three ways the code has.
SecondCopyExplained == C!SecondCopyExplained
=============================================================================
