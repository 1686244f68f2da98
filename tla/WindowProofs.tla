---------------------------- MODULE WindowProofs ----------------------------
(* The properties of the window (module MCWindow), for any finite set of        *)
(* threads and any number of searches, drafts, floating windows, sends, inputs  *)
(* and answers.                                                                  *)
(*                                                                               *)
(* ComposeInv says where a message may be: what has not been taken back too      *)
(* late, pressed twice or split is in one place only, the composer, a floating   *)
(* window, a call or a row that has left or will; the root of a draft tells      *)
(* which message it is.  InboxInv relates the pane, the loads                    *)
(* and the searches to what the effects last ran for, and the rows still held    *)
(* of an undone action to what the undo has yet to cancel.                       *)
EXTENDS MCWindow, FiniteSetTheorems, TLAPS

-----------------------------------------------------------------------------
(* The composer                                                               *)

\* The messages that may leave twice.
Excused == late \cup twice \cup split

\* The row has left or will.
LiveRow(n) == sends[n].state \in {"held", "sent"}

\* A composer that is not there has nothing to save.
ComposerShape == composer.id = 0 => ~composer.timer /\ ~composer.edited

\* Ids are handed out in order, a root is one of them, and the undo is of a row that has
\* left or will.
Fresh ==
    /\ composer.id <= nextId /\ (composer.id # 0 => composer.root \in 1..nextId)
    /\ \A x \in drafts : x.id \in 1..nextId /\ x.root \in 1..nextId
    /\ \A i \in 1..Len(onSend) :
          onSend[i].draft.id \in 1..nextId /\ onSend[i].draft.root \in 1..nextId
    /\ \A n \in 1..Len(sends) :
          sends[n].draft.id \in 1..nextId /\ sends[n].draft.root \in 1..nextId
    /\ undoSend # 0 => undoSend \in 1..Len(sends) /\ LiveRow(undoSend)

\* onSend is awaited of the composer i-th call, which has draft id d.
Submitted(i, d) == onSend[i].from = "composer" /\ onSend[i].draft.id = d

\* The composer of a draft id submits, then waits busy, then may be undone: one at a time.
Turn ==
    /\ \A i, j \in 1..Len(onSend) :
          onSend[j].from = "composer" /\ Submitted(i, onSend[j].draft.id) => i = j
    /\ \A i \in 1..Len(onSend) : Submitted(i, composer.id) => composer.busy
    /\ undoSend # 0 /\ sends[undoSend].from = "composer" =>
          /\ composer.id # sends[undoSend].draft.id
          /\ \A i \in 1..Len(onSend) : ~Submitted(i, sends[undoSend].draft.id)

\* A message has one row or one call, not both.
OneRow ==
    \A n, m \in 1..Len(sends) :
        /\ LiveRow(n) /\ LiveRow(m)
        /\ sends[n].draft.root = sends[m].draft.root /\ sends[n].draft.root \notin Excused
        => n = m

OneCall ==
    \A i, j \in 1..Len(onSend) :
        onSend[i].draft.root = onSend[j].draft.root /\ onSend[i].draft.root \notin Excused
        => i = j

RowOrCall ==
    \A n \in 1..Len(sends), i \in 1..Len(onSend) :
        LiveRow(n) /\ onSend[i].draft.root = sends[n].draft.root
        => sends[n].draft.root \in Excused

\* The message in the composer has no row, and a call only of this composer.
ComposerHas ==
    composer.id # 0 /\ composer.root \notin Excused =>
        /\ \A n \in 1..Len(sends) : LiveRow(n) => sends[n].draft.root # composer.root
        /\ \A i \in 1..Len(onSend) : onSend[i].draft.root = composer.root =>
              Submitted(i, composer.id)
        /\ \A x \in drafts : x.root # composer.root

\* A floating message has no row, and its only call is its own.
FloatHas ==
    \A x \in drafts : x.root \notin Excused =>
        /\ \A n \in 1..Len(sends) : LiveRow(n) => sends[n].draft.root # x.root
        /\ \A i \in 1..Len(onSend) : onSend[i].draft.root = x.root =>
              onSend[i].draft = x /\ onSend[i].from = "float"
        /\ \A y \in drafts : y.root = x.root => y = x

Holders == Fresh /\ Turn /\ OneRow /\ OneCall /\ RowOrCall /\ ComposerHas /\ FloatHas

\* The rows and calls fit.
Room == Len(sends) + Len(onSend) <= MaxSends

\* The inductive invariant: SecondCopyExplained is about rows only, but what becomes a row
\* is in the composer, in a floating window or in a call before.
ComposeInv ==
    /\ C!TypeOK /\ ComposerShape /\ Room /\ Holders
    /\ C!SettledIsSaved

Row == [draft : C!Draft, from : {"composer", "float"}, state : {"held", "sent", "cancelled"}]

LEMMA ComposeTypes ==
    ASSUME C!TypeOK
    PROVE  /\ onSend \in Seq(C!Call) /\ sends \in Seq(Row)
           /\ Len(onSend) \in Nat /\ Len(sends) \in Nat /\ nextId \in Nat /\ MaxDrafts \in Nat
           /\ MaxSends \in Nat
           /\ DOMAIN onSend = 1..Len(onSend) /\ DOMAIN sends = 1..Len(sends)
           /\ \A i \in 1..Len(onSend) : onSend[i] \in C!Call
           /\ \A n \in 1..Len(sends) : sends[n] \in Row
           /\ composer.id \in 0..MaxDrafts /\ drafts \subseteq C!Draft /\ undoSend \in Nat
<1>1. /\ onSend \in Seq(C!Call) /\ sends \in Seq(Row)
      /\ nextId \in 0..MaxDrafts /\ undoSend \in 0..MaxSends /\ drafts \subseteq C!Draft
  BY DEF C!TypeOK, Row
<1>2. composer \in C!Composer
  BY DEF C!TypeOK
<1>3. composer.id \in C!Ids \cup {0}
  BY <1>2 DEF C!Composer
<1>4. /\ Len(onSend) \in Nat /\ Len(sends) \in Nat
      /\ DOMAIN onSend = 1..Len(onSend) /\ DOMAIN sends = 1..Len(sends)
      /\ \A i \in 1..Len(onSend) : onSend[i] \in C!Call
      /\ \A n \in 1..Len(sends) : sends[n] \in Row
  BY <1>1
<1> QED BY <1>1, <1>3, <1>4, WindowAssumption DEF C!Ids

LEMMA AppendFacts ==
    ASSUME NEW S, NEW s \in Seq(S), NEW e \in S
    PROVE  /\ Append(s, e) \in Seq(S) /\ Len(Append(s, e)) = Len(s) + 1 /\ Len(s) \in Nat
           /\ \A i \in 1..Len(s) : Append(s, e)[i] = s[i]
           /\ Append(s, e)[Len(s) + 1] = e
           /\ \A i \in 1..(Len(s) + 1) : i \in 1..Len(s) \/ i = Len(s) + 1
OBVIOUS

LEMMA ConcatFacts ==
    ASSUME NEW S, NEW s \in Seq(S), NEW u \in Seq(S)
    PROVE  /\ s \o u \in Seq(S) /\ Len(s \o u) = Len(s) + Len(u)
           /\ \A i \in 1..Len(s) : (s \o u)[i] = s[i]
           /\ \A i \in 1..Len(s \o u) :
                 i \in 1..Len(s) \/ (i - Len(s) \in 1..Len(u) /\ (s \o u)[i] = u[i - Len(s)])
           /\ Len(u) > 0 => Len(s) + 1 \in 1..Len(s \o u) /\ (s \o u)[Len(s) + 1] = u[1]
OBVIOUS

LEMMA TailFacts ==
    ASSUME NEW S, NEW s \in Seq(S), s # <<>>
    PROVE  /\ Tail(s) \in Seq(S) /\ Len(Tail(s)) = Len(s) - 1 /\ Len(s) \in Nat \ {0}
           /\ \A i \in 1..Len(Tail(s)) : Tail(s)[i] = s[i + 1] /\ i + 1 \in 1..Len(s)
           /\ Head(s) = s[1] /\ 1 \in 1..Len(s) /\ Head(s) \in S
OBVIOUS

\* What a change of a field leaves of the composer.
LEMMA FieldsFacts ==
    ASSUME NEW c \in C!Composer, NEW t \in C!AnyText
    PROVE  /\ C!Fields(c, t) \in C!Composer
           /\ C!Fields(c, t).id = c.id /\ C!Fields(c, t).busy = c.busy
           /\ C!Fields(c, t).root = c.root
           /\ \/ C!Fields(c, t) = c
              \/ C!Fields(c, t).text = t /\ (C!Fields(c, t).timer <=> t # Blank)
<1>1. CASE t = c.text
  BY <1>1 DEF C!Fields
<1>2. CASE t # c.text
  <2> DEFINE b == t # Blank
             e == [c EXCEPT !.text = t, !.timer = b, !.edited = TRUE, !.rejected = FALSE]
  <2>1. b \in BOOLEAN /\ C!Fields(c, t) = e
    BY <1>2 DEF C!Fields
  <2> HIDE DEF b
  <2>2. /\ e \in C!Composer /\ e.id = c.id /\ e.busy = c.busy /\ e.text = t
        /\ e.timer = b /\ e.root = c.root
    BY <2>1 DEF C!Composer
  <2> QED BY <2>1, <2>2 DEF b
<1> QED BY <1>1, <1>2

LEMMA ShownFacts ==
    ASSUME C!TypeOK, NEW d \in C!Draft, C!IsOpen \/ d.id # 0 \/ nextId < MaxDrafts,
           C!IsOpen => composer.root \in C!Ids,
           d.id # 0 => d.root # 0
    PROVE  /\ C!Shown(d) \in C!Composer /\ C!Shown(d).id # 0
           /\ IF C!IsOpen THEN /\ C!Shown(d).id = composer.id /\ C!Shown(d).busy = composer.busy
                               /\ C!Shown(d).root = IF d.root # 0 THEN d.root ELSE composer.root
                               /\ \/ /\ C!Shown(d).text = composer.text
                                     /\ C!Shown(d).timer = composer.timer
                                     /\ C!Shown(d).edited = composer.edited
                                     /\ C!Shown(d).rejected = composer.rejected
                                  \/ /\ C!Shown(d).text = d.text
                                     /\ C!Shown(d).timer <=> d.text # Blank
              ELSE /\ C!Shown(d).id = IF d.id # 0 THEN d.id ELSE nextId + 1
                   /\ C!Shown(d).root = IF d.root # 0 THEN d.root ELSE nextId + 1
                   /\ ~C!Shown(d).busy /\ ~C!Shown(d).timer /\ ~C!Shown(d).edited
<1>1. composer \in C!Composer /\ nextId \in 0..MaxDrafts /\ MaxDrafts \in Nat
  BY WindowAssumption DEF C!TypeOK
<1>2. CASE C!IsOpen
  <2> DEFINE f == C!Fields(composer, d.text)
             k == IF d.root # 0 THEN d.root ELSE composer.root
             e == [f EXCEPT !.root = k]
  <2>1. /\ f \in C!Composer /\ f.id = composer.id /\ f.busy = composer.busy
        /\ \/ f = composer
           \/ f.text = d.text /\ (f.timer <=> d.text # Blank)
    BY <1>1, FieldsFacts DEF C!Draft
  <2>2. k \in C!Ids /\ C!Shown(d) = e
    BY <1>2 DEF C!Shown, C!Draft
  <2> HIDE DEF f, k
  <2>3. /\ e \in C!Composer /\ e.id = f.id /\ e.busy = f.busy /\ e.root = k
        /\ e.text = f.text /\ e.timer = f.timer /\ e.edited = f.edited
        /\ e.rejected = f.rejected
    BY <2>1, <2>2 DEF C!Composer
  <2> HIDE DEF e
  <2>4. composer.id # 0
    BY <1>2 DEF C!IsOpen
  <2> QED BY <1>2, <2>1, <2>2, <2>3, <2>4 DEF k
<1>3. CASE ~C!IsOpen
  <2> DEFINE k == IF d.id # 0 THEN d.id ELSE nextId + 1
             q == IF d.root # 0 THEN d.root ELSE nextId + 1
             e == [C!Closed EXCEPT !.id = k, !.text = d.text, !.root = q]
  <2>1. k \in C!Ids /\ k # 0 /\ C!Shown(d) = e
    BY <1>1, <1>3 DEF C!Shown, C!Ids, C!Draft, C!IsOpen
  <2>0. q \in C!Ids
    BY <1>1, <1>3 DEF C!Ids, C!Draft, C!IsOpen
  <2> HIDE DEF k, q
  <2>2. /\ e \in C!Composer /\ e.id = k /\ e.root = q
        /\ ~e.busy /\ ~e.timer /\ ~e.edited
    BY <2>0, <2>1 DEF C!Composer, C!Closed, C!Draft
  <2> QED BY <1>3, <2>1, <2>2 DEF k, q
<1> QED BY <1>2, <1>3

\* An open composer holds a message that was begun.
LEMMA RootOfOpen ==
    ASSUME ComposeInv
    PROVE  1..nextId \subseteq C!Ids /\ (C!IsOpen => composer.root \in C!Ids)
<1>1. nextId \in 0..MaxDrafts /\ MaxDrafts \in Nat
  BY WindowAssumption DEF ComposeInv, C!TypeOK
<1>2. 1..nextId \subseteq C!Ids
  BY <1>1 DEF C!Ids
<1> QED BY <1>2 DEF ComposeInv, Holders, Fresh, C!IsOpen

\* No call is of a composer that closed or that has a new id.
LEMMA TurnKept ==
    ASSUME C!TypeOK, Turn, Fresh, UNCHANGED <<onSend, sends, undoSend>>,
           \/ composer'.id = 0
           \/ composer'.id = composer.id /\ composer'.busy = composer.busy
           \/ composer'.id \in Nat /\ nextId < composer'.id
    PROVE  Turn'
<1>1. \A i, d : Submitted(i, d)' = Submitted(i, d)
  BY DEF Submitted
<1>2. nextId \in Nat /\ \A i \in 1..Len(onSend) : onSend[i].draft.id \in 1..nextId
  BY ComposeTypes DEF Fresh
<1>3. undoSend # 0 => sends[undoSend].draft.id \in 1..nextId
  BY DEF Fresh
<1>4. CASE composer'.id = composer.id /\ composer'.busy = composer.busy
  BY <1>4 DEF Turn, Submitted
<1>5. CASE composer'.id \notin 1..nextId
  <2>1. \A i \in 1..Len(onSend) : ~Submitted(i, composer'.id)
    BY <1>2, <1>5 DEF Submitted
  <2>2. undoSend # 0 => composer'.id # sends[undoSend].draft.id
    BY <1>3, <1>5
  <2> QED BY <2>1, <2>2 DEF Turn, Submitted
<1> QED BY <1>2, <1>4, <1>5

\* What a step may do to the drafts that are written: the composer keeps its id and message,
\* closes or begins a new message, and floating windows are closed.
LEMMA HoldersKept ==
    ASSUME C!TypeOK, Holders, nextId' \in Nat, nextId <= nextId', composer'.id \in Nat,
           UNCHANGED <<onSend, sends, undoSend, late, twice, split>>,
           \/ composer'.id = 0
           \/ /\ composer'.id = composer.id /\ composer'.busy = composer.busy
              /\ composer'.root = composer.root
           \/ composer'.id = nextId' /\ composer'.root = nextId' /\ nextId < nextId',
           drafts' \subseteq drafts
    PROVE  Holders'
<1> USE ComposeTypes DEF Holders
<1>1. Excused' = Excused /\ \A n : LiveRow(n)' = LiveRow(n)
  BY DEF Excused, LiveRow
<1>2. /\ \A i \in 1..Len(onSend) :
            onSend[i].draft.id \in 1..nextId /\ onSend[i].draft.root \in 1..nextId
      /\ \A n \in 1..Len(sends) :
            sends[n].draft.id \in 1..nextId /\ sends[n].draft.root \in 1..nextId
      /\ \A x \in drafts : x.id \in 1..nextId /\ x.root \in 1..nextId
  BY DEF Fresh
<1>3. Fresh'
  <2>1. nextId \in Nat
    BY DEF C!TypeOK
  <2>2. 1..nextId \subseteq 1..nextId'
    BY <2>1
  <2>3. composer'.id <= nextId' /\ (composer'.id # 0 => composer'.root \in 1..nextId')
    <3>1. composer.id <= nextId /\ (composer.id # 0 => composer.root \in 1..nextId)
      BY DEF Fresh
    <3>2. CASE composer'.id = 0
      BY <3>2
    <3>3. CASE composer'.id = composer.id /\ composer'.root = composer.root
      BY <2>1, <2>2, <3>1, <3>3
    <3>4. CASE composer'.id = nextId' /\ composer'.root = nextId' /\ nextId < nextId'
      BY <2>1, <3>4
    <3> QED BY <3>2, <3>3, <3>4
  <2>4. undoSend # 0 => undoSend \in 1..Len(sends) /\ LiveRow(undoSend)
    BY DEF Fresh
  <2> QED BY <1>1, <1>2, <2>2, <2>3, <2>4 DEF Fresh
<1>4. OneRow' /\ OneCall' /\ RowOrCall'
  BY <1>1 DEF OneRow, OneCall, RowOrCall
<1>5. ComposerHas'
  <2>1. CASE composer'.id = composer.id /\ composer'.root = composer.root
    BY <1>1, <2>1 DEF ComposerHas, Submitted
  <2>2. CASE composer'.root = nextId' /\ nextId < nextId'
    BY <1>1, <1>2, <2>2 DEF ComposerHas
  <2> QED BY <2>1, <2>2 DEF ComposerHas
<1>6. FloatHas'
  BY <1>1 DEF FloatHas
<1>7. Turn'
  BY <1>2, TurnKept DEF Fresh
<1> QED BY <1>3, <1>4, <1>5, <1>6, <1>7

\* What the user does to the drafts.
LEMMA OpenKeeps ==
    ASSUME ComposeInv, NEW d \in C!Draft, d.id = 0, d.root = 0, C!OpenCompose(d),
           UNCHANGED <<saved, onSend, sends, undoSend, late, twice, split>>,
           drafts' \subseteq drafts
    PROVE  ComposeInv'
<1>0. C!TypeOK /\ nextId \in 0..MaxDrafts /\ MaxDrafts \in Nat /\ nextId <= MaxDrafts
  BY WindowAssumption DEF ComposeInv, C!TypeOK
<1>1. /\ composer' = C!Shown(d) /\ initial' = d
      /\ nextId' = IF C!IsOpen THEN nextId ELSE nextId + 1
      /\ C!IsOpen \/ nextId < MaxDrafts
  BY DEF C!OpenCompose
<1>2. /\ composer' \in C!Composer /\ composer'.id # 0
      /\ IF C!IsOpen THEN /\ composer'.id = composer.id /\ composer'.busy = composer.busy
                          /\ composer'.root = composer.root
                          /\ \/ /\ composer'.text = composer.text
                                /\ composer'.timer = composer.timer
                                /\ composer'.edited = composer.edited
                                /\ composer'.rejected = composer.rejected
                             \/ composer'.text = d.text /\ (composer'.timer <=> d.text # Blank)
         ELSE /\ composer'.id = nextId + 1 /\ composer'.root = nextId + 1
              /\ ~composer'.timer /\ ~composer'.edited
  BY <1>0, <1>1, RootOfOpen, ShownFacts
<1>3. nextId' \in 0..MaxDrafts
  BY <1>0, <1>1
<1>4. C!TypeOK'
  BY <1>0, <1>1, <1>2, <1>3 DEF C!TypeOK
<1>5. Holders'
  <2>1. composer'.id \in Nat
    BY <1>0, <1>2, ComposeTypes
  <2> QED BY <1>0, <1>1, <1>2, <2>1, HoldersKept DEF ComposeInv
<1>6. ComposerShape' /\ C!SettledIsSaved' /\ Room'
  BY <1>1, <1>2 DEF ComposeInv, ComposerShape, C!SettledIsSaved, Room
<1> QED BY <1>4, <1>5, <1>6 DEF ComposeInv

\* A message that goes from the composer to a window of its own, or back, is split if a call
\* for it is awaited.
LEMMA MoveKeeps ==
    ASSUME ComposeInv, NEW root \in 1..nextId, C!Splits(root),
           UNCHANGED <<onSend, sends, undoSend, late, twice>>
    PROVE  /\ split' \subseteq C!Ids /\ Excused \subseteq Excused'
           /\ \A n : LiveRow(n)' = LiveRow(n)
           /\ OneRow' /\ OneCall' /\ RowOrCall'
           /\ root \notin Excused' => \A i \in 1..Len(onSend) : onSend[i].draft.root # root
<1>1. /\ split' = IF C!Awaited(root) THEN split \cup {root} ELSE split
      /\ C!Awaited(root) <=> \E i \in 1..Len(onSend) : onSend[i].draft.root = root
  BY ComposeTypes DEF ComposeInv, C!Splits, C!Awaited
<1>2. split' \subseteq C!Ids /\ Excused \subseteq Excused' /\ \A n : LiveRow(n)' = LiveRow(n)
  BY <1>1, RootOfOpen DEF ComposeInv, C!TypeOK, Excused, LiveRow
<1>3. OneRow' /\ OneCall' /\ RowOrCall'
  BY <1>2 DEF ComposeInv, Holders, OneRow, OneCall, RowOrCall
<1> QED BY <1>1, <1>2, <1>3 DEF Excused

LEMMA WriteKeeps ==
    ASSUME ComposeInv,
           \/ \E t \in C!AnyText : C!Open(t) \/ C!Type(t)
           \/ C!Render \/ C!Autosave \/ C!AutosaveFails \/ C!Close \/ C!Minimize
           \/ \E d \in drafts : C!Expand(d) \/ C!Discard(d)
    PROVE  ComposeInv'
<1>0. /\ C!TypeOK /\ nextId \in 0..MaxDrafts /\ MaxDrafts \in Nat /\ nextId <= MaxDrafts
      /\ composer \in C!Composer /\ drafts \subseteq C!Draft /\ composer.id \in Nat
      /\ C!NoDraft \in C!Draft /\ Blank \in C!AnyText
      /\ \A d \in C!Draft : d.text \in C!AnyText
  BY ComposeTypes, WindowAssumption DEF ComposeInv, C!TypeOK, C!NoDraft, C!Draft, C!AnyText
<1>1. ASSUME NEW t \in C!AnyText, C!Open(t) PROVE ComposeInv'
  <2> DEFINE d == [C!NoDraft EXCEPT !.text = t]
  <2>1. d \in C!Draft /\ d.id = 0 /\ d.root = 0
    BY DEF C!Draft, C!NoDraft
  <2> QED BY <1>1, <2>1, OpenKeeps DEF C!Open
<1>h. Fresh /\ Turn /\ OneRow /\ OneCall /\ RowOrCall /\ ComposerHas /\ FloatHas
  BY DEF ComposeInv, Holders
<1>2. ASSUME NEW x \in drafts, C!Expand(x) PROVE ComposeInv'
  <2> DEFINE d == [x EXCEPT !.id = 0]
  <2>1. x \in C!Draft /\ x.root \in 1..nextId
    BY <1>0, <1>h DEF Fresh
  <2>2. d \in C!Draft /\ d.id = 0 /\ d.root = x.root /\ d.root # 0
    BY <1>0, <2>1 DEF C!Draft
  <2>3. /\ composer.id = 0 /\ C!OpenCompose(d) /\ drafts' = drafts \ {x} /\ C!Splits(x.root)
        /\ UNCHANGED <<saved, onSend, sends, undoSend, late, twice>>
    BY <1>2 DEF C!Expand, C!IsOpen
  <2> HIDE DEF d
  <2>4. /\ composer' = C!Shown(d) /\ initial' = d /\ nextId' = nextId + 1
        /\ nextId < MaxDrafts /\ ~C!IsOpen
    BY <2>2, <2>3 DEF C!OpenCompose, C!IsOpen
  <2>5. /\ composer' \in C!Composer /\ composer'.id = nextId + 1 /\ composer'.root = x.root
        /\ ~composer'.timer /\ ~composer'.edited
    BY <1>0, <2>2, <2>4, ShownFacts
  <2>6. /\ split' \subseteq C!Ids /\ Excused \subseteq Excused' /\ OneRow' /\ OneCall' /\ RowOrCall'
        /\ \A n : LiveRow(n)' = LiveRow(n)
        /\ x.root \notin Excused' => \A i \in 1..Len(onSend) : onSend[i].draft.root # x.root
    BY <2>1, <2>3, MoveKeeps
  <2>7. C!TypeOK'
    BY <1>0, <2>2, <2>3, <2>4, <2>5, <2>6 DEF C!TypeOK
  <2>8. Fresh'
    BY <1>0, <1>h, <2>1, <2>3, <2>4, <2>5, <2>6 DEF Fresh
  <2>9. Turn'
    BY <1>0, <1>h, <2>3, <2>5, TurnKept
  <2>10. ComposerHas'
    <3> SUFFICES ASSUME x.root \notin Excused'
                 PROVE  /\ \A n \in 1..Len(sends) : LiveRow(n) => sends[n].draft.root # x.root
                        /\ \A y \in drafts : y # x => y.root # x.root
      BY <2>3, <2>5, <2>6 DEF ComposerHas
    <3> QED BY <1>h, <2>6 DEF FloatHas
  <2>11. FloatHas'
    BY <1>h, <2>3, <2>6 DEF FloatHas
  <2>12. ComposerShape' /\ C!SettledIsSaved' /\ Room'
    BY <1>0, <2>3, <2>5 DEF ComposeInv, ComposerShape, C!SettledIsSaved, Room
  <2> QED BY <2>6, <2>7, <2>8, <2>9, <2>10, <2>11, <2>12 DEF ComposeInv, Holders
<1>3. ASSUME NEW t \in C!AnyText, composer.id # 0, composer' = C!Fields(composer, t),
             UNCHANGED <<initial, drafts, nextId, saved, onSend, sends, undoSend, late, twice,
                         split>>
      PROVE  ComposeInv'
  <2>1. /\ composer' \in C!Composer /\ composer'.id = composer.id
        /\ composer'.busy = composer.busy /\ composer'.root = composer.root
        /\ \/ composer' = composer
           \/ composer'.text = t /\ (composer'.timer <=> t # Blank)
    BY <1>0, <1>3, FieldsFacts
  <2>2. C!TypeOK'
    BY <1>0, <1>3, <2>1 DEF C!TypeOK
  <2>3. Holders'
    BY <1>0, <1>3, <2>1, HoldersKept DEF ComposeInv
  <2>4. ComposerShape' /\ C!SettledIsSaved' /\ Room'
    BY <1>3, <2>1 DEF ComposeInv, ComposerShape, C!SettledIsSaved, Room
  <2> QED BY <2>2, <2>3, <2>4 DEF ComposeInv
<1>4. ASSUME NEW t \in C!AnyText, C!Type(t) PROVE ComposeInv'
  BY <1>3, <1>4 DEF C!Type, C!IsOpen
<1>5. CASE C!Render
  BY <1>0, <1>3, <1>5 DEF C!Render, C!IsOpen
<1>6. CASE C!Autosave
  <2> DEFINE e == [composer EXCEPT !.timer = FALSE]
  <2>1. /\ e \in C!Composer /\ e.id = composer.id /\ e.busy = composer.busy
        /\ e.text = composer.text /\ ~e.timer /\ e.edited = composer.edited
        /\ e.root = composer.root
    BY <1>0 DEF C!Composer
  <2> HIDE DEF e
  <2>2. /\ composer' = e /\ saved' = [saved EXCEPT ![composer.id] = composer.text]
        /\ composer.timer
        /\ UNCHANGED <<initial, drafts, nextId, onSend, sends, undoSend, late, twice, split>>
    BY <1>6 DEF C!Autosave, e
  <2>3. composer.id \in C!Ids /\ composer.text \in C!AnyText /\ composer.id # 0
    BY <1>0, <2>2 DEF C!Composer, ComposeInv, ComposerShape
  <2>4. C!TypeOK'
    BY <1>0, <2>1, <2>2, <2>3 DEF C!TypeOK
  <2>5. Holders'
    BY <1>0, <2>1, <2>2, HoldersKept DEF ComposeInv
  <2>6. saved'[e.id] = e.text
    BY <1>0, <2>1, <2>2, <2>3 DEF C!TypeOK
  <2>7. ComposerShape' /\ C!SettledIsSaved' /\ Room'
    BY <2>1, <2>2, <2>3, <2>6 DEF ComposeInv, ComposerShape, C!SettledIsSaved, Room
  <2> QED BY <2>4, <2>5, <2>7 DEF ComposeInv
<1>a. CASE C!AutosaveFails
  <2> DEFINE e == [composer EXCEPT !.timer = FALSE, !.rejected = TRUE]
  <2>1. /\ e \in C!Composer /\ e.id = composer.id /\ e.busy = composer.busy
        /\ ~e.timer /\ e.rejected /\ e.edited = composer.edited /\ e.root = composer.root
    BY <1>0 DEF C!Composer
  <2> HIDE DEF e
  <2>2. /\ composer' = e /\ composer.timer
        /\ UNCHANGED <<initial, drafts, nextId, saved, onSend, sends, undoSend, late, twice, split>>
    BY <1>a DEF C!AutosaveFails, e
  <2>3. C!TypeOK'
    BY <1>0, <2>1, <2>2 DEF C!TypeOK
  <2>4. Holders'
    BY <1>0, <2>1, <2>2, HoldersKept DEF ComposeInv
  <2>5. ComposerShape' /\ C!SettledIsSaved' /\ Room'
    BY <2>1, <2>2 DEF ComposeInv, ComposerShape, C!SettledIsSaved, Room
  <2> QED BY <2>3, <2>4, <2>5 DEF ComposeInv
<1>c. C!Closed \in C!Composer /\ C!Closed.id = 0 /\ ~C!Closed.timer /\ ~C!Closed.edited
  BY DEF C!Closed, C!Composer, C!AnyText
<1>7. CASE C!Close
  <2>1. C!TypeOK'
    BY <1>0, <1>7, <1>c DEF C!Close, C!TypeOK
  <2>2. Holders'
    BY <1>0, <1>7, <1>c, HoldersKept DEF C!Close, ComposeInv
  <2>3. ComposerShape' /\ C!SettledIsSaved' /\ Room'
    BY <1>7, <1>c DEF C!Close, ComposeInv, ComposerShape, C!SettledIsSaved, Room
  <2> QED BY <2>1, <2>2, <2>3 DEF ComposeInv
<1>8. CASE C!Minimize
  <2> DEFINE x == [id |-> nextId + 1, root |-> composer.root, text |-> composer.text]
  <2>0. composer.id # 0 /\ composer.root \in 1..nextId /\ nextId < MaxDrafts
    BY <1>8, <1>h DEF C!Minimize, C!IsOpen, Fresh
  <2>1. /\ x \in C!Draft /\ x.id = nextId + 1 /\ x.root = composer.root
        /\ nextId + 1 \in 0..MaxDrafts
    BY <1>0, <2>0 DEF C!Draft, C!Ids, C!Composer
  <2>2. /\ composer' = C!Closed /\ initial' = C!NoDraft /\ nextId' = nextId + 1
        /\ drafts' = drafts \cup {x} /\ C!Splits(composer.root)
        /\ UNCHANGED <<saved, onSend, sends, undoSend, late, twice>>
    BY <1>8 DEF C!Minimize
  <2> HIDE DEF x
  <2>3. /\ split' \subseteq C!Ids /\ Excused \subseteq Excused' /\ OneRow' /\ OneCall' /\ RowOrCall'
        /\ \A n : LiveRow(n)' = LiveRow(n)
        /\ x.root \notin Excused' => \A i \in 1..Len(onSend) : onSend[i].draft.root # x.root
    BY <2>0, <2>1, <2>2, MoveKeeps
  <2>4. C!TypeOK'
    BY <1>0, <1>c, <2>1, <2>2, <2>3 DEF C!TypeOK
  <2>5. Fresh'
    BY <1>0, <1>c, <1>h, <2>0, <2>1, <2>2, <2>3 DEF Fresh
  <2>6. Turn' /\ ComposerHas'
    <3>1. Turn'
      BY <1>0, <1>c, <1>h, <2>2, TurnKept
    <3> QED BY <1>c, <2>2, <3>1 DEF ComposerHas
  <2>7. FloatHas'
    <3> SUFFICES ASSUME NEW z \in drafts', z.root \notin Excused'
                 PROVE  /\ \A n \in 1..Len(sends) : LiveRow(n) => sends[n].draft.root # z.root
                        /\ \A i \in 1..Len(onSend) : onSend[i].draft.root = z.root =>
                              onSend[i].draft = z /\ onSend[i].from = "float"
                        /\ \A y \in drafts' : y.root = z.root => y = z
      BY <2>2, <2>3 DEF FloatHas
    <3>1. CASE z = x
      <4>1. /\ \A n \in 1..Len(sends) : LiveRow(n) => sends[n].draft.root # x.root
            /\ \A y \in drafts : y.root # x.root
        BY <1>h, <2>0, <2>1, <2>3, <3>1 DEF ComposerHas
      <4> QED BY <2>2, <2>3, <3>1, <4>1
    <3>2. CASE z # x
      <4>1. z \in drafts /\ z.root \notin Excused
        BY <2>2, <2>3, <3>2
      <4>2. x.root # z.root
        BY <1>h, <2>0, <2>1, <4>1 DEF ComposerHas
      <4> QED BY <1>h, <2>2, <4>1, <4>2 DEF FloatHas
    <3> QED BY <3>1, <3>2
  <2>8. ComposerShape' /\ C!SettledIsSaved' /\ Room'
    BY <1>c, <2>2 DEF ComposeInv, ComposerShape, C!SettledIsSaved, Room
  <2> QED BY <2>3, <2>4, <2>5, <2>6, <2>7, <2>8 DEF ComposeInv, Holders
<1>9. ASSUME NEW d \in drafts, C!Discard(d) PROVE ComposeInv'
  <2>1. C!TypeOK'
    BY <1>0, <1>9 DEF C!Discard, C!TypeOK
  <2>2. Holders'
    BY <1>0, <1>9, HoldersKept DEF C!Discard, ComposeInv
  <2>3. ComposerShape' /\ C!SettledIsSaved' /\ Room'
    BY <1>9 DEF C!Discard, ComposeInv, ComposerShape, C!SettledIsSaved, Room
  <2> QED BY <2>1, <2>2, <2>3 DEF ComposeInv
<1> QED BY <1>1, <1>2, <1>4, <1>5, <1>6, <1>a, <1>7, <1>8, <1>9

\* A call is made for the draft of the composer, which then is busy, or of a floating window.
LEMMA CallKeeps ==
    ASSUME ComposeInv,
           (\E scheduled \in BOOLEAN : C!Submit(scheduled)) \/ (\E x \in drafts : C!SendFloat(x))
    PROVE  ComposeInv'
<1>0. /\ C!TypeOK /\ composer \in C!Composer /\ drafts \subseteq C!Draft /\ late \subseteq C!Ids
      /\ nextId \in Nat
      /\ onSend \in Seq(C!Call) /\ Len(onSend) \in Nat /\ Len(sends) \in Nat /\ MaxSends \in Nat
      /\ DOMAIN onSend = 1..Len(onSend)
  BY ComposeTypes DEF ComposeInv, C!TypeOK
<1>1. ASSUME NEW c \in C!Call, onSend' = Append(onSend, c), Len(sends) + Len(onSend) < MaxSends,
             UNCHANGED <<sends, undoSend, nextId, drafts, late>>
      PROVE  /\ onSend' \in Seq(C!Call) /\ Len(onSend') = Len(onSend) + 1 /\ Room'
             /\ \A i \in 1..Len(onSend) : onSend'[i] = onSend[i] /\ i \in 1..Len(onSend')
             /\ onSend'[Len(onSend')] = c
             /\ \A i \in 1..Len(onSend') : i \in 1..Len(onSend) \/ i = Len(onSend')
             /\ \A n : LiveRow(n)' = LiveRow(n)
  <2>1. /\ onSend' \in Seq(C!Call) /\ Len(onSend') = Len(onSend) + 1
        /\ \A i \in 1..Len(onSend) : onSend'[i] = onSend[i]
        /\ onSend'[Len(onSend) + 1] = c
        /\ \A i \in 1..(Len(onSend) + 1) : i \in 1..Len(onSend) \/ i = Len(onSend) + 1
    BY <1>0, <1>1, AppendFacts
  <2>2. \A i \in 1..Len(onSend) : i \in 1..Len(onSend')
    BY <1>0, <2>1
  <2>3. Room'
    BY <1>0, <1>1, <2>1 DEF Room
  <2> QED BY <1>1, <2>1, <2>2, <2>3 DEF LiveRow
<1>2. ASSUME NEW scheduled \in BOOLEAN, C!Submit(scheduled) PROVE ComposeInv'
  <2> DEFINE e == [composer EXCEPT !.busy = TRUE]
             x == [id |-> composer.id, root |-> composer.root, text |-> composer.text]
             c == [draft |-> x, from |-> "composer", scheduled |-> scheduled]
  <2>1. /\ e \in C!Composer /\ e.id = composer.id /\ e.busy /\ e.text = composer.text
        /\ e.timer = composer.timer /\ e.edited = composer.edited
        /\ e.root = composer.root /\ e.rejected = composer.rejected
    BY <1>0 DEF C!Composer
  <2>2. /\ c \in C!Call /\ c.draft.id = composer.id /\ c.draft.root = composer.root
        /\ c.from = "composer"
    BY <1>0, <1>2 DEF C!Call, C!Draft, C!Composer
  <2>3. /\ composer' = e /\ onSend' = Append(onSend, c) /\ composer.id # 0 /\ ~composer.busy
        /\ Len(sends) + Len(onSend) < MaxSends
        /\ UNCHANGED <<initial, drafts, nextId, saved, sends, undoSend, late, twice, split>>
    BY <1>2 DEF C!Submit, C!IsOpen, C!CanCall
  <2> HIDE DEF e, c
  <2>4. /\ onSend' \in Seq(C!Call) /\ Len(onSend') = Len(onSend) + 1 /\ Room'
        /\ \A i \in 1..Len(onSend) : onSend'[i] = onSend[i] /\ i \in 1..Len(onSend')
        /\ onSend'[Len(onSend')] = c
        /\ \A i \in 1..Len(onSend') : i \in 1..Len(onSend) \/ i = Len(onSend')
        /\ \A n : LiveRow(n)' = LiveRow(n)
    BY <1>1, <2>2, <2>3
  <2>5. C!TypeOK'
    BY <1>0, <2>1, <2>3, <2>4 DEF C!TypeOK
  <2>6. Excused' = Excused /\ Fresh /\ Turn /\ OneRow /\ OneCall /\ RowOrCall /\ ComposerHas /\ FloatHas
    BY <2>3 DEF Excused, ComposeInv, Holders
  <2>7. composer.id \in 1..nextId /\ composer.root \in 1..nextId
    BY <1>0, <2>3, <2>6, ComposeTypes DEF Fresh
  <2>8. Fresh' /\ OneRow'
    BY <2>1, <2>2, <2>3, <2>4, <2>6, <2>7 DEF Fresh, OneRow
  <2>t. /\ \A i \in 1..Len(onSend) : ~Submitted(i, composer.id)
        /\ undoSend # 0 /\ sends[undoSend].from = "composer" =>
              composer.id # sends[undoSend].draft.id
    BY <2>3, <2>6 DEF Turn
  <2>u. Turn'
    <3>1. \A d : \A i \in 1..Len(onSend) : Submitted(i, d)' = Submitted(i, d)
      BY <2>4 DEF Submitted
    <3>3. ASSUME NEW i \in 1..Len(onSend'), NEW j \in 1..Len(onSend'),
                 onSend'[j].from = "composer", Submitted(i, onSend[j].draft.id)'
          PROVE  i = j
      <4>1. CASE i \in 1..Len(onSend) /\ j \in 1..Len(onSend)
        BY <2>4, <2>6, <3>3, <4>1 DEF Turn, Submitted
      <4>2. CASE i \in 1..Len(onSend) /\ j = Len(onSend')
        BY <2>2, <2>4, <2>t, <3>3, <4>2 DEF Submitted
      <4>3. CASE i = Len(onSend') /\ j \in 1..Len(onSend)
        BY <2>2, <2>4, <2>t, <3>3, <4>3 DEF Submitted
      <4> QED BY <2>4, <4>1, <4>2, <4>3
    <3>4. \A i \in 1..Len(onSend') : Submitted(i, composer.id)' => composer'.busy
      BY <2>1, <2>3
    <3>5. undoSend # 0 /\ sends[undoSend].from = "composer" =>
             /\ composer'.id # sends[undoSend].draft.id
             /\ \A i \in 1..Len(onSend') : ~Submitted(i, sends[undoSend].draft.id)'
      <4> SUFFICES ASSUME undoSend # 0, sends[undoSend].from = "composer"
                   PROVE  /\ composer'.id # sends[undoSend].draft.id
                          /\ \A i \in 1..Len(onSend') : ~Submitted(i, sends[undoSend].draft.id)'
        OBVIOUS
      <4>1. /\ \A i \in 1..Len(onSend) : ~Submitted(i, sends[undoSend].draft.id)
            /\ composer.id # sends[undoSend].draft.id
        BY <2>6 DEF Turn
      <4>2. composer'.id = composer.id /\ sends' = sends /\ undoSend' = undoSend
        BY <2>1, <2>3
      <4>3. \A i \in 1..Len(onSend) : ~Submitted(i, sends[undoSend].draft.id)'
        BY <2>4, <4>1, <4>2 DEF Submitted
      <4>4. \A i \in 1..Len(onSend') : ~Submitted(i, sends[undoSend].draft.id)'
        <5> SUFFICES ASSUME NEW i \in 1..Len(onSend'), i = Len(onSend')
                     PROVE  ~Submitted(i, sends[undoSend].draft.id)'
          BY <2>4, <4>3
        <5> QED BY <2>2, <2>4, <4>1, <4>2 DEF Submitted
      <4> QED BY <4>1, <4>2, <4>4
    <3> QED BY <2>1, <2>3, <3>3, <3>4, <3>5 DEF Turn
  <2>9. composer.root \notin Excused =>
           /\ \A i \in 1..Len(onSend) : onSend[i].draft.root # composer.root
           /\ \A n \in 1..Len(sends) : LiveRow(n) => sends[n].draft.root # composer.root
           /\ \A y \in drafts : y.root # composer.root
    BY <2>3, <2>6, <2>t DEF ComposerHas
  <2>10. OneCall'
    BY <2>2, <2>4, <2>6, <2>9 DEF OneCall
  <2>11. RowOrCall'
    BY <2>2, <2>3, <2>4, <2>6, <2>9 DEF RowOrCall
  <2>12. ComposerHas'
    BY <2>1, <2>2, <2>3, <2>4, <2>6, <2>9 DEF ComposerHas, Submitted
  <2>13. FloatHas'
    BY <2>2, <2>3, <2>4, <2>6, <2>9 DEF FloatHas
  <2>14. ComposerShape' /\ C!SettledIsSaved'
    BY <2>1, <2>3 DEF ComposeInv, ComposerShape, C!SettledIsSaved
  <2> QED BY <2>4, <2>5, <2>8, <2>u, <2>10, <2>11, <2>12, <2>13, <2>14 DEF ComposeInv, Holders
<1>3. ASSUME NEW x \in drafts, C!SendFloat(x) PROVE ComposeInv'
  <2> DEFINE c == [draft |-> x, from |-> "float", scheduled |-> FALSE]
  <2>2. c \in C!Call /\ c.draft = x /\ c.from = "float" /\ x \in C!Draft
    BY <1>0 DEF C!Call
  <2>3. /\ onSend' = Append(onSend, c) /\ composer.id = 0
        /\ Len(sends) + Len(onSend) < MaxSends
        /\ twice' = IF \E i \in 1..Len(onSend) : onSend[i].draft = x
                    THEN twice \cup {x.root} ELSE twice
        /\ UNCHANGED <<composer, initial, drafts, nextId, saved, sends, undoSend, late,
                       split>>
    BY <1>0, <1>3 DEF C!SendFloat, C!IsOpen, C!CanCall
  <2> HIDE DEF c
  <2>4. /\ onSend' \in Seq(C!Call) /\ Len(onSend') = Len(onSend) + 1 /\ Room'
        /\ \A i \in 1..Len(onSend) : onSend'[i] = onSend[i] /\ i \in 1..Len(onSend')
        /\ onSend'[Len(onSend')] = c
        /\ \A i \in 1..Len(onSend') : i \in 1..Len(onSend) \/ i = Len(onSend')
        /\ \A n : LiveRow(n)' = LiveRow(n)
    BY <1>1, <2>2, <2>3
  <2>6. Fresh /\ Turn /\ OneRow /\ OneCall /\ RowOrCall /\ ComposerHas /\ FloatHas
    BY DEF ComposeInv, Holders
  <2>7. x.id \in 1..nextId /\ x.root \in 1..nextId
    BY <2>6 DEF Fresh
  <2>8. x.root \in C!Ids
    BY <1>0, <2>7, ComposeTypes, WindowAssumption DEF C!TypeOK, C!Ids
  <2>5. C!TypeOK' /\ Excused \subseteq Excused'
    BY <1>0, <2>3, <2>4, <2>8 DEF C!TypeOK, Excused
  <2>9. x.root \notin Excused' =>
           /\ \A i \in 1..Len(onSend) : onSend[i].draft.root # x.root
           /\ \A n \in 1..Len(sends) : LiveRow(n) => sends[n].draft.root # x.root
           /\ \A y \in drafts : y.root = x.root => y = x
    <3> SUFFICES ASSUME x.root \notin Excused'
                 PROVE  /\ \A i \in 1..Len(onSend) : onSend[i].draft.root # x.root
                        /\ \A n \in 1..Len(sends) : LiveRow(n) => sends[n].draft.root # x.root
                        /\ \A y \in drafts : y.root = x.root => y = x
      OBVIOUS
    <3>1. ~\E i \in 1..Len(onSend) : onSend[i].draft = x
      BY <2>3 DEF Excused
    <3> QED BY <2>5, <2>6, <3>1 DEF FloatHas
  <2>10. Fresh'
    BY <2>2, <2>3, <2>4, <2>6, <2>7 DEF Fresh
  <2>11. OneRow'
    BY <2>3, <2>4, <2>5, <2>6 DEF OneRow
  <2>12. OneCall'
    BY <2>2, <2>4, <2>5, <2>6, <2>9 DEF OneCall
  <2>13. RowOrCall'
    BY <2>2, <2>3, <2>4, <2>5, <2>6, <2>9 DEF RowOrCall
  <2>14. ComposerHas' /\ Turn'
    <3>1. \A d : \A i \in 1..Len(onSend) : Submitted(i, d)' = Submitted(i, d)
      BY <2>4 DEF Submitted
    <3>2. onSend'[Len(onSend')].from # "composer"
      BY <2>2, <2>4
    <3>3. \A i, j \in 1..Len(onSend') :
             onSend'[j].from = "composer" /\ Submitted(i, onSend[j].draft.id)' => i = j
      BY <2>4, <2>6, <3>2 DEF Turn, Submitted
    <3>4. \A i \in 1..Len(onSend') : Submitted(i, composer.id)' => composer.busy
      BY <2>3, <2>4, <2>6, <3>2 DEF Turn, Submitted
    <3>5. undoSend # 0 /\ sends[undoSend].from = "composer" =>
             /\ composer.id # sends[undoSend].draft.id
             /\ \A i \in 1..Len(onSend') : ~Submitted(i, sends[undoSend].draft.id)'
      BY <2>3, <2>4, <2>6, <3>2 DEF Turn, Submitted
    <3> QED BY <2>3, <3>3, <3>4, <3>5 DEF ComposerHas, Turn
  <2>15. FloatHas'
    BY <2>2, <2>3, <2>4, <2>5, <2>6, <2>9 DEF FloatHas
  <2>16. ComposerShape' /\ C!SettledIsSaved'
    BY <2>3 DEF ComposeInv, ComposerShape, C!SettledIsSaved
  <2> QED BY <2>4, <2>5, <2>10, <2>11, <2>12, <2>13, <2>14, <2>15, <2>16
          DEF ComposeInv, Holders
<1> QED BY <1>2, <1>3

\* The first call is answered: its draft gets a row, or the store has rejected it.
LEMMA AnswerKeeps == ASSUME ComposeInv, C!Queued \/ C!QueueFails PROVE ComposeInv'
<1> DEFINE c == Head(onSend)
<1>0. /\ C!TypeOK /\ composer \in C!Composer /\ drafts \subseteq C!Draft
      /\ nextId \in Nat /\ sends \in Seq(Row)
      /\ onSend \in Seq(C!Call) /\ onSend # <<>> /\ onSend' = Tail(onSend)
      /\ Len(onSend) \in Nat /\ Len(sends) \in Nat /\ MaxSends \in Nat /\ undoSend \in Nat
      /\ UNCHANGED <<nextId, saved, late, twice, split>>
  BY ComposeTypes DEF ComposeInv, C!TypeOK, C!Queued, C!QueueFails
<1>1. /\ onSend' \in Seq(C!Call) /\ Len(onSend') = Len(onSend) - 1
      /\ \A i \in 1..Len(onSend') : onSend'[i] = onSend[i + 1] /\ i + 1 \in 1..Len(onSend)
      /\ c = onSend[1] /\ 1 \in 1..Len(onSend) /\ c \in C!Call
  BY <1>0, TailFacts
<1>2. \A i, j \in 1..Len(onSend') : i + 1 # 1 /\ (i + 1 = j + 1 => i = j)
  BY <1>0, <1>1
<1>3. Fresh /\ Turn /\ OneRow /\ OneCall /\ RowOrCall /\ ComposerHas /\ FloatHas
  BY DEF ComposeInv, Holders
<1>4. Excused' = Excused
  BY <1>0 DEF Excused
<1>5. OneCall' /\ \A i \in 1..Len(onSend') :
                     onSend'[i].draft.root = c.draft.root => c.draft.root \in Excused
  <2>1. ASSUME NEW i \in 1..Len(onSend'), onSend'[i].draft.root = c.draft.root
        PROVE  c.draft.root \in Excused
    BY <1>1, <1>2, <1>3, <2>1 DEF OneCall
  <2>2. OneCall'
    <3> SUFFICES ASSUME NEW i \in 1..Len(onSend'), NEW j \in 1..Len(onSend'),
                        onSend'[i].draft.root = onSend'[j].draft.root,
                        onSend'[i].draft.root \notin Excused
                 PROVE  i = j
      BY <1>4 DEF OneCall
    <3>1. /\ onSend'[i] = onSend[i + 1] /\ i + 1 \in 1..Len(onSend)
          /\ onSend'[j] = onSend[j + 1] /\ j + 1 \in 1..Len(onSend)
      BY <1>1
    <3>2. i + 1 = j + 1
      BY <1>3, <3>1 DEF OneCall
    <3> QED BY <1>2, <3>2
  <2> QED BY <2>1, <2>2
<1>6. \A i \in 1..Len(onSend') :
         onSend'[i].draft.id \in 1..nextId /\ onSend'[i].draft.root \in 1..nextId
  BY <1>1, <1>3 DEF Fresh
<1>7. c.draft.id \in 1..nextId /\ c.draft.root \in 1..nextId /\ c.draft \in C!Draft /\ c.from \in {"composer", "float"}
  BY <1>1, <1>3 DEF Fresh, C!Call
<1>8. C!Closed \in C!Composer /\ C!Closed.id = 0 /\ ~C!Closed.timer /\ ~C!Closed.edited
      /\ C!NoDraft \in C!Draft
  BY DEF C!Closed, C!Composer, C!AnyText, C!NoDraft, C!Draft
\* The first call was the only one of its composer.
<1>t. /\ \A i \in 1..Len(onSend'), j \in 1..Len(onSend') :
            onSend'[j].from = "composer" /\ Submitted(i, onSend[j].draft.id)' => i = j
      /\ \A i \in 1..Len(onSend') : Submitted(i, composer.id)' /\ composer' = composer =>
            composer.busy
      /\ c.from = "composer" =>
            /\ \A i \in 1..Len(onSend') :
                  ~(onSend'[i].from = "composer" /\ onSend'[i].draft.id = c.draft.id)
            /\ c.draft.id = composer.id => composer.busy
  <2>1. ASSUME NEW i \in 1..Len(onSend'), NEW j \in 1..Len(onSend'),
               onSend'[j].from = "composer", Submitted(i, onSend[j].draft.id)'
        PROVE  i = j
    <3>1. /\ onSend'[i] = onSend[i + 1] /\ i + 1 \in 1..Len(onSend)
          /\ onSend'[j] = onSend[j + 1] /\ j + 1 \in 1..Len(onSend)
      BY <1>1
    <3>2. i + 1 = j + 1
      BY <1>3, <2>1, <3>1 DEF Turn, Submitted
    <3> QED BY <1>2, <3>2
  <2>2. ASSUME NEW i \in 1..Len(onSend'), Submitted(i, composer.id)', composer' = composer
        PROVE  composer.busy
    BY <1>1, <1>3, <2>2 DEF Turn, Submitted
  <2>3. ASSUME c.from = "composer"
        PROVE  /\ \A i \in 1..Len(onSend') :
                     ~(onSend'[i].from = "composer" /\ onSend'[i].draft.id = c.draft.id)
               /\ c.draft.id = composer.id => composer.busy
    <3>1. ASSUME NEW i \in 1..Len(onSend'), onSend'[i].from = "composer",
                 onSend'[i].draft.id = c.draft.id
          PROVE  FALSE
      <4>1. onSend'[i] = onSend[i + 1] /\ i + 1 \in 1..Len(onSend)
        BY <1>1
      <4>2. i + 1 = 1
        BY <1>1, <1>3, <2>3, <3>1, <4>1 DEF Turn, Submitted
      <4> QED BY <1>2, <4>2
    <3>2. c.draft.id = composer.id => composer.busy
      BY <1>1, <1>3, <2>3 DEF Turn, Submitted
    <3> QED BY <3>1, <3>2
  <2> QED BY <2>1, <2>2, <2>3
<1> HIDE DEF c
<1>9. CASE C!Queued
  <2> DEFINE r == [draft |-> c.draft, from |-> c.from, state |-> "held"]
  <2>1. r \in Row /\ r.draft = c.draft /\ r.from = c.from /\ r.state = "held"
    BY <1>7 DEF Row
  <2> HIDE DEF r
  <2>2. /\ sends' = Append(sends, r)
        /\ undoSend' = undoSend \/ undoSend' = Len(sends) + 1
        /\ \/ /\ c.from = "composer" /\ composer' = C!Closed /\ initial' = C!NoDraft
              /\ drafts' = drafts
           \/ /\ c.from = "float" /\ drafts' = {x \in drafts : x.id # c.draft.id}
              /\ composer' = composer /\ initial' = initial
    BY <1>7, <1>9 DEF C!Queued, c, r
  <2>3. /\ sends' \in Seq(Row) /\ Len(sends') = Len(sends) + 1
        /\ \A n \in 1..Len(sends) : sends'[n] = sends[n] /\ n \in 1..Len(sends')
        /\ sends'[Len(sends')] = r /\ Len(sends') \in 1..Len(sends')
        /\ \A n \in 1..Len(sends') : n \in 1..Len(sends) \/ n = Len(sends')
    <3>1. /\ sends' \in Seq(Row) /\ Len(sends') = Len(sends) + 1
          /\ \A n \in 1..Len(sends) : sends'[n] = sends[n]
          /\ sends'[Len(sends) + 1] = r
          /\ \A n \in 1..(Len(sends) + 1) : n \in 1..Len(sends) \/ n = Len(sends) + 1
      BY <1>0, <2>1, <2>2, AppendFacts
    <3> QED BY <1>0, <3>1
  <2>4. /\ \A n \in 1..Len(sends) : LiveRow(n)' = LiveRow(n)
        /\ sends'[Len(sends')].state = "held"
    BY <2>1, <2>3 DEF LiveRow
  <2>5. Room' /\ Len(sends') <= MaxSends
    BY <1>0, <1>1, <2>3 DEF ComposeInv, Room
  <2>6. C!TypeOK'
    <3>1. undoSend' \in 0..MaxSends
      BY <1>0, <2>2, <2>3, <2>5 DEF C!TypeOK
    <3>2. /\ composer' \in C!Composer /\ initial' \in C!Draft /\ drafts' \in SUBSET C!Draft
          /\ saved' \in [C!Ids -> C!AnyText] /\ nextId' \in 0..MaxDrafts
          /\ late' \subseteq C!Ids /\ twice' \subseteq C!Ids /\ split' \subseteq C!Ids
      BY <1>0, <1>8, <2>2 DEF C!TypeOK
    <3> QED BY <1>1, <2>3, <3>1, <3>2 DEF C!TypeOK, Row
  <2>7. \A n \in 1..Len(sends) :
           LiveRow(n) /\ sends[n].draft.root = c.draft.root => c.draft.root \in Excused
    BY <1>1, <1>3 DEF RowOrCall
  <2>8. Fresh'
    <3>1. undoSend' # 0 => /\ undoSend' \in 1..Len(sends')
                           /\ sends'[undoSend'].state \in {"held", "sent"}
      <4>1. CASE undoSend' = undoSend
        BY <1>3, <2>3, <4>1 DEF Fresh, LiveRow
      <4>2. CASE undoSend' = Len(sends) + 1
        BY <2>3, <2>4, <4>2
      <4> QED BY <2>2, <4>1, <4>2
    <3>2. \A n \in 1..Len(sends') :
             sends'[n].draft.id \in 1..nextId /\ sends'[n].draft.root \in 1..nextId
      BY <1>3, <1>7, <2>1, <2>3 DEF Fresh
    <3>3. /\ composer'.id <= nextId /\ (composer'.id # 0 => composer'.root \in 1..nextId)
          /\ \A x \in drafts' : x.id \in 1..nextId /\ x.root \in 1..nextId
      BY <1>0, <1>3, <1>8, <2>2 DEF Fresh
    <3> QED BY <1>0, <1>6, <3>1, <3>2, <3>3 DEF Fresh, LiveRow
  <2>t. Turn'
    <3>1. \A i \in 1..Len(onSend') : Submitted(i, composer.id)' => composer'.busy
      <4>1. CASE composer'.id = 0
        <5>1. \A i \in 1..Len(onSend') : onSend'[i].draft.id # 0
          BY <1>0, <1>6
        <5> QED BY <4>1, <5>1 DEF Submitted
      <4>2. CASE composer' = composer
        BY <1>t, <4>2
      <4> QED BY <1>8, <2>2, <4>1, <4>2
    <3>2. ASSUME undoSend' # 0, sends'[undoSend'].from = "composer"
          PROVE  /\ composer'.id # sends'[undoSend'].draft.id
                 /\ \A i \in 1..Len(onSend') : ~Submitted(i, sends[undoSend].draft.id)'
      <4>1. CASE undoSend' = Len(sends) + 1
        <5>1. sends'[undoSend'] = r
          BY <2>3, <4>1
        <5>2. c.from = "composer" /\ composer'.id = 0 /\ c.draft.id # 0
          BY <1>0, <1>7, <1>8, <2>1, <2>2, <3>2, <5>1
        <5> QED BY <1>t, <2>1, <5>1, <5>2 DEF Submitted
      <4>2. CASE undoSend' = undoSend
        <5>1. undoSend \in 1..Len(sends) /\ sends'[undoSend'] = sends[undoSend]
          BY <1>3, <2>3, <3>2, <4>2 DEF Fresh
        <5>2. /\ composer.id # sends[undoSend].draft.id /\ sends[undoSend].draft.id # 0
              /\ \A i \in 1..Len(onSend) : ~Submitted(i, sends[undoSend].draft.id)
          BY <1>0, <1>3, <3>2, <4>2, <5>1 DEF Turn, Fresh
        <5>3. \A i \in 1..Len(onSend') : ~Submitted(i, sends[undoSend].draft.id)'
          BY <1>1, <5>1, <5>2 DEF Submitted
        <5> QED BY <1>8, <2>2, <5>1, <5>2, <5>3
      <4> QED BY <2>2, <4>1, <4>2
    <3> QED BY <1>t, <3>1, <3>2 DEF Turn
  <2>9. OneRow'
    BY <1>3, <1>4, <2>1, <2>3, <2>4, <2>7 DEF OneRow
  <2>10. RowOrCall'
    <3> SUFFICES ASSUME NEW n \in 1..Len(sends'), NEW i \in 1..Len(onSend'), LiveRow(n)',
                        onSend'[i].draft.root = sends'[n].draft.root
                 PROVE  sends'[n].draft.root \in Excused
      BY <1>4 DEF RowOrCall
    <3>1. CASE n \in 1..Len(sends)
      BY <1>1, <1>3, <2>3, <2>4, <3>1 DEF RowOrCall
    <3>2. CASE n = Len(sends')
      BY <1>5, <2>1, <2>3, <3>2
    <3> QED BY <2>3, <3>1, <3>2
  <2>11. ComposerHas'
    <3> SUFFICES ASSUME composer'.id # 0, composer'.root \notin Excused
                 PROVE  /\ \A n \in 1..Len(sends') : LiveRow(n)' => sends'[n].draft.root # composer'.root
                        /\ \A i \in 1..Len(onSend') : onSend'[i].draft.root = composer'.root =>
                              Submitted(i, composer.id)'
                        /\ \A x \in drafts' : x.root # composer'.root
      BY <1>4 DEF ComposerHas
    <3>1. c.from = "float" /\ composer' = composer /\ drafts' \subseteq drafts
      BY <1>8, <2>2
    <3>2. c.draft.root # composer.root
      BY <1>1, <1>3, <3>1 DEF ComposerHas, Submitted
    <3>3. \A n \in 1..Len(sends') : LiveRow(n)' => sends'[n].draft.root # composer.root
      BY <1>3, <2>1, <2>3, <2>4, <3>1, <3>2 DEF ComposerHas
    <3> QED BY <1>1, <1>3, <3>1, <3>3 DEF ComposerHas, Submitted
  <2>12. FloatHas'
    <3> SUFFICES ASSUME NEW x \in drafts', x.root \notin Excused
                 PROVE  /\ \A n \in 1..Len(sends') : LiveRow(n)' => sends'[n].draft.root # x.root
                        /\ \A i \in 1..Len(onSend') : onSend'[i].draft.root = x.root =>
                              onSend'[i].draft = x /\ onSend'[i].from = "float"
                        /\ \A y \in drafts' : y.root = x.root => y = x
      BY <1>4 DEF FloatHas
    <3>1. x \in drafts /\ drafts' \subseteq drafts
      BY <2>2
    <3>2. c.draft.root # x.root
      BY <1>1, <1>3, <2>2, <3>1 DEF FloatHas
    <3>3. \A n \in 1..Len(sends') : LiveRow(n)' => sends'[n].draft.root # x.root
      BY <1>3, <2>1, <2>3, <2>4, <3>1, <3>2 DEF FloatHas
    <3> QED BY <1>1, <1>3, <3>1, <3>3 DEF FloatHas
  <2>13. ComposerShape' /\ C!SettledIsSaved'
    BY <1>0, <1>8, <2>2 DEF ComposeInv, ComposerShape, C!SettledIsSaved
  <2> QED BY <1>5, <2>5, <2>6, <2>8, <2>t, <2>9, <2>10, <2>11, <2>12, <2>13 DEF ComposeInv, Holders
<1>10. CASE C!QueueFails
  <2> DEFINE e == [composer EXCEPT !.busy = FALSE]
  <2>1. /\ e \in C!Composer /\ e.id = composer.id /\ e.text = composer.text
        /\ e.timer = composer.timer /\ e.edited = composer.edited
        /\ e.root = composer.root /\ e.rejected = composer.rejected
    BY <1>0 DEF C!Composer
  <2> HIDE DEF e
  <2>2. /\ \/ composer' = composer
           \/ composer' = e /\ c.from = "composer" /\ c.draft.id = composer.id
        /\ UNCHANGED <<initial, drafts, nextId, saved, sends, undoSend, late, twice, split>>
    BY <1>10 DEF C!QueueFails, c, e
  <2>3. \A n : LiveRow(n)' = LiveRow(n)
    BY <2>2 DEF LiveRow
  <2>4. C!TypeOK' /\ Room'
    BY <1>0, <1>1, <2>1, <2>2 DEF C!TypeOK, ComposeInv, Room
  <2>5. Fresh' /\ OneRow'
    BY <1>3, <1>4, <1>6, <2>1, <2>2, <2>3 DEF Fresh, OneRow
  <2>6. RowOrCall'
    BY <1>1, <1>3, <1>4, <2>2, <2>3 DEF RowOrCall
  <2>7. ComposerHas'
    BY <1>1, <1>3, <1>4, <1>5, <2>1, <2>2, <2>3 DEF ComposerHas, Submitted
  <2>t. Turn'
    <3>1. \A i \in 1..Len(onSend') : Submitted(i, composer.id)' => composer'.busy
      <4>1. CASE composer' = composer
        BY <1>t, <4>1
      <4>2. CASE composer' = e /\ c.from = "composer" /\ c.draft.id = composer.id
        BY <1>t, <2>1, <4>2 DEF Submitted
      <4> QED BY <2>2, <4>1, <4>2
    <3>2. ASSUME undoSend # 0, sends[undoSend].from = "composer"
          PROVE  /\ composer.id # sends[undoSend].draft.id
                 /\ \A i \in 1..Len(onSend') : ~Submitted(i, sends[undoSend].draft.id)'
      BY <1>1, <1>3, <2>2, <3>2 DEF Turn, Submitted
    <3> QED BY <1>t, <2>1, <2>2, <3>1, <3>2 DEF Turn
  <2>8. FloatHas'
    BY <1>1, <1>3, <1>4, <2>2, <2>3 DEF FloatHas
  <2>9. ComposerShape' /\ C!SettledIsSaved'
    BY <2>1, <2>2 DEF ComposeInv, ComposerShape, C!SettledIsSaved
  <2> QED BY <1>5, <2>4, <2>5, <2>6, <2>7, <2>t, <2>8, <2>9 DEF ComposeInv, Holders
<1> QED BY <1>9, <1>10

\* A row that has left was there, and leaves nothing of its draft to be written.
LEMMA FlushKeeps ==
    ASSUME ComposeInv, NEW n \in 1..Len(sends), C!Flush(n)
    PROVE  ComposeInv'
<1>0. /\ C!TypeOK /\ sends \in Seq(Row) /\ sends[n] \in Row /\ DOMAIN sends = 1..Len(sends)
      /\ Len(sends) \in Nat
  BY ComposeTypes DEF ComposeInv
<1> DEFINE r == [sends[n] EXCEPT !.state = "sent"]
<1>1. r \in Row /\ r.draft = sends[n].draft /\ r.from = sends[n].from /\ r.state = "sent"
  BY <1>0 DEF Row
<1>2. /\ sends' = [sends EXCEPT ![n] = r] /\ sends[n].state = "held"
      /\ UNCHANGED <<composer, initial, drafts, nextId, saved, onSend, undoSend, late, twice, split>>
  BY DEF C!Flush
<1> HIDE DEF r
<1>3. /\ sends' \in Seq(Row) /\ Len(sends') = Len(sends) /\ sends'[n] = r
      /\ \A m \in 1..Len(sends) : m # n => sends'[m] = sends[m]
  BY <1>0, <1>1, <1>2
<1>4. \A m \in 1..Len(sends) : sends'[m].draft = sends[m].draft /\ LiveRow(m)' = LiveRow(m)
  BY <1>1, <1>2, <1>3 DEF LiveRow
<1>5. C!TypeOK' /\ Room' /\ Excused' = Excused
  BY <1>0, <1>2, <1>3 DEF C!TypeOK, Row, ComposeInv, Room, Excused
<1>6. Fresh'
  <2>1. undoSend # 0 => undoSend \in 1..Len(sends) /\ LiveRow(undoSend)'
    BY <1>2, <1>3, <1>4 DEF ComposeInv, Holders, Fresh, LiveRow
  <2> QED BY <1>2, <1>3, <1>4, <2>1 DEF ComposeInv, Holders, Fresh, LiveRow
<1>7. OneRow' /\ OneCall' /\ RowOrCall'
  BY <1>2, <1>3, <1>4, <1>5 DEF ComposeInv, Holders, OneRow, OneCall, RowOrCall
<1>8. ComposerHas' /\ FloatHas'
  BY <1>2, <1>3, <1>4, <1>5 DEF ComposeInv, Holders, ComposerHas, FloatHas, Submitted
<1>t. Turn'
  <2>1. undoSend # 0 => /\ sends'[undoSend].draft = sends[undoSend].draft
                        /\ sends'[undoSend].from = sends[undoSend].from
    BY <1>1, <1>3 DEF ComposeInv, Holders, Fresh
  <2> QED BY <1>2, <2>1 DEF ComposeInv, Holders, Turn, Submitted
<1>9. ComposerShape' /\ C!SettledIsSaved'
  BY <1>2 DEF ComposeInv, ComposerShape, C!SettledIsSaved
<1> QED BY <1>5, <1>6, <1>7, <1>8, <1>t, <1>9 DEF ComposeInv, Holders

\* The draft is given back when its row will not leave, or is excused.
LEMMA UndoKeeps == ASSUME ComposeInv, C!Undo PROVE ComposeInv'
<1> DEFINE r == sends[undoSend]
<1>0. /\ C!TypeOK /\ sends \in Seq(Row) /\ DOMAIN sends = 1..Len(sends) /\ Len(sends) \in Nat
      /\ \A n \in 1..Len(sends) : sends[n] \in Row
      /\ composer \in C!Composer /\ nextId \in Nat /\ MaxDrafts \in Nat /\ composer.id \in Nat
      /\ drafts \subseteq C!Draft /\ nextId <= MaxDrafts
  BY ComposeTypes DEF ComposeInv, C!TypeOK
<1>1. Fresh /\ Turn /\ OneRow /\ OneCall /\ RowOrCall /\ ComposerHas /\ FloatHas
  BY DEF ComposeInv, Holders
<1>2. undoSend \in 1..Len(sends) /\ LiveRow(undoSend) /\ r \in Row
  BY <1>0, <1>1 DEF C!Undo, Fresh
<1>3. /\ r.draft \in C!Draft /\ r.draft.id \in 1..nextId /\ r.draft.id # 0
      /\ r.draft.root \in 1..nextId /\ r.draft.root # 0
  BY <1>0, <1>1, <1>2 DEF Fresh, Row
<1>4. /\ IF r.from = "composer" THEN C!OpenCompose(r.draft) /\ UNCHANGED drafts
         ELSE drafts' = drafts \cup {r.draft} /\ UNCHANGED <<composer, initial, nextId>>
      /\ undoSend' = 0 /\ 0 \in 0..MaxSends /\ UNCHANGED <<saved, onSend, twice, split>>
  BY WindowAssumption DEF C!Undo
<1>5. /\ sends' \in Seq(Row) /\ Len(sends') = Len(sends) /\ late \subseteq late' /\ late' \subseteq C!Ids
      /\ \A n \in 1..Len(sends) : sends'[n].draft = sends[n].draft /\ (LiveRow(n)' => LiveRow(n))
      /\ LiveRow(undoSend) => r.draft.root \in late' \/ sends'[undoSend].state = "cancelled"
  <2>1. CASE r.state = "held"
    <3> DEFINE q == [r EXCEPT !.state = "cancelled"]
    <3>1. q \in Row /\ q.draft = r.draft /\ q.state = "cancelled"
      BY <1>2 DEF Row
    <3>2. sends' = [sends EXCEPT ![undoSend] = q] /\ late' = late
      BY <2>1 DEF C!Undo
    <3> HIDE DEF q
    <3>3. /\ sends' \in Seq(Row) /\ Len(sends') = Len(sends) /\ sends'[undoSend] = q
          /\ \A m \in 1..Len(sends) : m # undoSend => sends'[m] = sends[m]
      BY <1>0, <1>2, <3>1, <3>2
    <3> QED BY <1>0, <1>2, <3>1, <3>2, <3>3 DEF LiveRow, C!TypeOK
  <2>2. CASE r.state # "held"
    <3>1. r.state = "sent" /\ sends' = sends /\ late' = late \cup {r.draft.root}
      BY <1>2, <2>2 DEF C!Undo, LiveRow
    <3>2. r.draft.root \in C!Ids
      BY <1>0, <1>3 DEF C!Ids
    <3> QED BY <1>0, <3>1, <3>2 DEF LiveRow, C!TypeOK
  <2> QED BY <2>1, <2>2
<1>6. Excused \subseteq Excused'
  BY <1>4, <1>5 DEF Excused
\* Nothing else holds the draft, unless it is excused.
<1>7. r.draft.root \notin Excused' =>
         /\ \A n \in 1..Len(sends) : LiveRow(n)' => sends[n].draft.root # r.draft.root
         /\ \A i \in 1..Len(onSend) : onSend[i].draft.root # r.draft.root
         /\ \A x \in drafts : x.root # r.draft.root
         /\ composer.id # 0 => composer.root # r.draft.root
  <2> SUFFICES ASSUME r.draft.root \notin Excused'
               PROVE  /\ \A n \in 1..Len(sends) : LiveRow(n)' => sends[n].draft.root # r.draft.root
                      /\ \A i \in 1..Len(onSend) : onSend[i].draft.root # r.draft.root
                      /\ \A x \in drafts : x.root # r.draft.root
                      /\ composer.id # 0 => composer.root # r.draft.root
    OBVIOUS
  <2>1. r.draft.root \notin Excused /\ sends'[undoSend].state = "cancelled"
    BY <1>2, <1>5, <1>6 DEF Excused
  <2>2. ASSUME NEW n \in 1..Len(sends), LiveRow(n)', sends[n].draft.root = r.draft.root
        PROVE  FALSE
    <3>1. n = undoSend
      BY <1>1, <1>2, <1>5, <2>1, <2>2 DEF OneRow
    <3> QED BY <2>1, <2>2, <3>1 DEF LiveRow
  <2>3. \A i \in 1..Len(onSend) : onSend[i].draft.root # r.draft.root
    BY <1>1, <1>2, <2>1 DEF RowOrCall
  <2>4. \A x \in drafts : x.root # r.draft.root
    BY <1>1, <1>2, <2>1 DEF FloatHas
  <2>5. composer.id # 0 => composer.root # r.draft.root
    BY <1>1, <1>2, <1>3, <2>1 DEF ComposerHas
  <2> QED BY <2>2, <2>3, <2>4, <2>5
<1>8. OneRow' /\ OneCall' /\ RowOrCall'
  BY <1>1, <1>4, <1>5, <1>6 DEF OneRow, OneCall, RowOrCall
<1>u. undoSend # 0 /\ sends[undoSend] = r
  BY DEF C!Undo
<1> HIDE DEF r
<1>9. CASE r.from = "composer"
  <2>1. C!OpenCompose(r.draft) /\ drafts' = drafts
    BY <1>4, <1>9
  <2>2. composer' = C!Shown(r.draft) /\ initial' = r.draft /\ nextId' = nextId
    BY <1>3, <2>1 DEF C!OpenCompose
  <2>3. /\ composer' \in C!Composer
        /\ composer'.root = r.draft.root
        /\ \/ /\ composer'.id = composer.id /\ composer'.busy = composer.busy /\ composer.id # 0
              /\ \/ /\ composer'.text = composer.text /\ composer'.timer = composer.timer
                    /\ composer'.edited = composer.edited
                    /\ composer'.rejected = composer.rejected
                 \/ composer'.text = r.draft.text /\ (composer'.timer <=> r.draft.text # Blank)
           \/ /\ composer'.id = r.draft.id /\ composer.id = 0
              /\ ~composer'.timer /\ ~composer'.edited
    BY <1>0, <1>3, <2>2, ShownFacts, RootOfOpen DEF C!IsOpen
  <2>4. C!TypeOK'
    BY <1>0, <1>3, <1>4, <1>5, <2>1, <2>2, <2>3 DEF C!TypeOK, Row
  <2>5. Fresh'
    <3>1. composer'.id <= nextId /\ composer'.root \in 1..nextId
      <4>1. composer.id <= nextId /\ r.draft.id <= nextId
        BY <1>0, <1>1, <1>3 DEF Fresh
      <4>2. composer'.id = composer.id \/ composer'.id = r.draft.id
        BY <2>3
      <4> QED BY <1>3, <2>3, <4>1, <4>2
    <3> QED BY <1>1, <1>4, <1>5, <2>1, <2>2, <3>1 DEF Fresh
  <2>6. ComposerHas'
    BY <1>1, <1>4, <1>5, <1>6, <1>7, <2>1, <2>3 DEF ComposerHas
  <2>7. FloatHas'
    BY <1>1, <1>4, <1>5, <1>6, <2>1 DEF FloatHas
  <2>t. Turn'
    <3>1. \A i \in 1..Len(onSend) : Submitted(i, composer.id)' => composer'.busy
      <4>1. CASE composer'.id = composer.id /\ composer'.busy = composer.busy
        BY <1>1, <1>4, <4>1 DEF Turn, Submitted
      <4>2. CASE composer'.id = r.draft.id
        <5>1. \A i \in 1..Len(onSend) : ~Submitted(i, r.draft.id)
          BY <1>1, <1>9, <1>u DEF Turn
        <5> QED BY <1>4, <4>2, <5>1 DEF Submitted
      <4> QED BY <2>3, <4>1, <4>2
    <3> QED BY <1>1, <1>4, <3>1 DEF Turn, Submitted
  <2>8. ComposerShape' /\ C!SettledIsSaved' /\ Room'
    BY <1>3, <1>4, <1>5, <2>3 DEF ComposeInv, ComposerShape, C!SettledIsSaved, Room
  <2> QED BY <1>8, <2>4, <2>5, <2>6, <2>7, <2>t, <2>8 DEF ComposeInv, Holders
<1>10. CASE r.from # "composer"
  <2>1. drafts' = drafts \cup {r.draft} /\ UNCHANGED <<composer, initial, nextId>>
    BY <1>4, <1>10
  <2>4. C!TypeOK'
    BY <1>0, <1>3, <1>4, <1>5, <2>1 DEF C!TypeOK, Row
  <2>5. Fresh'
    BY <1>0, <1>1, <1>3, <1>4, <1>5, <2>1 DEF Fresh
  <2>6. ComposerHas'
    BY <1>1, <1>4, <1>5, <1>6, <1>7, <2>1 DEF ComposerHas, Submitted
  <2>7. FloatHas'
    BY <1>1, <1>4, <1>5, <1>6, <1>7, <2>1 DEF FloatHas
  <2>t. Turn'
    BY <1>1, <1>4, <2>1 DEF Turn, Submitted
  <2>8. ComposerShape' /\ C!SettledIsSaved' /\ Room'
    BY <1>4, <1>5, <2>1 DEF ComposeInv, ComposerShape, C!SettledIsSaved, Room
  <2> QED BY <1>8, <2>4, <2>5, <2>6, <2>7, <2>t, <2>8 DEF ComposeInv, Holders
<1> QED BY <1>9, <1>10

LEMMA OtherUndoKeeps == ASSUME ComposeInv, C!OtherUndo PROVE ComposeInv'
<1>1. undoSend' = 0 /\ UNCHANGED <<composer, initial, drafts, nextId, saved, onSend, sends,
                                   late, twice, split>>
  BY DEF C!OtherUndo
<1>2. 0 \in 0..MaxSends
  BY WindowAssumption
<1>3. C!TypeOK'
  BY <1>1, <1>2 DEF ComposeInv, C!TypeOK
<1>4. Holders'
  BY <1>1 DEF ComposeInv, Holders, Fresh, Turn, OneRow, OneCall, RowOrCall, ComposerHas, FloatHas,
              Submitted,
              Excused, LiveRow
<1> QED BY <1>1, <1>3, <1>4 DEF ComposeInv, ComposerShape, C!SettledIsSaved, Room

LEMMA ComposeInit == ASSUME C!Init PROVE ComposeInv
<1>1. /\ composer = C!Closed /\ initial = C!NoDraft /\ drafts = {} /\ nextId = 0
      /\ saved = [d \in C!Ids |-> Blank] /\ onSend = <<>> /\ sends = <<>> /\ undoSend = 0
      /\ late = {} /\ twice = {} /\ split = {}
  BY DEF C!Init
<1>2. C!Closed \in C!Composer /\ C!Closed.id = 0 /\ ~C!Closed.timer /\ ~C!Closed.edited
      /\ C!NoDraft \in C!Draft /\ Blank \in C!AnyText
  BY DEF C!Closed, C!Composer, C!AnyText, C!NoDraft, C!Draft
<1>3. Len(onSend) = 0 /\ Len(sends) = 0 /\ 0 \in 0..MaxSends /\ 0 \in 0..MaxDrafts
  BY <1>1, WindowAssumption
<1>4. C!TypeOK
  BY <1>1, <1>2, <1>3 DEF C!TypeOK
<1>5. Holders
  BY <1>1, <1>2, <1>3 DEF Holders, Fresh, Turn, OneRow, OneCall, RowOrCall, ComposerHas, FloatHas
<1>6. ComposerShape /\ Room /\ C!SettledIsSaved
  BY <1>1, <1>2, <1>3, WindowAssumption DEF ComposerShape, Room, C!SettledIsSaved
<1> QED BY <1>4, <1>5, <1>6 DEF ComposeInv

LEMMA ComposeNext == ASSUME ComposeInv, C!Next PROVE ComposeInv'
<1>1. DOMAIN sends = 1..Len(sends)
  BY ComposeTypes DEF ComposeInv
<1>2. CASE (\E t \in C!AnyText : C!Open(t) \/ C!Type(t)) \/ C!Render \/ C!Autosave \/ C!AutosaveFails
             \/ C!Close \/ C!Minimize \/ \E d \in drafts : C!Expand(d) \/ C!Discard(d)
  BY <1>2, WriteKeeps
<1>3. CASE (\E scheduled \in BOOLEAN : C!Submit(scheduled)) \/ \E x \in drafts : C!SendFloat(x)
  BY <1>3, CallKeeps
<1>4. CASE C!Queued \/ C!QueueFails \/ C!Undo \/ C!OtherUndo
  BY <1>4, AnswerKeeps, UndoKeeps, OtherUndoKeeps
<1>5. CASE \E n \in DOMAIN sends : C!Flush(n)
  BY <1>1, <1>5, FlushKeeps
<1> QED BY <1>2, <1>3, <1>4, <1>5 DEF C!Next

\* SecondCopyExplained is OneRow for the rows that have left.
LEMMA CopiesExplained == ASSUME ComposeInv PROVE C!SecondCopyExplained
<1>1. DOMAIN sends = 1..Len(sends) /\ OneRow
  BY ComposeTypes DEF ComposeInv, Holders
<1> QED BY <1>1 DEF C!SecondCopyExplained, OneRow, LiveRow, Excused

-----------------------------------------------------------------------------
(* The inbox.                                                                 *)

Listed == I!Thread \cup {I!Absent}
Snaps == UNION {[ts -> Listed] : ts \in SUBSET Threads}
CallRecord == [kind : I!Kinds, targets : (SUBSET Threads) \ {{}}, shown : BOOLEAN, snap : Snaps,
               bulk : BOOLEAN]
UndoRow == [act : Nat, state : {"held", "sent", "cancelled"}, snap : Snaps]

Around ==
    /\ list \in I!Lists /\ engine \in I!Lists
    /\ selected \in Threads \cup {None} /\ opened \in Threads \cup {None}
    /\ query \in Queries \cup {None} /\ label \in I!Folders
    /\ folders \in [I!Folders -> {"no", "loading", "synced"}]
    /\ bulk \subseteq Threads /\ refreshing \subseteq {"hydrate", "refresh"}

\* The effects follow what the user does at once, so what was opened is still listed.
OpenedListed == opened # None /\ opened # ran.opened => opened \in I!In(list)

\* What is shown and on its way is of what the effects last ran for.
Live == \E l \in loads : l.live
RanFor ==
    /\ \E k, o, q, f : ran = [key |-> k, opened |-> o, query |-> q, label |-> f]
    /\ ran.key = <<None>> \/ ran.key[1] = ran.opened
    /\ pane.of \in {None, ran.opened} /\ hits \in {None, ran.query}
    /\ \A l \in loads : l.live => l.of = ran.opened
    /\ \A s \in searches : s.live => s.of = ran.query
    /\ \A t \in Threads, n \in 0..MaxIds :
          ran.key = <<t, n>> => pane.of = t \/ pane.error \/ (pane.loading /\ Live)

Reading ==
    /\ pane \in [of : Threads \cup {None}, loading : BOOLEAN, error : BOOLEAN]
    /\ loads \subseteq [of : Threads, ids : 0..MaxIds, pc : {"thread", "messages"}, live : BOOLEAN]
    /\ hits \in Queries \cup {None} /\ searches \subseteq [of : Queries, live : BOOLEAN]
    /\ RanFor

\* Actions are numbered in the order their rows came.
Numbered(k) ==
    /\ k \in Nat
    /\ \A i \in 1..Len(rows) : rows[i].act \in 1..k
    /\ \A a \in 1..k : \E i \in 1..Len(rows) : rows[i].act = a
    /\ undone \subseteq 1..k /\ undo \in 0..k

\* What an undo has taken back and is still held, it is about to cancel.
ToCancel ==
    \A i \in 1..Len(rows) : rows[i].act \in undone /\ rows[i].state = "held" => i \in undoing

Outbox ==
    /\ calls \in Seq(CallRecord) /\ rows \in Seq(UndoRow)
    /\ undoing \subseteq 1..Len(rows)
    /\ \E k \in Nat : Numbered(k)
    /\ ToCancel

\* The inductive invariant.
InboxInv == Around /\ OpenedListed /\ Reading /\ Outbox

LEMMA ListFacts ==
    ASSUME Around
    PROVE  /\ I!In(list) \subseteq Threads /\ I!In(engine) \subseteq Threads
           /\ \A t \in I!In(list) : list[t] \in I!Thread /\ list[t].ids \in 0..MaxIds
           /\ I!Visible \subseteq I!In(list)
<1>1. list \in [Threads -> I!Thread \cup {I!Absent}] /\ I!In(list) \subseteq Threads
  BY DEF Around, I!Lists, I!In
<1>2. \A t \in I!In(list) : list[t] \in I!Thread
  BY <1>1 DEF I!In
<1> QED BY <1>1, <1>2 DEF I!In, I!Thread, I!Visible

\* A change of the list is a list.
LEMMA ChangedFacts ==
    ASSUME list \in I!Lists, NEW targets, NEW kind
    PROVE  I!Changed(targets, kind) \in I!Lists
<1>1. ASSUME NEW th \in I!Thread PROVE I!Shown(th, kind) \in I!Thread
  <2> DEFINE f == IF th.folder = "INBOX" THEN "ARCHIVE" ELSE th.folder
             b == kind = "mark_unread"
  <2>1. f \in I!Folders /\ b \in BOOLEAN
    BY DEF I!Thread, I!Folders
  <2>2. \/ I!Shown(th, kind) = [th EXCEPT !.folder = f]
        \/ I!Shown(th, kind) = [th EXCEPT !.folder = "OTHER"]
        \/ I!Shown(th, kind) = [th EXCEPT !.unread = b]
        \/ I!Shown(th, kind) = th
    BY DEF I!Shown, I!Immediate
  <2> HIDE DEF f, b
  <2> QED BY <2>1, <2>2 DEF I!Thread, I!Folders
<1>2. \A t \in Threads : list[t] \in I!Thread \cup {I!Absent}
  BY DEF I!Lists
<1> QED BY <1>1, <1>2 DEF I!Changed, I!Lists

LEMMA SnapFacts ==
    /\ \A ts \in SUBSET Threads : list \in I!Lists => [t \in ts |-> list[t]] \in Snaps
    /\ \A s \in Snaps : \A t \in DOMAIN s : s[t] \in Listed
<1>1. ASSUME NEW ts \in SUBSET Threads, list \in I!Lists PROVE [t \in ts |-> list[t]] \in Snaps
  <2>1. [t \in ts |-> list[t]] \in [ts -> Listed]
    BY <1>1 DEF I!Lists, Listed
  <2> QED BY <2>1 DEF Snaps
<1>2. ASSUME NEW s \in Snaps, NEW t \in DOMAIN s PROVE s[t] \in Listed
  <2>1. PICK ts \in SUBSET Threads : s \in [ts -> Listed]
    BY DEF Snaps
  <2> QED BY <2>1
<1> QED BY <1>1, <1>2

LEMMA OutboxStill ==
    ASSUME Outbox, UNCHANGED <<calls, rows, undo, undoing, undone>>
    PROVE  Outbox'
BY DEF Outbox, Numbered, ToCancel

\* A step of the user, the engine or the outbox: the effects have run, and the pane and
\* the search wait for them to run again.
LEMMA OtherKeeps ==
    ASSUME InboxInv, ~I!Urgent, UNCHANGED <<pane, loads, ran, hits, searches>>,
           Around', Outbox', opened' \in {None, opened} \/ opened' \in I!In(list')
    PROVE  InboxInv'
<1>1. Reading' BY DEF InboxInv, Reading, RanFor, Live
<1>2. OpenedListed' BY DEF I!Urgent, OpenedListed, I!In
<1> QED BY <1>1, <1>2 DEF InboxInv

\* The effects run for what is opened, asked and listed now.
LEMMA EffectsKeep == ASSUME InboxInv, I!Effects PROVE InboxInv'
<1>0. /\ Around /\ OpenedListed /\ Reading /\ Outbox /\ RanFor
      /\ None \notin Threads /\ None \notin 0..MaxIds
  BY WindowAssumption DEF InboxInv, Reading
<1>1. /\ ran' = [key |-> I!FetchKey, opened |-> opened, query |-> query, label |-> label]
      /\ I!LoadThread /\ I!SearchMailbox
      /\ UNCHANGED <<engine, selected, opened, query, label, bulk, refreshing, calls, rows, undo,
                     undoing, undone>>
  BY DEF I!Effects, I!Deps, I!outbox
<1>2. list' \in I!Lists
  BY <1>0, ChangedFacts DEF Around, I!Effects, I!MarkOpenedRead
<1>3. folders' \in [I!Folders -> {"no", "loading", "synced"}]
  <2> DEFINE left == [f \in I!Folders |-> IF folders[f] = "loading" THEN "no" ELSE folders[f]]
  <2>1. left \in [I!Folders -> {"no", "loading", "synced"}]
    BY <1>0 DEF Around
  <2>2. \/ folders' = folders
        \/ folders' = [left EXCEPT ![label] = "loading"]
        \/ folders' = left
    BY DEF I!Effects, I!SyncLabel
  <2> HIDE DEF left
  <2> QED BY <1>0, <2>1, <2>2 DEF Around
<1>4. Around'
  BY <1>0, <1>1, <1>2, <1>3 DEF Around
<1>5. OpenedListed' /\ Outbox'
  BY <1>0, <1>1, OutboxStill DEF OpenedListed
<1>6. /\ hits' \in {None, query} /\ hits' \in Queries \cup {None}
      /\ searches' \subseteq [of : Queries, live : BOOLEAN]
      /\ \A s \in searches' : s.live => s.of = query
  <2>1. CASE ran.query = query
    BY <1>0, <1>1, <2>1 DEF I!SearchMailbox, Reading, RanFor
  <2>2. CASE ran.query # query
    <3>1. \A s \in searches : /\ [s EXCEPT !.live = FALSE] \in [of : Queries, live : BOOLEAN]
                              /\ ~[s EXCEPT !.live = FALSE].live
      BY <1>0 DEF Reading
    <3>2. query # None => [of |-> query, live |-> TRUE] \in [of : Queries, live : BOOLEAN]
      BY <1>0 DEF Around
    <3> DEFINE former == {[s EXCEPT !.live = FALSE] : s \in searches}
               now == [of |-> query, live |-> TRUE]
               sought == IF query = None THEN {} ELSE {now}
    <3>3. hits' = None /\ searches' = former \cup sought
      BY <1>1, <2>2 DEF I!SearchMailbox
    <3>4. former \subseteq [of : Queries, live : BOOLEAN] /\ \A s \in former : ~s.live
      BY <3>1
    <3>5. sought \subseteq [of : Queries, live : BOOLEAN] /\ \A s \in sought : s.of = query
      <4>1. now.of = query /\ (query # None => now \in [of : Queries, live : BOOLEAN])
        BY <3>2
      <4> HIDE DEF now
      <4> QED BY <4>1
    <3> HIDE DEF former, sought
    <3> QED BY <3>3, <3>4, <3>5
  <2> QED BY <2>1, <2>2
<1>7. I!FetchKey = <<None>> \/ I!FetchKey[1] = opened
  BY DEF I!FetchKey
<1>8. ASSUME NEW t \in Threads, NEW n \in 0..MaxIds, I!FetchKey = <<t, n>>
      PROVE  opened = t /\ opened \in I!In(list) /\ list[opened].ids = n
  BY <1>0, <1>8 DEF I!FetchKey
<1> DEFINE Shows(p, ls) ==
      /\ p \in [of : Threads \cup {None}, loading : BOOLEAN, error : BOOLEAN]
      /\ ls \subseteq [of : Threads, ids : 0..MaxIds, pc : {"thread", "messages"}, live : BOOLEAN]
      /\ p.of \in {None, opened}
      /\ \A l \in ls : l.live => l.of = opened
      /\ \A t \in Threads, n \in 0..MaxIds : I!FetchKey = <<t, n>> =>
            p.of = t \/ p.error \/ (p.loading /\ \E l \in ls : l.live)
<1>9. Shows(pane', loads')
  <2>1. /\ I!Overtaken \subseteq [of : Threads, ids : 0..MaxIds, pc : {"thread", "messages"},
                                  live : BOOLEAN]
        /\ \A l \in I!Overtaken : ~l.live
    <3>1. \A l \in loads :
             /\ [l EXCEPT !.live = FALSE] \in [of : Threads, ids : 0..MaxIds,
                                               pc : {"thread", "messages"}, live : BOOLEAN]
             /\ ~[l EXCEPT !.live = FALSE].live
      BY <1>0 DEF Reading
    <3> QED BY <3>1 DEF I!Overtaken
  <2>2. \A e, g \in BOOLEAN : LET p == [of |-> None, loading |-> g, error |-> e] IN
           p \in [of : Threads \cup {None}, loading : BOOLEAN, error : BOOLEAN]
    OBVIOUS
  <2>3. CASE ran.key = I!FetchKey
    <3>1. ran.key # <<None>> /\ ran.opened = opened
      BY <1>0, <2>3 DEF I!FetchKey, RanFor
    <3>2. pane' = pane /\ loads' = loads
      BY <1>1, <2>3 DEF I!LoadThread
    <3> QED BY <1>0, <2>3, <3>1, <3>2 DEF Reading, RanFor, Live
  <2>4. CASE /\ ran.key # I!FetchKey /\ opened = None
             /\ pane' = I!Nothing /\ loads' = I!Overtaken
    BY <1>0, <1>8, <2>1, <2>2, <2>4 DEF I!Nothing
  <2>5. CASE /\ opened # None /\ opened \notin I!In(list)
             /\ loads' = I!Overtaken /\ pane' = pane
    <3>1. opened = ran.opened
      BY <1>0, <2>5 DEF OpenedListed
    <3> QED BY <1>0, <1>8, <2>1, <2>5, <3>1 DEF Reading, RanFor
  <2>6. CASE /\ opened \in I!In(list) /\ list[opened].ids = 0
             /\ pane' = [I!Nothing EXCEPT !.error = TRUE] /\ loads' = I!Overtaken
    BY <1>8, <2>1, <2>2, <2>6 DEF I!Nothing
  <2>7. CASE /\ opened \in I!In(list) /\ list[opened].ids # 0
             /\ pane' = [I!Nothing EXCEPT !.loading = TRUE]
             /\ loads' = I!Overtaken \cup
                  {[of |-> opened, ids |-> list[opened].ids, pc |-> "thread", live |-> TRUE]}
    <3> DEFINE l == [of |-> opened, ids |-> list[opened].ids, pc |-> "thread", live |-> TRUE]
    <3>1. /\ l \in [of : Threads, ids : 0..MaxIds, pc : {"thread", "messages"}, live : BOOLEAN]
          /\ l.live /\ l.of = opened
      BY <1>0, <2>7, ListFacts
    <3> HIDE DEF l
    <3>2. loads' = I!Overtaken \cup {l}
      BY <2>7 DEF l
    <3>3. /\ pane'.of = None /\ pane'.loading
          /\ pane' \in [of : Threads \cup {None}, loading : BOOLEAN, error : BOOLEAN]
      BY <2>7 DEF I!Nothing
    <3> QED BY <2>1, <3>1, <3>2, <3>3
  <2> QED BY <1>1, <2>3, <2>4, <2>5, <2>6, <2>7 DEF I!LoadThread
<1>10. RanFor'
  <2>1. \E k, o, q, f : ran' = [key |-> k, opened |-> o, query |-> q, label |-> f]
    BY <1>1
  <2>2. ran'.key = I!FetchKey /\ ran'.opened = opened /\ ran'.query = query
    BY <1>1
  <2> QED BY <1>6, <1>7, <1>9, <2>1, <2>2 DEF RanFor, Live
<1> QED BY <1>4, <1>5, <1>6, <1>9, <1>10 DEF InboxInv, Reading

\* A load that is live is of the thread the pane waits for; the answer of another one
\* leaves the pane.
LEMMA LoadsKeep ==
    ASSUME InboxInv, ~I!Urgent, NEW l \in loads,
           I!GetThread(l) \/ I!ShowMessages(l) \/ I!LoadFails(l)
    PROVE  InboxInv'
<1>0. /\ Around /\ OpenedListed /\ Reading /\ Outbox /\ RanFor
      /\ None \notin Threads /\ None \notin 0..MaxIds /\ MaxIds \in Nat \ {0}
      /\ l.of \in Threads /\ l.ids \in 0..MaxIds
      /\ l \in [of : Threads, ids : 0..MaxIds, pc : {"thread", "messages"}, live : BOOLEAN]
  BY WindowAssumption DEF InboxInv, Reading
<1>1. /\ UNCHANGED <<engine, selected, opened, ran, query, hits, searches, label, folders, bulk,
                     refreshing, calls, rows, undo, undoing, undone>>
  BY DEF I!GetThread, I!ShowMessages, I!LoadFails, I!unread, I!searching, I!outbox
<1>2. Outbox'
  BY <1>0, <1>1, OutboxStill
<1>3. list' \in I!Lists
  <2>1. CASE I!GetThread(l)
    <3>1. PICK n \in {l.ids} \cup 1..MaxIds :
             list' = [t \in Threads |->
                        IF t = l.of /\ n # l.ids /\ t \in I!In(list) THEN [list[t] EXCEPT !.ids = n]
                        ELSE list[t]]
      BY <2>1 DEF I!GetThread
    <3>2. n \in 0..MaxIds
      BY <1>0, <3>1
    <3>3. \A t \in I!In(list) : [list[t] EXCEPT !.ids = n] \in I!Thread
      BY <1>0, <3>2, ListFacts DEF I!Thread
    <3> QED BY <1>0, <3>1, <3>3 DEF Around, I!Lists
  <2>2. CASE I!ShowMessages(l) \/ I!LoadFails(l)
    BY <1>0, <2>2 DEF I!ShowMessages, I!LoadFails, Around
  <2> QED BY <2>1, <2>2
<1>4. Around' /\ OpenedListed'
  BY <1>0, <1>1, <1>3 DEF Around, OpenedListed, I!Urgent
<1>5. Reading'
  <2>1. CASE I!GetThread(l)
    <3>1. PICK n \in {l.ids} \cup 1..MaxIds :
             /\ loads' = (loads \ {l}) \cup {[l EXCEPT !.pc = "messages", !.ids = n]}
             /\ pane' = pane
      BY <2>1 DEF I!GetThread
    <3> DEFINE m == [l EXCEPT !.pc = "messages", !.ids = n]
    <3>2. /\ m \in [of : Threads, ids : 0..MaxIds, pc : {"thread", "messages"}, live : BOOLEAN]
          /\ m.of = l.of /\ m.live = l.live
      <4>1. n \in 0..MaxIds
        BY <1>0, <3>1
      <4> QED BY <1>0, <4>1
    <3> HIDE DEF m
    <3>3. loads' = (loads \ {l}) \cup {m}
      BY <3>1 DEF m
    <3>4. Live' <=> Live
      BY <3>2, <3>3 DEF Live
    <3> QED BY <1>0, <1>1, <3>1, <3>2, <3>3, <3>4 DEF Reading, RanFor
  <2>2. CASE I!ShowMessages(l) /\ l.live
    <3>1. pane' = [I!Nothing EXCEPT !.of = l.of] /\ loads' = loads \ {l}
      BY <2>2 DEF I!ShowMessages
    <3>2. /\ pane' \in [of : Threads \cup {None}, loading : BOOLEAN, error : BOOLEAN]
          /\ pane'.of = ran.opened
      BY <1>0, <2>2, <3>1 DEF I!Nothing, RanFor
    <3>3. \A t \in Threads, n \in 0..MaxIds : ran.key = <<t, n>> => pane'.of = t
      BY <1>0, <3>2 DEF RanFor
    <3> QED BY <1>0, <1>1, <3>1, <3>2, <3>3 DEF Reading, RanFor
  <2>3. CASE I!LoadFails(l) /\ l.live
    <3>1. pane' = [pane EXCEPT !.loading = FALSE, !.error = TRUE] /\ loads' = loads \ {l}
      BY <2>3 DEF I!LoadFails
    <3>2. /\ pane' \in [of : Threads \cup {None}, loading : BOOLEAN, error : BOOLEAN]
          /\ pane'.of = pane.of /\ pane'.error
      BY <1>0, <3>1 DEF Reading
    <3> QED BY <1>0, <1>1, <3>1, <3>2 DEF Reading, RanFor
  <2>4. CASE (I!ShowMessages(l) \/ I!LoadFails(l)) /\ ~l.live
    <3>1. pane' = pane /\ loads' = loads \ {l}
      BY <2>4 DEF I!ShowMessages, I!LoadFails
    <3>2. Live' <=> Live
      BY <2>4, <3>1 DEF Live
    <3> QED BY <1>0, <1>1, <3>1, <3>2 DEF Reading, RanFor
  <2> QED BY <2>1, <2>2, <2>3, <2>4
<1> QED BY <1>2, <1>4, <1>5 DEF InboxInv

\* The same for a search.
LEMMA SearchesKeep ==
    ASSUME InboxInv, ~I!Urgent, NEW s \in searches, I!SearchFound(s) \/ I!SearchFailed(s)
    PROVE  InboxInv'
<1>0. Around /\ OpenedListed /\ Reading /\ Outbox /\ RanFor
  BY DEF InboxInv, Reading
<1>1. /\ UNCHANGED <<engine, selected, opened, pane, loads, ran, query, label, folders, bulk,
                     refreshing, calls, rows, undo, undoing, undone>>
      /\ searches' = searches \ {s}
      /\ \/ s.live /\ hits' = s.of /\ list' = engine
         \/ UNCHANGED <<hits, list>>
  BY DEF I!SearchFound, I!SearchFailed, I!unfound, I!reading, I!outbox
<1>2. Outbox'
  BY <1>0, <1>1, OutboxStill
<1>3. Around' /\ OpenedListed'
  BY <1>0, <1>1 DEF Around, OpenedListed, I!Urgent
<1>4. hits' \in Queries \cup {None} /\ hits' \in {None, ran.query}
  BY <1>0, <1>1 DEF Reading, RanFor
<1>5. Reading'
  BY <1>0, <1>1, <1>4 DEF Reading, RanFor, Live
<1> QED BY <1>2, <1>3, <1>5 DEF InboxInv

\* What the user, the engine and a folder do to what is listed and opened.
LEMMA ListKeeps ==
    ASSUME InboxInv, ~I!Urgent,
           \/ I!LabelSynced \/ I!HydrateRuntime \/ I!RefreshInbox
           \/ \E by \in refreshing : I!Refreshed(by)
           \/ \E t \in Threads : \/ I!Pull(t, I!Absent)
                                 \/ \E f \in I!Folders :
                                       I!Pull(t, [folder |-> f, unread |-> TRUE, ids |-> MaxIds])
           \/ \E t \in I!Visible : I!Navigate(t) \/ I!OpenThread(t)
           \/ \E ts \in SUBSET I!Visible, t \in I!Visible : I!RangeSelect(ts, t)
           \/ I!CloseReading \/ I!GoToInbox
           \/ \E f \in I!Folders : I!OpenFolder(f)
           \/ \E q \in (Queries \cup {None}) \ {query} : I!Search(q)
    PROVE  InboxInv'
<1>0. /\ Around /\ Outbox /\ I!In(list) \subseteq Threads /\ I!In(engine) \subseteq Threads
      /\ I!Visible \subseteq I!In(list)
  BY ListFacts DEF InboxInv
<1> USE DEF I!reading, I!searching, I!outbox
<1>1. UNCHANGED <<pane, loads, ran, hits, searches, calls, rows, undo, undoing, undone>>
  BY DEF I!LabelSynced, I!HydrateRuntime, I!RefreshInbox, I!Refreshed, I!Pull, I!Navigate,
         I!OpenThread, I!RangeSelect, I!CloseReading, I!GoToInbox, I!OpenFolder, I!Search, I!Goes
<1>2. Outbox'
  BY <1>0, <1>1, OutboxStill
<1>3. ASSUME Around', opened' \in {None, opened} \/ (opened' \in I!In(list) /\ list' = list)
      PROVE  InboxInv'
  BY <1>1, <1>2, <1>3, OtherKeeps
<1>4. CASE I!LabelSynced
  <2>1. folders' \in [I!Folders -> {"no", "loading", "synced"}]
    BY <1>0, <1>4 DEF I!LabelSynced, Around
  <2>2. Around' /\ opened' = opened
    BY <1>0, <1>4, <2>1 DEF I!LabelSynced, Around
  <2> QED BY <1>3, <2>2
<1>5. CASE I!HydrateRuntime
  <2>1. Around' /\ opened' = None
    BY <1>0, <1>5 DEF I!HydrateRuntime, Around
  <2> QED BY <1>3, <2>1
<1>6. CASE I!RefreshInbox
  <2>1. Around' /\ opened' = opened
    BY <1>0, <1>6 DEF I!RefreshInbox, Around
  <2> QED BY <1>3, <2>1
<1>7. ASSUME NEW by \in refreshing, I!Refreshed(by) PROVE InboxInv'
  <2>1. selected' \in Threads \cup {None} /\ list' \in I!Lists
    BY <1>0, <1>7 DEF I!Refreshed, Around
  <2>2. Around' /\ opened' = opened
    BY <1>0, <1>7, <2>1 DEF I!Refreshed, Around
  <2> QED BY <1>3, <2>2
<1>8. ASSUME NEW t \in Threads, NEW th \in I!Thread \cup {I!Absent}, I!Pull(t, th) PROVE InboxInv'
  <2>1. engine' \in I!Lists
    BY <1>0, <1>8 DEF I!Pull, Around, I!Lists
  <2>2. Around' /\ opened' = opened
    BY <1>0, <1>8, <2>1 DEF I!Pull, Around
  <2> QED BY <1>3, <2>2
<1>9. \A f \in I!Folders : [folder |-> f, unread |-> TRUE, ids |-> MaxIds] \in I!Thread
  BY WindowAssumption DEF I!Thread
<1>10. ASSUME NEW t \in I!Visible, I!Navigate(t) \/ I!OpenThread(t) PROVE InboxInv'
  <2>1. Around' /\ opened' \in {None, t} /\ list' = list
    BY <1>0, <1>10 DEF I!Navigate, I!OpenThread, I!Goes, Around
  <2> QED BY <1>0, <1>3, <2>1
<1>11. ASSUME NEW ts \in SUBSET I!Visible, NEW t \in I!Visible, I!RangeSelect(ts, t)
       PROVE  InboxInv'
  <2>1. Around' /\ opened' = opened
    BY <1>0, <1>11 DEF I!RangeSelect, I!Goes, Around
  <2> QED BY <1>3, <2>1
<1>12. CASE I!CloseReading
  <2>1. Around' /\ opened' = None
    BY <1>0, <1>12 DEF I!CloseReading, I!Goes, Around
  <2> QED BY <1>3, <2>1
<1>13. CASE I!GoToInbox
  <2>1. Around' /\ opened' = None
    BY <1>0, <1>13 DEF I!GoToInbox, I!Goes, I!Folders, Around
  <2> QED BY <1>3, <2>1
<1>14. ASSUME NEW f \in I!Folders, I!OpenFolder(f) PROVE InboxInv'
  <2>1. Around' /\ opened' \in {None, opened}
    BY <1>0, <1>14 DEF I!OpenFolder, I!Goes, Around
  <2> QED BY <1>3, <2>1
<1>15. ASSUME NEW q \in Queries \cup {None}, I!Search(q) PROVE InboxInv'
  <2>1. Around' /\ opened' = opened
    BY <1>0, <1>15 DEF I!Search, Around
  <2> QED BY <1>3, <2>1
<1> QED BY <1>4, <1>5, <1>6, <1>7, <1>8, <1>9, <1>10, <1>11, <1>12, <1>13, <1>14, <1>15

\* The load is due again.
LEMMA RetryLoadKeeps == ASSUME InboxInv, ~I!Urgent, I!RetryLoad PROVE InboxInv'
<1>0. Around /\ OpenedListed /\ Reading /\ Outbox /\ RanFor
  BY DEF InboxInv, Reading
<1>1. /\ ran' = [ran EXCEPT !.key = <<None>>]
      /\ UNCHANGED <<list, engine, selected, opened, pane, loads, query, hits, searches, label,
                     folders, bulk, refreshing, calls, rows, undo, undoing, undone>>
  BY DEF I!RetryLoad, I!searching, I!outbox
<1>2. /\ \E k, o, q, f : ran' = [key |-> k, opened |-> o, query |-> q, label |-> f]
      /\ ran'.key = <<None>> /\ ran'.opened = ran.opened /\ ran'.query = ran.query
  <2>1. PICK k, o, q, f : ran = [key |-> k, opened |-> o, query |-> q, label |-> f]
    BY <1>0 DEF RanFor
  <2>2. ran' = [key |-> <<None>>, opened |-> o, query |-> q, label |-> f]
    BY <1>1, <2>1
  <2> QED BY <2>1, <2>2
<1>3. \A t \in Threads, n \in 0..MaxIds : ran'.key # <<t, n>>
  BY <1>2
<1>4. Reading'
  BY <1>0, <1>1, <1>2, <1>3 DEF Reading, RanFor, Live
<1>5. Around' /\ OpenedListed' /\ Outbox'
  BY <1>0, <1>1, <1>2, OutboxStill DEF Around, OpenedListed, I!In
<1> QED BY <1>4, <1>5 DEF InboxInv

\* An action of the user is enqueued, and the list shows it when it does not wait.
LEMMA EnqueueKeeps ==
    ASSUME InboxInv, ~I!Urgent, NEW kind \in I!Kinds, NEW targets \in SUBSET Threads,
           NEW shown \in BOOLEAN, NEW ofBulk \in BOOLEAN,
           I!Enqueues(kind, targets, shown, ofBulk),
           selected' \in Threads \cup {None}, opened' \in {None, opened}
    PROVE  InboxInv'
<1>0. Around /\ Outbox
  BY DEF InboxInv
<1>1. /\ UNCHANGED <<engine, pane, loads, ran, query, hits, searches, label, folders, bulk,
                     refreshing, rows, undo, undoing, undone>>
      /\ targets # {}
  BY DEF I!Enqueues, I!reading, I!searching
<1>2. list' \in I!Lists
  BY <1>0, ChangedFacts DEF I!Enqueues, Around
<1>3. Around'
  BY <1>0, <1>1, <1>2 DEF Around
<1>4. calls' \in Seq(CallRecord)
  <2> DEFINE snap == I!Snapshots(kind, targets, ofBulk)
             c == [kind |-> kind, targets |-> targets, shown |-> shown, snap |-> snap,
                   bulk |-> ofBulk]
  <2>1. c \in CallRecord
    <3>1. snap \in Snaps
      <4> DEFINE ts == IF kind = "star" \/ (kind = "apply_label" /\ ~ofBulk) THEN {} ELSE targets
      <4>1. ts \in SUBSET Threads /\ snap = [t \in ts |-> list[t]]
        BY DEF I!Snapshots
      <4> HIDE DEF ts
      <4> QED BY <1>0, <4>1, SnapFacts DEF Around
    <3>2. targets \in (SUBSET Threads) \ {{}}
      BY <1>1
    <3> HIDE DEF snap
    <3> QED BY <3>1, <3>2 DEF CallRecord
  <2>2. calls' = calls \/ calls' = Append(calls, c)
    BY DEF I!Enqueues
  <2> HIDE DEF c
  <2> QED BY <1>0, <2>1, <2>2, AppendFacts DEF Outbox
<1>5. Outbox'
  BY <1>0, <1>1, <1>4 DEF Outbox, Numbered, ToCancel
<1> QED BY <1>1, <1>3, <1>5, OtherKeeps

LEMMA TriageKeeps ==
    ASSUME InboxInv, ~I!Urgent,
           \/ I!ArchiveSelected \/ I!ToggleReadSelected \/ I!TrashSelected
           \/ \E t \in I!Visible, kind \in {"archive", "trash", "spam"} \cup I!Immediate :
                 I!ApplyThreadSwipeAction(t, kind)
           \/ \E t \in Threads : I!TrashThread(t)
           \/ \E kind \in {"star", "spam", "snooze", "apply_label"} : I!MutateOpened(kind)
           \/ \E kind \in {"archive", "apply_label", "move_folder"} \cup I!Immediate :
                 I!BulkMutate(kind)
    PROVE  InboxInv'
<1>0. /\ Around /\ I!In(list) \subseteq Threads /\ I!Visible \subseteq I!In(list)
      /\ pane.of \in Threads \cup {None} /\ selected \in Threads \cup {None}
      /\ bulk \subseteq Threads
  BY ListFacts DEF InboxInv, Reading, Around
<1>k. /\ {"archive", "trash", "spam", "star", "snooze", "apply_label", "move_folder"}
            \cup I!Immediate \subseteq I!Kinds
      /\ TRUE \in BOOLEAN /\ FALSE \in BOOLEAN
  BY DEF I!Kinds, I!Immediate
<1>1. CASE I!ArchiveSelected
  <2>1. /\ I!Enqueues("archive", {selected}, TRUE, FALSE) /\ {selected} \in SUBSET Threads
        /\ selected' \in Threads \cup {None} /\ opened' \in {None, opened}
    BY <1>0, <1>1 DEF I!ArchiveSelected, I!Closes
  <2> QED BY <1>k, <2>1, EnqueueKeeps
<1>2. CASE I!ToggleReadSelected
  <2> DEFINE kind == IF list[selected].unread THEN "mark_read" ELSE "mark_unread"
  <2>1. /\ I!Enqueues(kind, {selected}, TRUE, FALSE) /\ {selected} \in SUBSET Threads
        /\ selected' \in Threads \cup {None} /\ opened' \in {None, opened}
    BY <1>0, <1>2 DEF I!ToggleReadSelected
  <2>2. kind \in I!Kinds
    BY DEF I!Kinds
  <2> HIDE DEF kind
  <2> QED BY <1>k, <2>1, <2>2, EnqueueKeeps
<1>3. CASE I!TrashSelected
  <2> DEFINE ts == (IF bulk = {} THEN {selected} ELSE bulk) \cap I!In(list)
  <2>1. /\ I!Enqueues("trash", ts, TRUE, TRUE) /\ ts \in SUBSET Threads
        /\ selected' \in Threads \cup {None} /\ opened' \in {None, opened}
    BY <1>0, <1>3 DEF I!TrashSelected
  <2> HIDE DEF ts
  <2> QED BY <1>k, <2>1, EnqueueKeeps
<1>4. ASSUME NEW t \in I!Visible, NEW kind \in {"archive", "trash", "spam"} \cup I!Immediate,
             I!ApplyThreadSwipeAction(t, kind)
      PROVE  InboxInv'
  <2>1. /\ I!Enqueues(kind, {t}, TRUE, FALSE) /\ {t} \in SUBSET Threads /\ kind \in I!Kinds
        /\ selected' \in Threads \cup {None} /\ opened' \in {None, opened}
    BY <1>0, <1>k, <1>4 DEF I!ApplyThreadSwipeAction, I!Closes
  <2> QED BY <1>k, <2>1, EnqueueKeeps
<1>5. ASSUME NEW t \in Threads, I!TrashThread(t) PROVE InboxInv'
  <2>1. /\ I!Enqueues("trash", {t}, TRUE, FALSE) /\ {t} \in SUBSET Threads
        /\ selected' \in Threads \cup {None} /\ opened' \in {None, opened}
    BY <1>0, <1>5 DEF I!TrashThread
  <2> QED BY <1>k, <2>1, EnqueueKeeps
<1>6. ASSUME NEW kind \in {"star", "spam", "snooze", "apply_label"}, I!MutateOpened(kind)
      PROVE  InboxInv'
  <2>1. /\ I!Enqueues(kind, {pane.of}, FALSE, FALSE) /\ {pane.of} \in SUBSET Threads
        /\ kind \in I!Kinds
        /\ selected' \in Threads \cup {None} /\ opened' \in {None, opened}
    BY <1>0, <1>k, <1>6 DEF I!MutateOpened
  <2> QED BY <1>k, <2>1, EnqueueKeeps
<1>7. ASSUME NEW kind \in {"archive", "apply_label", "move_folder"} \cup I!Immediate,
             I!BulkMutate(kind)
      PROVE  InboxInv'
  <2>1. /\ I!Enqueues(kind, bulk \cap I!In(list), FALSE, TRUE)
        /\ bulk \cap I!In(list) \in SUBSET Threads /\ kind \in I!Kinds
        /\ selected' \in Threads \cup {None} /\ opened' \in {None, opened}
    BY <1>0, <1>k, <1>7 DEF I!BulkMutate
  <2> QED BY <1>k, <2>1, EnqueueKeeps
<1> QED BY <1>1, <1>2, <1>3, <1>4, <1>5, <1>6, <1>7

LEMMA CardinalityIs == \A S : I!Cardinality(S) = Cardinality(S)
BY DEF I!Cardinality, Cardinality

\* The first call is answered: its rows are those of the next action.
LEMMA QueuedKeeps == ASSUME InboxInv, ~I!Urgent, I!Queued \/ I!QueueFails PROVE InboxInv'
<1> DEFINE c == Head(calls)
<1>0. /\ Around /\ Outbox /\ calls \in Seq(CallRecord) /\ rows \in Seq(UndoRow)
      /\ calls # <<>> /\ calls' = Tail(calls) /\ Len(rows) \in Nat /\ DOMAIN rows = 1..Len(rows)
  BY DEF InboxInv, Outbox, I!Queued, I!QueueFails
<1>1. calls' \in Seq(CallRecord) /\ c \in CallRecord
  BY <1>0, TailFacts
<1>2. UNCHANGED <<pane, loads, ran, hits, searches>> /\ opened' \in {None, opened}
  BY DEF I!Queued, I!QueueFails, I!reading, I!searching
<1>3. Around'
  <2>1. list' \in I!Lists
    BY <1>0, ChangedFacts DEF I!Queued, I!QueueFails, Around
  <2>2. /\ UNCHANGED <<engine, selected, query, label, folders, refreshing>>
        /\ bulk' \subseteq Threads
    BY <1>0 DEF I!Queued, I!QueueFails, I!searching, Around
  <2> QED BY <1>0, <1>2, <2>1, <2>2 DEF Around
<1>4. CASE UNCHANGED <<rows, undo, undoing, undone>>
  <2>1. Outbox'
    BY <1>0, <1>1, <1>4 DEF Outbox, Numbered, ToCancel
  <2> QED BY <1>2, <1>3, <2>1, OtherKeeps
<1>6. I!RowsOf(c) \in Nat \ {0}
  <2>1. c.targets \in SUBSET Threads /\ c.targets # {}
    BY <1>1 DEF CallRecord
  <2>2. IsFiniteSet(c.targets)
    BY <2>1, FS_Subset, WindowAssumption
  <2>3. Cardinality(c.targets) \in Nat /\ Cardinality(c.targets) # 0
    BY <2>1, <2>2, FS_CardinalityType, FS_EmptySet
  <2> DEFINE m == I!Cardinality(c.targets)
             w == IF c.kind = "snooze" THEN 1 ELSE 0
  <2>4. I!RowsOf(c) = m + w /\ w \in Nat
    BY DEF I!RowsOf
  <2> HIDE DEF m, w
  <2>5. m \in Nat /\ m # 0
    BY <2>3, CardinalityIs DEF m
  <2> QED BY <2>4, <2>5
<1>5. ASSUME ~(UNCHANGED <<rows, undo, undoing, undone>>) PROVE InboxInv'
  <2> DEFINE act == I!Cardinality(I!Actions) + 1
             row == [act |-> act, state |-> "held", snap |-> c.snap]
  <2>0. PICK n \in Nat \ {0} : /\ rows' = I!WithRows(c, n)
                               /\ undo' \in {undo, act} /\ UNCHANGED <<undoing, undone>>
    <3>1. CASE I!Queued
      <4>1. c.kind \notin I!Immediate
        BY <1>5, <3>1 DEF I!Queued
      <4>2. rows' = I!WithRows(c, I!RowsOf(c))
        BY <3>1, <4>1 DEF I!Queued
      <4>3. undo' = act
        BY <3>1, <4>1 DEF I!Queued
      <4>4. UNCHANGED <<undoing, undone>>
        BY <3>1 DEF I!Queued
      <4> QED BY <1>6, <4>2, <4>3, <4>4
    <3>2. CASE I!QueueFails
      <4>1. UNCHANGED <<undo, undoing, undone>>
        BY <3>2 DEF I!QueueFails
      <4>2. PICK n \in 1..(I!RowsOf(c) - 1) : rows' = I!WithRows(c, n)
        BY <1>5, <3>2, <4>1 DEF I!QueueFails
      <4>3. n \in Nat \ {0}
        BY <1>6, <4>2
      <4> QED BY <4>1, <4>2, <4>3
    <3> QED BY <3>1, <3>2
  <2> DEFINE more == [i \in 1..n |-> [act |-> act, state |-> "held", snap |-> c.snap]]
  <2>1. /\ rows' = rows \o more /\ undo' \in {undo, act} /\ UNCHANGED <<undoing, undone>>
        /\ n \in Nat \ {0}
    BY <2>0 DEF I!WithRows
  <2>2. PICK k \in Nat : Numbered(k)
    BY <1>0 DEF Outbox
  <2>3. act = k + 1
    <3>1. I!Actions = 1..k
      BY <1>0, <2>2 DEF I!Actions, Numbered
    <3>2. I!Cardinality(1..k) = k
      BY <2>2, FS_Interval, CardinalityIs
    <3> QED BY <3>1, <3>2
  <2>5. row \in UndoRow /\ row.act = k + 1
    BY <1>1, <2>2, <2>3 DEF UndoRow, CallRecord
  <2>6. more = [i \in 1..n |-> row]
    OBVIOUS
  <2> HIDE DEF row, more, act
  <2>7. more \in Seq(UndoRow) /\ Len(more) = n /\ n \in Nat \ {0} /\ \A i \in 1..n : more[i] = row
    BY <2>1, <2>5, <2>6
  <2>8. /\ rows' \in Seq(UndoRow) /\ Len(rows') = Len(rows) + n
        /\ \A i \in 1..Len(rows) : rows'[i] = rows[i]
        /\ \A i \in 1..Len(rows') : i \in 1..Len(rows) \/ rows'[i] = row
        /\ rows'[Len(rows) + 1] = row /\ Len(rows) + 1 \in 1..Len(rows')
    <3>1. /\ rows' \in Seq(UndoRow) /\ Len(rows') = Len(rows) + n
          /\ \A i \in 1..Len(rows) : rows'[i] = rows[i]
          /\ \A i \in 1..Len(rows') :
                i \in 1..Len(rows) \/ (i - Len(rows) \in 1..n /\ rows'[i] = more[i - Len(rows)])
          /\ Len(rows) + 1 \in 1..Len(rows') /\ rows'[Len(rows) + 1] = more[1]
      <4> DEFINE u == rows \o more
      <4>1. /\ u \in Seq(UndoRow) /\ Len(u) = Len(rows) + Len(more)
            /\ \A i \in 1..Len(rows) : u[i] = rows[i]
            /\ \A i \in 1..Len(u) :
                  i \in 1..Len(rows) \/ (i - Len(rows) \in 1..Len(more) /\ u[i] = more[i - Len(rows)])
            /\ Len(more) > 0 => Len(rows) + 1 \in 1..Len(u) /\ u[Len(rows) + 1] = more[1]
        <5>1. rows \in Seq(UndoRow) /\ more \in Seq(UndoRow)
          BY <1>0, <2>7
        <5> QED BY <5>1, ConcatFacts
      <4>2. rows' = u /\ Len(more) = n /\ n > 0
        BY <2>1, <2>7
      <4> HIDE DEF u
      <4> QED BY <4>1, <4>2
    <3> QED BY <2>7, <3>1
  <2>9. Numbered(k + 1)'
    <3>1. /\ k + 1 \in Nat /\ undone' \subseteq 1..(k + 1) /\ undo' \in 0..(k + 1)
          /\ \A i \in 1..Len(rows') : rows'[i].act \in 1..(k + 1)
      BY <2>1, <2>2, <2>3, <2>5, <2>8 DEF Numbered
    <3>2. \A a \in 1..(k + 1) : \E i \in 1..Len(rows') : rows'[i].act = a
      <4> SUFFICES ASSUME NEW a \in 1..(k + 1)
                   PROVE  \E i \in 1..Len(rows') : rows'[i].act = a
        OBVIOUS
      <4>1. CASE a = k + 1
        BY <2>5, <2>8, <4>1
      <4>2. CASE a # k + 1
        <5>1. a \in 1..k
          BY <2>2, <4>2
        <5>2. PICK i \in 1..Len(rows) : rows[i].act = a
          BY <2>2, <5>1 DEF Numbered
        <5>3. i \in 1..Len(rows') /\ rows'[i] = rows[i]
          BY <1>0, <2>7, <2>8
        <5> QED BY <5>2, <5>3
      <4> QED BY <4>1, <4>2
    <3> QED BY <3>1, <3>2 DEF Numbered
  <2>10. ToCancel'
    <3>1. k + 1 \notin undone
      BY <2>2 DEF Numbered
    <3> QED BY <1>0, <2>1, <2>5, <2>8, <3>1 DEF Outbox, ToCancel
  <2>11. undoing' \subseteq 1..Len(rows')
    BY <1>0, <2>1, <2>7, <2>8 DEF Outbox
  <2>12. \E j \in Nat : Numbered(j)'
    BY <2>2, <2>9
  <2>13. Outbox'
    BY <1>1, <2>8, <2>10, <2>11, <2>12 DEF Outbox, Numbered
  <2> QED BY <1>2, <1>3, <2>13, OtherKeeps
<1> QED BY <1>4, <1>5

\* An undo names every row of its action, and is over when each was cancelled or has left.
LEMMA UndoesKeep ==
    ASSUME InboxInv, ~I!Urgent,
           I!Undo \/ \E i \in DOMAIN rows : I!Flush(i) \/ I!CancelRow(i)
    PROVE  InboxInv'
<1>0. /\ Around /\ Outbox /\ rows \in Seq(UndoRow) /\ DOMAIN rows = 1..Len(rows)
      /\ Len(rows) \in Nat /\ \A i \in 1..Len(rows) : rows[i] \in UndoRow
  BY DEF InboxInv, Outbox
<1>1. PICK k \in Nat : Numbered(k)
  BY <1>0 DEF Outbox
<1>2. CASE I!Undo
  <2>1. /\ undo # 0 /\ undoing = {} /\ undo' = 0 /\ undone' = undone \cup {undo}
        /\ undoing' = {i \in 1..Len(rows) : rows[i].act = undo}
        /\ UNCHANGED <<list, engine, selected, opened, pane, loads, ran, query, hits, searches,
                       label, folders, bulk, refreshing, calls, rows>>
    BY <1>0, <1>2 DEF I!Undo, I!OfAction, I!reading, I!searching
  <2>2. Numbered(k)'
    <3>1. undo \in 1..k /\ undone \subseteq 1..k /\ 0 \in 0..k
      BY <1>1, <2>1 DEF Numbered
    <3>2. undo' \in 0..k /\ undone' \subseteq 1..k /\ rows' = rows
      BY <2>1, <3>1
    <3> QED BY <1>1, <3>2 DEF Numbered
  <2>3. ToCancel'
    BY <1>0, <2>1 DEF Outbox, ToCancel
  <2>4. \E j \in Nat : Numbered(j)'
    BY <1>1, <2>2
  <2>5. Outbox'
    BY <1>0, <2>1, <2>3, <2>4 DEF Outbox, Numbered
  <2>6. Around'
    BY <1>0, <2>1 DEF Around
  <2> QED BY <2>1, <2>5, <2>6, OtherKeeps
<1>3. ASSUME NEW i \in 1..Len(rows), NEW state \in {"sent", "cancelled"},
             rows' = [rows EXCEPT ![i].state = state] \/ (rows' = rows /\ rows[i].state # "held"),
             undoing' = undoing \/ undoing' = undoing \ {i},
             UNCHANGED <<calls, undo, undone>>
      PROVE  Outbox'
  <2> DEFINE r == [rows[i] EXCEPT !.state = state]
  <2>1. r \in UndoRow /\ r.act = rows[i].act /\ r.state # "held"
    BY <1>0 DEF UndoRow
  <2> HIDE DEF r
  <2>2. rows' = [rows EXCEPT ![i] = r] \/ (rows' = rows /\ rows[i].state # "held")
    BY <1>3 DEF r
  <2>3. /\ rows' \in Seq(UndoRow) /\ Len(rows') = Len(rows)
        /\ rows'[i].act = rows[i].act /\ rows'[i].state # "held"
        /\ \A j \in 1..Len(rows) : j # i => rows'[j] = rows[j]
    BY <1>0, <2>1, <2>2
  <2>4. \A j \in 1..Len(rows) : rows'[j].act = rows[j].act
    BY <2>3
  <2>5. Numbered(k)'
    BY <1>1, <1>3, <2>3, <2>4 DEF Numbered
  <2>6. ToCancel'
    BY <1>0, <1>3, <2>3 DEF Outbox, ToCancel
  <2>7. \E j \in Nat : Numbered(j)'
    BY <1>1, <2>5
  <2> QED BY <1>0, <1>3, <2>3, <2>6, <2>7 DEF Outbox, Numbered
<1>4. ASSUME NEW i \in 1..Len(rows), I!Flush(i) PROVE InboxInv'
  <2>1. /\ rows' = [rows EXCEPT ![i].state = "sent"]
        /\ UNCHANGED <<list, engine, selected, opened, pane, loads, ran, query, hits, searches,
                       label, folders, bulk, refreshing, calls, undo, undoing, undone>>
    BY <1>4 DEF I!Flush, I!reading, I!searching
  <2>2. Outbox'
    BY <1>3, <2>1
  <2>3. Around'
    BY <1>0, <2>1 DEF Around
  <2> QED BY <2>1, <2>2, <2>3, OtherKeeps
<1>5. ASSUME NEW i \in 1..Len(rows), I!CancelRow(i) PROVE InboxInv'
  <2>1. /\ rows' = [rows EXCEPT ![i].state = "cancelled"] \/ (rows' = rows /\ rows[i].state # "held")
        /\ undoing' = undoing \ {i}
        /\ UNCHANGED <<engine, selected, opened, pane, loads, ran, query, hits, searches,
                       label, folders, bulk, refreshing, calls, undo, undone>>
    BY <1>5 DEF I!CancelRow, I!reading, I!searching
  <2>2. Outbox'
    BY <1>3, <2>1
  <2>3. list' \in I!Lists
    <3>1. \A t \in DOMAIN rows[i].snap : rows[i].snap[t] \in I!Thread \cup {I!Absent}
      BY <1>0, SnapFacts DEF UndoRow, Listed
    <3> DEFINE back == [t \in Threads |-> IF t \in DOMAIN rows[i].snap /\ t \in I!In(list)
                                          THEN rows[i].snap[t] ELSE list[t]]
    <3>2. list' = list \/ list' = back
      BY <1>5 DEF I!CancelRow
    <3>3. back \in I!Lists
      BY <1>0, <3>1 DEF Around, I!Lists
    <3> QED BY <1>0, <3>2, <3>3 DEF Around
  <2>4. Around'
    BY <1>0, <2>1, <2>3 DEF Around
  <2> QED BY <2>1, <2>2, <2>4, OtherKeeps
<1> QED BY <1>0, <1>2, <1>4, <1>5

LEMMA InboxInit == ASSUME I!Init PROVE InboxInv
<1>1. MaxIds \in Nat \ {0} /\ None \notin Threads
  BY WindowAssumption
<1>2. [folder |-> "INBOX", unread |-> TRUE, ids |-> 1] \in I!Thread
  BY <1>1 DEF I!Thread, I!Folders
<1>3. Around
  BY <1>2 DEF I!Init, Around, I!Lists, I!Folders
<1>4. OpenedListed
  BY DEF I!Init, OpenedListed
<1>5. ran = [key |-> <<None, None>>, opened |-> None, query |-> None, label |-> "INBOX"]
  BY DEF I!Init, I!Deps, I!FetchKey
<1>6. RanFor
  <2>1. ran.key = <<None, None>> /\ ran.opened = None /\ ran.query = None
    BY <1>5
  <2>2. \E k, o, q, f : ran = [key |-> k, opened |-> o, query |-> q, label |-> f]
    BY <1>5
  <2>3. pane.of = None /\ hits = None /\ loads = {} /\ searches = {}
    BY DEF I!Init, I!Nothing
  <2> QED BY <1>1, <2>1, <2>2, <2>3 DEF RanFor
<1>7. Reading
  BY <1>6 DEF I!Init, I!Nothing, Reading
<1>8. Outbox
  <2>1. calls = <<>> /\ rows = <<>> /\ Len(rows) = 0 /\ undo = 0 /\ undoing = {} /\ undone = {}
    BY DEF I!Init
  <2>2. Numbered(0)
    BY <2>1 DEF Numbered
  <2> QED BY <2>1, <2>2 DEF Outbox, ToCancel
<1> QED BY <1>3, <1>4, <1>7, <1>8 DEF InboxInv

LEMMA InboxNext == ASSUME InboxInv, I!Next PROVE InboxInv'
<1>1. CASE I!Effects
  BY <1>1, EffectsKeep
<1>2. CASE ~I!Urgent /\ I!Others
  <2>1. ~I!Urgent
    BY <1>2
  <2> QED BY <1>2, <2>1, LoadsKeep, SearchesKeep, ListKeeps, RetryLoadKeeps, TriageKeeps,
             QueuedKeeps, UndoesKeep
          DEF I!Others
<1> QED BY <1>1, <1>2 DEF I!Next

\* When the effects have run, what they ran for is what is opened and asked now.
LEMMA InboxShows ==
    ASSUME InboxInv
    PROVE  I!TypeOK /\ I!ShownIsCurrent /\ I!PaneAnswers /\ I!UndoneIsOver
<1>0. /\ Around /\ Reading /\ RanFor /\ Outbox /\ rows \in Seq(UndoRow)
      /\ DOMAIN rows = 1..Len(rows) /\ \A i \in 1..Len(rows) : rows[i] \in UndoRow
  BY DEF InboxInv, Reading, Outbox
<1>1. I!TypeOK
  BY <1>0 DEF I!TypeOK, Around, Reading, Outbox, UndoRow
<1>2. ~I!Due => ran.key = I!FetchKey /\ ran.opened = opened /\ ran.query = query
  BY DEF I!Due, I!Deps
<1>3. I!ShownIsCurrent
  BY <1>0, <1>2 DEF I!ShownIsCurrent, RanFor
<1>4. I!PaneAnswers
  <2> SUFFICES ASSUME ~I!Due, opened \in I!In(list)
               PROVE  pane.of = opened \/ pane.error \/ (pane.loading /\ \E l \in loads : l.live)
    BY DEF I!PaneAnswers
  <2>1. opened \in Threads /\ opened # None /\ list[opened].ids \in 0..MaxIds
    BY <1>0, ListFacts, WindowAssumption
  <2>2. ran.key = <<opened, list[opened].ids>>
    BY <1>2, <2>1 DEF I!FetchKey
  <2> QED BY <1>0, <2>1, <2>2 DEF RanFor, Live
<1>5. I!UndoneIsOver
  BY <1>0 DEF I!UndoneIsOver, Outbox, ToCancel
<1> QED BY <1>1, <1>3, <1>4, <1>5

-----------------------------------------------------------------------------
(* The window.                                                                *)

WindowInv == InboxInv /\ ComposeInv

\* What one part does leaves the invariant of the other.
LEMMA InboxStill == ASSUME InboxInv, UNCHANGED inboxVars PROVE InboxInv'
<1>1. UNCHANGED <<list, engine, selected, opened, pane, loads, ran, query, hits, searches, label,
                  folders, bulk, refreshing, calls, rows, undo, undoing, undone>>
  BY DEF inboxVars
<1>2. Around' /\ OpenedListed'
  BY <1>1 DEF InboxInv, Around, OpenedListed, I!In
<1>3. Reading'
  BY <1>1 DEF InboxInv, Reading, RanFor, Live
<1>4. Outbox'
  BY <1>1, OutboxStill DEF InboxInv
<1> QED BY <1>2, <1>3, <1>4 DEF InboxInv

LEMMA ComposeStill == ASSUME ComposeInv, UNCHANGED composeVars PROVE ComposeInv'
<1>1. UNCHANGED <<composer, initial, drafts, nextId, saved, onSend, sends, undoSend, late, twice,
                  split>>
  BY DEF composeVars
<1>2. C!TypeOK' /\ ComposerShape' /\ Room' /\ C!SettledIsSaved'
  BY <1>1 DEF ComposeInv, C!TypeOK, ComposerShape, Room, C!SettledIsSaved
<1>3. Holders'
  BY <1>1 DEF ComposeInv, Holders, Fresh, Turn, OneRow, OneCall, RowOrCall, ComposerHas, FloatHas,
              Submitted, Excused, LiveRow
<1> QED BY <1>2, <1>3 DEF ComposeInv

LEMMA WindowInvariant == Spec => []WindowInv
<1>1. Init => WindowInv
  BY InboxInit, ComposeInit DEF Init, WindowInv
<1>2. WindowInv /\ [Next]_<<part, inboxVars, composeVars>> => WindowInv'
  <2> SUFFICES ASSUME WindowInv, [Next]_<<part, inboxVars, composeVars>> PROVE WindowInv'
    OBVIOUS
  <2>1. CASE I!Next /\ UNCHANGED composeVars
    BY <2>1, InboxNext, ComposeStill DEF WindowInv
  <2>2. CASE C!Next /\ UNCHANGED inboxVars
    BY <2>2, ComposeNext, InboxStill DEF WindowInv
  <2>3. CASE UNCHANGED <<part, inboxVars, composeVars>>
    BY <2>3, InboxStill, ComposeStill DEF WindowInv
  <2> QED BY <2>1, <2>2, <2>3 DEF Next
<1> QED BY <1>1, <1>2, PTL DEF Spec

\* Every part of the window's state, of App.tsx and ComposeModal.tsx, has its type.
THEOREM WindowTypes == Spec => []TypeOK
<1>1. WindowInv => TypeOK
  BY InboxShows DEF WindowInv, ComposeInv, TypeOK
<1> QED BY <1>1, WindowInvariant, PTL

\* Once the effects of App.tsx have run, the reading pane shows the opened thread or none,
\* and the hits are those of the search in the field, however late the loads and searches of
\* others answer; and an opened thread that is listed is shown, was reported as not loadable,
\* or a load that is not overtaken is on its way.
THEOREM PaneIsCurrent == Spec => []ReadingPane
<1>1. WindowInv => ReadingPane
  BY InboxShows DEF WindowInv, ReadingPane
<1> QED BY <1>1, WindowInvariant, PTL

\* When performUndo has been through the rows of an action, none of them still waits to
\* leave: those of its other threads and the one that wakes a snoozed thread included.
THEOREM UndoIsComplete == Spec => []UndoneIsOver
<1>1. WindowInv => UndoneIsOver
  BY InboxShows DEF WindowInv, UndoneIsOver
<1> QED BY <1>1, WindowInvariant, PTL

\* What was typed in the open composer is saved, or the timeout of the autosave effect that
\* will save it runs, or the composer says that the save failed.
THEOREM EditsAreSaved == Spec => []SettledIsSaved
<1>1. WindowInv => SettledIsSaved
  BY DEF WindowInv, ComposeInv, SettledIsSaved
<1> QED BY <1>1, WindowInvariant, PTL

\* Two copies of a message leave, under whatever draft ids, only when the user took back one
\* that had left, pressed Send twice on a floating window before its call returned, or
\* minimized or expanded the message while a call for it was awaited.
THEOREM CopiesAreExplained == Spec => []SecondCopyExplained
<1>1. WindowInv => SecondCopyExplained
  BY CopiesExplained DEF WindowInv, SecondCopyExplained
<1> QED BY <1>1, WindowInvariant, PTL
=============================================================================
