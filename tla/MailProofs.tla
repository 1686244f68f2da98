----------------------------- MODULE MailProofs -----------------------------
(* The two mail protocols of MCMail, for any number of messages, folders,      *)
(* changes, failures and restarts.                                             *)
(*                                                                             *)
(* First a Microsoft account (GraphSync).                                      *)
(* LinksLead speaks of the stored cursor; a pull replaces it by links that     *)
(* were given one after the other while the mailbox changed.  The invariant    *)
(* therefore follows each message through a running pull: Outcome is what the  *)
(* message would become if nothing changed until the pull is applied and one   *)
(* more pull follows, by the links of the folders already read and, for the    *)
(* others, by what is still to be read.  It is what the mailbox wants, but for *)
(* the messages that will be counted as crossed or as ghosts.                  *)
(*                                                                             *)
(* Then a Gmail account (MailSync).  Types hold always; the rest with one call *)
(* at a time and without a second hydrateLocal, as the runs show.  StoreInv    *)
(* says of a call what it knows at each of its steps: what it has loaded is as *)
(* new as the cursor it will leave, everything that changed since the cursor   *)
(* it started from is loaded, to be loaded or deleted, and once it is in the   *)
(* Maps, they are the mailbox of the new cursor.                               *)
EXTENDS MCMail, SequenceTheorems, TLAPS

-----------------------------------------------------------------------------
(* One message and its folders.                                               *)

\* A change that folder f reports of m came after link l was given.
Reported(m, f, l) ==
    \E i \in 1..Len(changes) : l < i /\ changes[i].msg = m /\ f \in changes[i].in

\* What a delta request of folder f with link l says of m.
Upsert(m, f, l) == box[m].folder = f /\ (l = Graph!Sentinel \/ Reported(m, f, l))
Removal(m, f, l) == box[m].folder # f /\ l # Graph!Sentinel /\ Reported(m, f, l)

Wanted(m) == IF box[m].folder = 0 THEN Graph!None ELSE box[m]

\* The folders a running pull has read, those ahead, and the link it asks them with.
Read == 1..(pull.at - 1)
Ahead == pull.at..MaxFolder
Link(f) == IF pull.pc = "delta" THEN cursor[f] ELSE Graph!Sentinel

HasUpsert(m) == \E f \in Read : Upsert(m, f, pull.next[f])
HasRemoval(m) == \E f \in Read : Removal(m, f, pull.next[f])
WillUpsert(m) == \E f \in Ahead : Upsert(m, f, Link(f))
WillRemove(m) == \E f \in Ahead : Removal(m, f, Link(f))
IsFound(m) == pull.found[m] # Graph!None

\* What the running pull would store of m if nothing else changed, and what the one after
\* it would make of that.
Stores(m) ==
    IF WillUpsert(m) THEN box[m]
    ELSE IF IsFound(m) THEN pull.found[m]
    ELSE IF m \in pull.gone \/ WillRemove(m) \/ (pull.pc # "delta") THEN Graph!None
    ELSE local[m]
Outcome(m) ==
    IF HasUpsert(m) THEN box[m] ELSE IF HasRemoval(m) THEN Graph!None ELSE Stores(m)

\* The messages the running pull will leave among the crossed or the ghosts.
Crosses(m) ==
    \/ m \in pull.crossed
    \/ m \in pull.left /\ WillUpsert(m)
    \/ pull.pc = "delta" /\ m \in crossed /\ ~IsFound(m) /\ ~WillUpsert(m)
Haunts(m) ==
    \/ /\ pull.pc = "delta" /\ m \in ghosts /\ ~IsFound(m) /\ ~WillUpsert(m)
       /\ m \notin pull.gone /\ ~WillRemove(m)
    \/ pull.pc = "list" /\ IsFound(m) /\ box[m].folder = 0

-----------------------------------------------------------------------------
(* The inductive invariant.                                                   *)

\* A removal is reported by the folder before the new one the message is in is read.
LeftSeen ==
    pull.pc \in {"delta", "again"} =>
        \A m \in Graph!Mails : \A f \in Read :
            Reported(m, f, pull.next[f]) /\ box[m].folder # f => m \in pull.left

\* A message that was found is where it was found, or that folder reports its leaving.
FoundSeen ==
    pull.pc \in {"delta", "again"} =>
        \A m \in Graph!Mails : IsFound(m) =>
            \E f \in Read : box[m].folder = f \/ Reported(m, f, pull.next[f])

\* A ghost that comes back is reported by its folder.
GhostSeen ==
    /\ cursor # Graph!NoCursor =>
        \A m \in ghosts : box[m].folder # 0 =>
            Upsert(m, box[m].folder, cursor[box[m].folder])
    /\ pull.pc = "delta" =>
        \A m \in ghosts : box[m].folder \in Read =>
            IsFound(m) \/ Upsert(m, box[m].folder, pull.next[box[m].folder])

\* Links were given in the past; the running pull has one for each folder it has read.
Shape ==
    /\ cursor = Graph!NoCursor => ghosts = {} /\ crossed = {}
    /\ cursor # Graph!NoCursor =>
        /\ cursor \in Graph!Links
        /\ \A f \in Graph!Folders : (cursor[f] = Graph!Sentinel) \/ (cursor[f] <= Len(changes))
    /\ pull.pc # "idle" => pull.next \in [Read -> 0..Graph!Sentinel]
    /\ pull.pc = "list" => cursor = Graph!NoCursor /\ \A f \in Read : pull.next[f] = Graph!Sentinel
    /\ pull.pc \in {"delta", "again"} =>
        (cursor # Graph!NoCursor) /\ \A f \in Read : pull.next[f] <= Len(changes)
    /\ \A m \in Graph!Mails : box[m].folder = 0 => box[m] = Graph!None

PullLeads ==
    pull.pc # "idle" =>
        \A m \in Graph!Mails : Crosses(m) \/ Haunts(m) \/ Outcome(m) = Wanted(m)

LinkInv ==
    /\ Graph!TypeOK /\ Shape /\ LeftSeen /\ FoundSeen /\ GhostSeen
    /\ PullLeads /\ Graph!LinksLead

-----------------------------------------------------------------------------
(* Lemmas.                                                                    *)

LEMMA GraphFacts ==
    ASSUME Graph!TypeOK
    PROVE  /\ changes \in Seq([msg : Graph!Mails, in : SUBSET Graph!Folders])
           /\ Len(changes) \in Nat /\ Len(changes) <= MaxChanges
           /\ \A m \in Graph!Mails :
                 /\ box[m] \in Graph!Message /\ local[m] \in Graph!Message
                 /\ box[m].folder \in 0..MaxFolder /\ box[m].read \in BOOLEAN
           /\ pull.at \in 1..(MaxFolder + 1) /\ pull.pc \in {"idle", "list", "delta", "again"}
           /\ pull.found \in Graph!Found /\ pull.gone \subseteq Graph!Mails
           /\ pull.left \subseteq Graph!Mails /\ pull.crossed \subseteq Graph!Mails
           /\ ghosts \subseteq Graph!Mails /\ crossed \subseteq Graph!Mails
<1>1. /\ box \in [Graph!Mails -> Graph!Message] /\ local \in [Graph!Mails -> Graph!Message]
  BY DEF Graph!TypeOK, Graph!Found
<1>2. \A x \in Graph!Message : x.folder \in 0..MaxFolder /\ x.read \in BOOLEAN
  BY MailAssumption DEF Graph!Message, Graph!Folders, Graph!Away
<1> QED BY <1>1, <1>2, MailAssumption DEF Graph!TypeOK

\* The deltas of the module are those of the messages.
LEMMA Deltas ==
    ASSUME Graph!TypeOK, NEW f \in Graph!Folders, NEW l \in 0..Graph!Sentinel,
           NEW m \in Graph!Mails
    PROVE  /\ m \in Graph!Upserts(f, l) <=> Upsert(m, f, l)
           /\ m \in Graph!Removals(f, l) <=> Removal(m, f, l)
           /\ Reported(m, f, l) => l < Len(changes)
           /\ Graph!Sentinel = MaxChanges + 1 /\ Len(changes) < Graph!Sentinel
<1>1. Len(changes) \in Nat /\ Len(changes) <= MaxChanges
  BY GraphFacts
<1>2. Graph!Sentinel = MaxChanges + 1 /\ l \in Nat
  BY MailAssumption DEF Graph!Sentinel
<1>3. m \in Graph!Since(f, l) <=> Reported(m, f, l)
  <2>1. \A i \in Nat : i \in (l + 1)..Len(changes) <=> i \in 1..Len(changes) /\ l < i
    BY <1>1, <1>2
  <2> QED BY <2>1 DEF Graph!Since, Reported
<1>4. m \in Graph!In(f) <=> box[m].folder = f
  BY DEF Graph!In
<1>5. Reported(m, f, l) => l < Len(changes)
  BY <1>1, <1>2 DEF Reported
<1> QED BY <1>1, <1>2, <1>3, <1>4, <1>5, MailAssumption DEF Graph!Upserts, Graph!Removals, Upsert, Removal

\* LinksLead, message by message.
LeadsHere ==
    Graph!TypeOK /\ Shape /\ cursor # Graph!NoCursor =>
        \A m \in Graph!Mails :
            (Graph!Followed(m) = IF box[m].folder = 0 THEN Graph!None ELSE box[m])
            <=> (IF \E f \in Graph!Folders : Upsert(m, f, cursor[f]) THEN box[m]
                 ELSE IF \E f \in Graph!Folders : Removal(m, f, cursor[f]) THEN Graph!None
                 ELSE local[m]) = Wanted(m)

LEMMA LeadsMeans == LeadsHere
<1> SUFFICES ASSUME Graph!TypeOK, Shape, cursor # Graph!NoCursor, NEW m \in Graph!Mails
             PROVE  (Graph!Followed(m) = IF box[m].folder = 0 THEN Graph!None ELSE box[m])
                    <=> (IF \E f \in Graph!Folders : Upsert(m, f, cursor[f]) THEN box[m]
                         ELSE IF \E f \in Graph!Folders : Removal(m, f, cursor[f])
                              THEN Graph!None
                         ELSE local[m]) = Wanted(m)
  BY Zenon DEF LeadsHere
<1>1. \A f \in Graph!Folders : cursor[f] \in 0..Graph!Sentinel
  BY DEF Shape, Graph!Links
<1>2. \A f \in Graph!Folders :
        /\ m \in Graph!Upserts(f, cursor[f]) <=> Upsert(m, f, cursor[f])
        /\ m \in Graph!Removals(f, cursor[f]) <=> Removal(m, f, cursor[f])
  BY <1>1, Deltas
<1> QED BY <1>2, Zenon DEF Graph!Followed, Wanted

LEMMA LeadsMeansNext == LeadsHere'
BY LeadsMeans, PTL

Change == [msg : Graph!Mails, in : SUBSET Graph!Folders]
Pull == [pc : {"idle", "list", "delta", "again"}, at : 1..(MaxFolder + 1),
         next : UNION {[1..n -> 0..Graph!Sentinel] : n \in 0..MaxFolder},
         found : Graph!Found, gone : SUBSET Graph!Mails, left : SUBSET Graph!Mails,
         crossed : SUBSET Graph!Mails]

\* One more change.
LEMMA OneMoreChange ==
    ASSUME Graph!TypeOK, NEW e \in Change, changes' = Append(changes, e)
    PROVE  /\ changes' \in Seq(Change) /\ Len(changes)' = Len(changes) + 1
           /\ \A m, f : \A l \in Nat :
                Reported(m, f, l)' <=>
                    Reported(m, f, l) \/ (l <= Len(changes) /\ e.msg = m /\ f \in e.in)
<1>1. changes \in Seq(Change) /\ Len(changes) \in Nat
  BY GraphFacts DEF Change
<1>2. /\ changes' \in Seq(Change) /\ Len(changes') = Len(changes) + 1
      /\ \A i \in 1..Len(changes) : changes'[i] = changes[i]
      /\ changes'[Len(changes) + 1] = e
      /\ \A i \in 1..(Len(changes) + 1) : i \in 1..Len(changes) \/ i = Len(changes) + 1
  BY <1>1
<1>3. ASSUME NEW m, NEW f, NEW l \in Nat
      PROVE  Reported(m, f, l)' <=>
                Reported(m, f, l) \/ (l <= Len(changes) /\ e.msg = m /\ f \in e.in)
  <2>1. ASSUME Reported(m, f, l) PROVE Reported(m, f, l)'
    BY <1>1, <1>2, <2>1 DEF Reported
  <2>2. ASSUME l <= Len(changes), e.msg = m, f \in e.in PROVE Reported(m, f, l)'
    <3>1. Len(changes) + 1 \in 1..Len(changes') /\ l < Len(changes) + 1
      BY <1>1, <1>2, <2>2
    <3> QED BY <1>2, <2>2, <3>1 DEF Reported
  <2>3. ASSUME Reported(m, f, l)', ~Reported(m, f, l)
        PROVE  l <= Len(changes) /\ e.msg = m /\ f \in e.in
    <3>1. PICK i \in 1..Len(changes') : l < i /\ changes'[i].msg = m /\ f \in changes'[i].in
      BY <2>3 DEF Reported
    <3>2. i = Len(changes) + 1
      BY <1>1, <1>2, <2>3, <3>1 DEF Reported
    <3> QED BY <1>1, <1>2, <3>1, <3>2
  <2> QED BY <2>1, <2>2, <2>3
<1> QED BY <1>2, <1>3

\* What a step does to the running pull, field by field.
LEMMA ReadsFacts ==
    ASSUME LinkInv, pull.pc # "idle", pull.at \in Graph!Folders, NEW U \in SUBSET Graph!Mails,
           NEW R \in SUBSET Graph!Mails, NEW l \in 0..Graph!Sentinel, Graph!Reads(U, R, l),
           \A m \in U : box[m].folder # 0
    PROVE  /\ pull' \in Pull
           /\ pull'.pc = pull.pc /\ pull'.at = pull.at + 1 /\ pull'.left = pull.left
           /\ pull'.next \in [1..pull.at -> 0..Graph!Sentinel]
           /\ \A f \in Read : pull'.next[f] = pull.next[f]
           /\ pull'.next[pull.at] = l
           /\ \A m \in Graph!Mails : pull'.found[m] = IF m \in U THEN box[m] ELSE pull.found[m]
           /\ pull'.gone = (pull.gone \ U) \cup R
           /\ pull'.crossed = pull.crossed \cup (pull.left \cap U)
           /\ Read' = Read \cup {pull.at} /\ Ahead' = Ahead \ {pull.at} /\ pull.at \in Ahead
<1> DEFINE n == Append(pull.next, l)
           a == pull.at + 1
           fo == [m \in Graph!Mails |-> IF m \in U THEN box[m] ELSE pull.found[m]]
           g == (pull.gone \ U) \cup R
           c == pull.crossed \cup (pull.left \cap U)
<1>1. pull \in Pull /\ pull.at \in 1..MaxFolder /\ MaxFolder \in Nat
  BY MailAssumption DEF LinkInv, Graph!TypeOK, Pull, Graph!Folders
<1>2. pull.next \in [1..(pull.at - 1) -> 0..Graph!Sentinel]
  BY DEF LinkInv, Shape, Read
<1>3. /\ n \in [1..pull.at -> 0..Graph!Sentinel] /\ n[pull.at] = l
      /\ \A f \in 1..(pull.at - 1) : n[f] = pull.next[f]
  <2> DEFINE S == 0..Graph!Sentinel
  <2> HIDE DEF S
  <2>0. pull.next \in [1..(pull.at - 1) -> S] /\ pull.at - 1 \in Nat /\ l \in S
    BY <1>1, <1>2 DEF S
  <2>1. pull.next \in Seq(S) /\ Len(pull.next) = pull.at - 1
    BY <2>0, SeqDef, LenProperties, SMT
  <2>2. /\ n \in Seq(S) /\ Len(n) = pull.at /\ n[pull.at] = l
        /\ \A f \in 1..(pull.at - 1) : n[f] = pull.next[f]
    BY <1>1, <2>0, <2>1, AppendProperties
  <2>3. n \in [1..pull.at -> S]
    <3> HIDE DEF n
    <3> QED BY <2>2, LenProperties
  <2> QED BY <2>2, <2>3 DEF S
<1>4. fo \in Graph!Found
  BY GraphFacts DEF LinkInv, Graph!Found
<1>5. pull' = [pull EXCEPT !.at = a, !.next = n, !.found = fo, !.gone = g, !.crossed = c]
  BY <1>1 DEF Graph!Reads, Pull
<1>6. a \in 1..(MaxFolder + 1)
  BY <1>1
<1>7. g \in SUBSET Graph!Mails /\ c \in SUBSET Graph!Mails
  BY <1>1 DEF Pull
<1> HIDE DEF n, a, fo, g, c
<1>8. /\ pull'.pc = pull.pc /\ pull'.left = pull.left /\ pull'.at = a /\ pull'.next = n
      /\ pull'.found = fo /\ pull'.gone = g /\ pull'.crossed = c
  BY <1>1, <1>5 DEF Pull
<1>9. pull' \in Pull
  <2>1. n \in UNION {[1..k -> 0..Graph!Sentinel] : k \in 0..MaxFolder}
    BY <1>1, <1>3
  <2> QED BY <1>1, <1>4, <1>5, <1>6, <1>7, <2>1 DEF Pull
<1>10. Read' = Read \cup {pull.at} /\ Ahead' = Ahead \ {pull.at} /\ pull.at \in Ahead
  <2>1. pull'.at = pull.at + 1
    BY <1>8 DEF a
  <2> QED BY <1>1, <2>1 DEF Read, Ahead
<1> QED BY <1>3, <1>8, <1>9, <1>10 DEF n, a, fo, g, c, Read

LEMMA IdleFacts ==
    /\ Graph!Idle \in Pull
    /\ \A p \in {"list", "delta", "again"} :
          /\ [Graph!Idle EXCEPT !.pc = p] \in Pull
          /\ [Graph!Idle EXCEPT !.pc = p].pc = p /\ [Graph!Idle EXCEPT !.pc = p].at = 1
          /\ [Graph!Idle EXCEPT !.pc = p].next = Graph!NoCursor
          /\ \A m \in Graph!Mails : [Graph!Idle EXCEPT !.pc = p].found[m] = Graph!None
          /\ [Graph!Idle EXCEPT !.pc = p].gone = {} /\ [Graph!Idle EXCEPT !.pc = p].left = {}
          /\ [Graph!Idle EXCEPT !.pc = p].crossed = {}
    /\ Graph!Idle.pc = "idle"
    /\ Graph!NoCursor \in [1..0 -> 0..Graph!Sentinel]
<1>1. Graph!Nothing \in Graph!Found
  BY MailAssumption DEF Graph!Nothing, Graph!Found, Graph!None, Graph!Message, Graph!Away
<1>2. Graph!NoCursor \in [1..0 -> 0..Graph!Sentinel]
  BY DEF Graph!NoCursor
<1>3. Graph!NoCursor \in UNION {[1..k -> 0..Graph!Sentinel] : k \in 0..MaxFolder}
  BY <1>2, MailAssumption
<1>4. 1 \in 1..(MaxFolder + 1)
  BY MailAssumption
<1>5. Graph!Idle = [pc |-> "idle", at |-> 1, next |-> Graph!NoCursor, found |-> Graph!Nothing,
                    gone |-> {}, left |-> {}, crossed |-> {}]
  BY DEF Graph!Idle
<1>6. \A m \in Graph!Mails : Graph!Nothing[m] = Graph!None
  BY DEF Graph!Nothing
<1> QED BY <1>1, <1>2, <1>3, <1>4, <1>5, <1>6 DEF Pull
-----------------------------------------------------------------------------
(* The steps.                                                                 *)

\* The stored links lead where they did when nothing they depend on changes.
LEMMA StoredAsBefore ==
    ASSUME LinkInv, UNCHANGED <<box, changes, cursor, local, crossed, ghosts>>
    PROVE  /\ Graph!LinksLead'
           /\ \A m, f, l : /\ Reported(m, f, l)' <=> Reported(m, f, l)
                           /\ Upsert(m, f, l)' <=> Upsert(m, f, l)
                           /\ Removal(m, f, l)' <=> Removal(m, f, l)
           /\ \A m : Wanted(m)' = Wanted(m)
<1>1. Graph!LinksLead'
  BY DEF LinkInv, Graph!LinksLead, Graph!Followed, Graph!Upserts, Graph!Removals, Graph!In,
         Graph!Since
<1> QED BY <1>1 DEF Reported, Upsert, Removal, Wanted

\* A request for one more folder of an enumeration or of a delta: the message is found in
\* the folder it is in, and the link of the folder reports nothing yet.
LEMMA FolderDeltaKeeps ==
    ASSUME LinkInv, Graph!FolderDelta
    PROVE  LinkInv'
<1> DEFINE at == pull.at
           U == Graph!Upserts(at, Link(at))
           R == Graph!Removals(at, Link(at))
           n == Len(changes)
<1>1. /\ pull.pc \in {"delta", "again"} /\ at \in Graph!Folders
      /\ UNCHANGED <<box, changes, cursor, local, crossed, ghosts, errors>>
  BY DEF Graph!FolderDelta
<1>2. Link(at) \in 0..Graph!Sentinel
  BY <1>1, MailAssumption DEF LinkInv, Shape, Link, Graph!Links, Graph!Sentinel
<1>3. /\ \A m \in Graph!Mails : /\ m \in U <=> Upsert(m, at, Link(at))
                                /\ m \in R <=> Removal(m, at, Link(at))
      /\ n < Graph!Sentinel /\ n \in 0..Graph!Sentinel
  <2>1. n \in Nat
    BY GraphFacts DEF LinkInv
  <2>2. ASSUME NEW m \in Graph!Mails
        PROVE  /\ m \in U <=> Upsert(m, at, Link(at))
               /\ m \in R <=> Removal(m, at, Link(at))
    BY <1>1, <1>2, Deltas DEF LinkInv
  <2>3. n < Graph!Sentinel /\ Graph!Sentinel = MaxChanges + 1
    BY <2>1, GraphFacts, MailAssumption DEF LinkInv, Graph!Sentinel
  <2> QED BY <2>1, <2>2, <2>3, MailAssumption
<1>4. U \in SUBSET Graph!Mails /\ R \in SUBSET Graph!Mails
  BY DEF Graph!Upserts, Graph!Removals, Graph!In, Graph!Since
<1>5. \A m \in U : box[m].folder = at /\ at # 0
  BY <1>1, <1>3, <1>4 DEF Upsert, Graph!Folders
<1>6. Graph!Reads(U, R, n)
  BY DEF Graph!FolderDelta, Link
<1> HIDE DEF U, R, n, at
<1>7. /\ pull' \in Pull
      /\ pull'.pc = pull.pc /\ pull'.at = at + 1 /\ pull'.left = pull.left
      /\ pull'.next \in [1..at -> 0..Graph!Sentinel]
      /\ \A f \in Read : pull'.next[f] = pull.next[f]
      /\ pull'.next[at] = n
      /\ \A m \in Graph!Mails : pull'.found[m] = IF m \in U THEN box[m] ELSE pull.found[m]
      /\ pull'.gone = (pull.gone \ U) \cup R
      /\ pull'.crossed = pull.crossed \cup (pull.left \cap U)
      /\ Read' = Read \cup {at} /\ Ahead' = Ahead \ {at} /\ at \in Ahead
  BY <1>1, <1>3, <1>4, <1>5, <1>6, ReadsFacts DEF at
<1>8. /\ Graph!LinksLead'
      /\ \A m, f, l : /\ Reported(m, f, l)' <=> Reported(m, f, l)
                      /\ Upsert(m, f, l)' <=> Upsert(m, f, l)
                      /\ Removal(m, f, l)' <=> Removal(m, f, l)
      /\ \A m : Wanted(m)' = Wanted(m)
  BY <1>1, StoredAsBefore
<1>9. Graph!TypeOK'
  BY <1>1, <1>7 DEF LinkInv, Graph!TypeOK, Pull
\* The new link reports nothing.
<1>10. \A m \in Graph!Mails : ~Reported(m, at, n) /\ ~Upsert(m, at, n) /\ ~Removal(m, at, n)
  <2>1. n \in Nat /\ n < Graph!Sentinel
    BY <1>3, GraphFacts DEF LinkInv, n
  <2>2. \A m \in Graph!Mails : ~Reported(m, at, n)
    BY <2>1 DEF Reported, n
  <2> QED BY <2>1, <2>2, MailAssumption DEF Upsert, Removal, Graph!Sentinel
<1>11. ASSUME NEW m \in Graph!Mails
       PROVE  /\ HasUpsert(m)' <=> HasUpsert(m)
              /\ HasRemoval(m)' <=> HasRemoval(m)
  <2>1. HasUpsert(m)' <=> \E f \in Read' : Upsert(m, f, pull'.next[f])
    BY <1>1 DEF HasUpsert, Upsert, Reported
  <2>2. HasRemoval(m)' <=> \E f \in Read' : Removal(m, f, pull'.next[f])
    BY <1>1 DEF HasRemoval, Removal, Reported
  <2> QED BY <2>1, <2>2, <1>7, <1>10 DEF HasUpsert, HasRemoval
<1>12. ASSUME NEW m \in Graph!Mails
       PROVE  /\ WillUpsert(m) <=> WillUpsert(m)' \/ m \in U
              /\ WillRemove(m) <=> WillRemove(m)' \/ m \in R
              /\ m \in U => ~WillUpsert(m)'
  <2>1. WillUpsert(m)' <=> \E f \in Ahead' : Upsert(m, f, Link(f))
    BY <1>1, <1>7 DEF WillUpsert, Upsert, Reported, Link
  <2>2. WillRemove(m)' <=> \E f \in Ahead' : Removal(m, f, Link(f))
    BY <1>1, <1>7 DEF WillRemove, Removal, Reported, Link
  <2>3. m \in U => ~\E f \in Ahead' : Upsert(m, f, Link(f))
    BY <1>5, <1>7 DEF Upsert
  <2> QED BY <2>1, <2>2, <2>3, <1>3, <1>7 DEF WillUpsert, WillRemove
<1>13. ASSUME NEW m \in Graph!Mails
       PROVE  /\ IsFound(m)' <=> IsFound(m) \/ m \in U
              /\ m \in pull'.gone <=> (m \in pull.gone /\ m \notin U) \/ m \in R
              /\ m \in pull'.crossed <=> m \in pull.crossed \/ (m \in pull.left /\ m \in U)
              /\ m \in U => box[m] = Wanted(m) /\ box[m] # Graph!None
  <2>1. m \in U => box[m] = Wanted(m) /\ box[m] # Graph!None
    BY <1>5 DEF Wanted, Graph!None, Graph!Away
  <2> QED BY <2>1, <1>7 DEF IsFound
<1>14. PullLeads'
  <2> SUFFICES ASSUME NEW m \in Graph!Mails
               PROVE  (Crosses(m) \/ Haunts(m) \/ Outcome(m) = Wanted(m))'
    BY DEF PullLeads
  <2>1. Crosses(m) \/ Haunts(m) \/ Outcome(m) = Wanted(m)
    BY <1>1 DEF LinkInv, PullLeads
  <2>2. Outcome(m)' = IF HasUpsert(m) THEN box[m] ELSE IF HasRemoval(m) THEN Graph!None
                      ELSE Stores(m)'
    BY <1>1, <1>11 DEF Outcome
  <2>3. Stores(m)' = IF WillUpsert(m)' THEN box[m] ELSE IF IsFound(m)' THEN pull'.found[m]
                     ELSE IF m \in pull'.gone \/ WillRemove(m)' \/ (pull.pc # "delta")
                          THEN Graph!None
                     ELSE local[m]
    BY <1>1, <1>7 DEF Stores
  <2>4. CASE m \in U
    <3>1. Stores(m)' = box[m] /\ Stores(m) = box[m]
      BY <2>3, <2>4, <1>7, <1>12, <1>13 DEF Stores
    <3>2. Outcome(m)' = Outcome(m)
      BY <2>2, <3>1 DEF Outcome
    <3>3. Crosses(m) => Crosses(m)' \/ Outcome(m) = Wanted(m)
      BY <2>4, <1>1, <1>7, <1>12, <1>13 DEF Crosses
    <3>4. ~Haunts(m)
      BY <2>4, <1>1, <1>12, <1>13 DEF Haunts
    <3> QED BY <2>1, <3>2, <3>3, <3>4, <1>8
  <2>5. CASE m \notin U
    <3>1. Stores(m)' = Stores(m)
      BY <2>3, <2>5, <1>7, <1>12, <1>13 DEF Stores
    <3>2. Outcome(m)' = Outcome(m)
      BY <2>2, <3>1 DEF Outcome
    <3>3. Crosses(m) => Crosses(m)'
      BY <2>5, <1>1, <1>7, <1>12, <1>13 DEF Crosses
    <3>4. Haunts(m) => Haunts(m)'
      BY <2>5, <1>1, <1>7, <1>12, <1>13 DEF Haunts
    <3> QED BY <2>1, <3>2, <3>3, <3>4, <1>8
  <2> QED BY <2>4, <2>5
<1>15. Shape'
  <2>1. cursor # Graph!NoCursor /\ n \in Nat /\ Len(changes)' = n
    BY <1>1, GraphFacts DEF LinkInv, Shape, n
  <2>2. pull'.next \in [Read' -> 0..Graph!Sentinel]
    <3>1. Read' = 1..at
      BY <1>1, <1>7, MailAssumption DEF Read, Graph!Folders
    <3> QED BY <3>1, <1>7
  <2>3. \A f \in Read' : pull'.next[f] <= Len(changes)
    BY <1>1, <1>7, <2>1 DEF LinkInv, Shape, n
  <2> QED BY <1>1, <1>7, <2>1, <2>2, <2>3, MailAssumption DEF LinkInv, Shape
<1>16. LeftSeen'
  <2> SUFFICES ASSUME NEW m \in Graph!Mails, NEW f \in Read',
                      Reported(m, f, pull'.next[f]), box[m].folder # f
               PROVE  m \in pull.left
    BY <1>1, <1>7 DEF LeftSeen, Reported
  <2> QED BY <1>1, <1>7, <1>10 DEF LinkInv, LeftSeen
<1>17. FoundSeen'
  <2> SUFFICES ASSUME NEW m \in Graph!Mails, IsFound(m)'
               PROVE  \E f \in Read' : box[m].folder = f \/ Reported(m, f, pull'.next[f])
    BY <1>1 DEF FoundSeen, Reported
  <2>1. CASE m \in U
    BY <2>1, <1>5, <1>7
  <2>2. CASE IsFound(m)
    BY <2>2, <1>1, <1>7 DEF LinkInv, FoundSeen
  <2> QED BY <2>1, <2>2, <1>13
<1>18. GhostSeen'
  <2>1. ASSUME cursor # Graph!NoCursor, NEW m \in ghosts, box[m].folder # 0
        PROVE  Upsert(m, box[m].folder, cursor[box[m].folder])'
    BY <1>1, <2>1 DEF LinkInv, GhostSeen, Upsert, Reported
  <2>2. ASSUME pull.pc = "delta", NEW m \in ghosts, box[m].folder \in Read'
        PROVE  IsFound(m)' \/ Upsert(m, box[m].folder, pull'.next[box[m].folder])
    <3>1. m \in Graph!Mails
      BY GraphFacts DEF LinkInv
    <3>2. CASE box[m].folder \in Read
      BY <3>1, <3>2, <2>2, <1>7, <1>13 DEF LinkInv, GhostSeen
    <3>3. CASE box[m].folder = at
      <4>1. Upsert(m, at, cursor[at])
        BY <3>3, <1>1, <1>5 DEF LinkInv, GhostSeen, Shape, Graph!Folders, at
      <4> QED BY <4>1, <2>2, <3>1, <1>3, <1>13 DEF Link
    <3> QED BY <2>2, <3>2, <3>3, <1>7
  <2> QED BY <2>1, <2>2, <1>1, <1>7 DEF GhostSeen, Upsert, Reported
<1> QED BY <1>8, <1>9, <1>14, <1>15, <1>16, <1>17, <1>18 DEF LinkInv
\* A page of a folder: with the sentinel for a link, the next pull has all of it.
LEMMA ListMessagesKeeps ==
    ASSUME LinkInv, Graph!ListMessages
    PROVE  LinkInv'
<1> DEFINE at == pull.at
           S == Graph!Sentinel
           U == Graph!Newest(Graph!In(at))
           R == {}
<1>1. /\ pull.pc = "list" /\ at \in Graph!Folders /\ Graph!Reads(U, R, S)
      /\ UNCHANGED <<box, changes, cursor, local, crossed, ghosts, errors>>
  BY DEF Graph!ListMessages
<1>2. U \in SUBSET Graph!Mails /\ \A m \in U : box[m].folder = at /\ at # 0
  BY <1>1 DEF Graph!Newest, Graph!In, Graph!Folders
<1>3. S \in 0..Graph!Sentinel
  BY MailAssumption DEF Graph!Sentinel
<1> HIDE DEF at, S, U, R
<1>4. /\ pull' \in Pull
      /\ pull'.pc = pull.pc /\ pull'.at = at + 1 /\ pull'.left = pull.left
      /\ pull'.next \in [1..at -> 0..Graph!Sentinel]
      /\ \A f \in Read : pull'.next[f] = pull.next[f]
      /\ pull'.next[at] = S
      /\ \A m \in Graph!Mails : pull'.found[m] = IF m \in U THEN box[m] ELSE pull.found[m]
      /\ Read' = Read \cup {at} /\ Ahead' = Ahead \ {at} /\ at \in Ahead
  <2>1. R \in SUBSET Graph!Mails /\ pull.pc # "idle"
    BY <1>1 DEF R
  <2>2. /\ S \in 0..Graph!Sentinel /\ U \in SUBSET Graph!Mails
        /\ \A m \in U : box[m].folder # 0
    BY <1>2, <1>3 DEF S
  <2>3. pull.at \in Graph!Folders /\ Graph!Reads(U, R, S) /\ at = pull.at
    BY <1>1 DEF at
  <2>4. /\ pull' \in Pull
        /\ pull'.pc = pull.pc /\ pull'.at = pull.at + 1 /\ pull'.left = pull.left
        /\ pull'.next \in [1..pull.at -> 0..Graph!Sentinel]
        /\ \A f \in Read : pull'.next[f] = pull.next[f]
        /\ pull'.next[pull.at] = S
        /\ \A m \in Graph!Mails : pull'.found[m] = IF m \in U THEN box[m] ELSE pull.found[m]
        /\ pull'.gone = (pull.gone \ U) \cup R
        /\ pull'.crossed = pull.crossed \cup (pull.left \cap U)
        /\ Read' = Read \cup {pull.at} /\ Ahead' = Ahead \ {pull.at} /\ pull.at \in Ahead
    BY <2>1, <2>2, <2>3, ReadsFacts
  <2> QED BY <2>3, <2>4
<1>5. Graph!LinksLead' /\ \A m : Wanted(m)' = Wanted(m)
  BY <1>1, StoredAsBefore
<1>6. Graph!TypeOK'
  BY <1>1, <1>4 DEF LinkInv, Graph!TypeOK, Pull
<1>7. Shape'
  <2>1. Read' = 1..at
    BY <1>1, <1>4, MailAssumption DEF Read, Graph!Folders
  <2>2. \A f \in Read' : pull'.next[f] = Graph!Sentinel
    BY <1>1, <1>4 DEF LinkInv, Shape, S
  <2> QED BY <1>1, <1>4, <2>1, <2>2 DEF LinkInv, Shape
<1>8. PullLeads'
  <2> SUFFICES ASSUME NEW m \in Graph!Mails
               PROVE  (Crosses(m) \/ Haunts(m) \/ Outcome(m) = Wanted(m))'
    BY DEF PullLeads
  <2>1. HasUpsert(m)' <=> box[m].folder \in Read'
    <3>1. \A f \in Read' : pull'.next[f] = Graph!Sentinel
      BY <1>1, <1>4 DEF LinkInv, Shape, S
    <3> QED BY <1>1, <3>1 DEF HasUpsert, Upsert
  <2>2. ~HasRemoval(m)'
    <3>1. \A f \in Read' : pull'.next[f] = Graph!Sentinel
      BY <1>1, <1>4 DEF LinkInv, Shape, S
    <3> QED BY <1>1, <3>1 DEF HasRemoval, Removal
  <2>3. WillUpsert(m)' <=> box[m].folder \in Ahead'
    BY <1>1, <1>4 DEF WillUpsert, Upsert, Link
  <2>4. CASE box[m].folder # 0
    <3>1. box[m].folder \in Read' \cup Ahead'
      <4>1. box[m].folder \in 0..MaxFolder
        BY GraphFacts DEF LinkInv
      <4> QED BY <4>1, <2>4, <1>1, <1>4, MailAssumption DEF Read, Ahead, Graph!Folders, at
    <3>2. Outcome(m)' = box[m]
      BY <3>1, <2>1, <2>2, <2>3, <1>1 DEF Outcome, Stores
    <3> QED BY <3>2, <2>4, <1>5 DEF Wanted
  <2>5. CASE box[m].folder = 0
    <3>1. ~HasUpsert(m)' /\ ~WillUpsert(m)'
      BY <2>1, <2>3, <2>5, <1>1, <1>4, MailAssumption DEF Read, Ahead, Graph!Folders, at
    <3>2. CASE IsFound(m)'
      BY <3>2, <2>5, <1>1, <1>4 DEF Haunts
    <3>3. CASE ~IsFound(m)'
      <4>1. Outcome(m)' = Graph!None
        BY <3>1, <3>3, <2>2, <1>1, <1>4 DEF Outcome, Stores
      <4> QED BY <4>1, <2>5, <1>5 DEF Wanted
    <3> QED BY <3>2, <3>3
  <2> QED BY <2>4, <2>5
<1>9. LeftSeen' /\ FoundSeen'
  BY <1>1, <1>4 DEF LeftSeen, FoundSeen
<1>10. GhostSeen'
  BY <1>1, <1>4 DEF LinkInv, Shape, GhostSeen
<1> QED BY <1>5, <1>6, <1>7, <1>8, <1>9, <1>10 DEF LinkInv

\* A pull that begins: a listing or an enumeration wants the whole mailbox, a delta has
\* what the stored links lead to.
LEMMA BeginsKeeps ==
    ASSUME LinkInv, UNCHANGED <<box, changes, cursor, local, crossed, ghosts>>,
           errors' \in 0..MaxErrors, NEW p \in {"list", "delta", "again"},
           pull' = [Graph!Idle EXCEPT !.pc = p],
           p = "list" <=> cursor = Graph!NoCursor
    PROVE  LinkInv'
<1>1. /\ pull' \in Pull /\ pull'.pc = p /\ pull'.at = 1 /\ pull'.next = Graph!NoCursor
      /\ \A m \in Graph!Mails : pull'.found[m] = Graph!None
      /\ pull'.gone = {} /\ pull'.left = {} /\ pull'.crossed = {}
      /\ pull'.next \in [1..0 -> 0..Graph!Sentinel]
  BY IdleFacts
<1>2. Graph!LinksLead' /\ \A m : Wanted(m)' = Wanted(m)
  BY StoredAsBefore
<1>3. Read' = 1..0 /\ Read' = {} /\ Ahead' = Graph!Folders
  BY <1>1 DEF Read, Ahead, Graph!Folders
<1>4. Graph!TypeOK'
  BY <1>1 DEF LinkInv, Graph!TypeOK, Pull
<1>5. Shape'
  BY <1>1, <1>3 DEF LinkInv, Shape
<1>6. LeftSeen' /\ FoundSeen'
  BY <1>1, <1>3 DEF LeftSeen, FoundSeen, IsFound
<1>7. GhostSeen'
  BY <1>1, <1>3 DEF LinkInv, GhostSeen, Upsert, Reported
<1>8. PullLeads'
  <2> SUFFICES ASSUME NEW m \in Graph!Mails
               PROVE  (Crosses(m) \/ Haunts(m) \/ Outcome(m) = Wanted(m))'
    BY DEF PullLeads
  <2>1. /\ ~HasUpsert(m)' /\ ~HasRemoval(m)' /\ ~IsFound(m)'
        /\ m \notin pull'.gone
    BY <1>1, <1>3 DEF HasUpsert, HasRemoval, IsFound
  <2>2. Outcome(m)' = IF WillUpsert(m)' THEN box[m]
                      ELSE IF WillRemove(m)' \/ p # "delta" THEN Graph!None ELSE local[m]
    BY <2>1, <1>1 DEF Outcome, Stores
  <2>3. box[m].folder # 0 => box[m].folder \in Graph!Folders
    BY GraphFacts, MailAssumption DEF LinkInv, Graph!Folders
  <2>4. WillUpsert(m)' => box[m] = Wanted(m)
    BY <1>3, MailAssumption DEF WillUpsert, Upsert, Wanted, Graph!Folders
  <2>5. CASE p # "delta"
    <3>1. WillUpsert(m)' <=> box[m].folder \in Graph!Folders
      BY <2>5, <1>1, <1>3 DEF WillUpsert, Upsert, Link
    <3> QED BY <3>1, <2>2, <2>3, <2>4, <2>5, <1>2 DEF Wanted
  <2>6. CASE p = "delta"
    <3>1. /\ WillUpsert(m)' <=> \E f \in Graph!Folders : Upsert(m, f, cursor[f])
          /\ WillRemove(m)' <=> \E f \in Graph!Folders : Removal(m, f, cursor[f])
      BY <2>6, <1>1, <1>3 DEF WillUpsert, WillRemove, Upsert, Removal, Reported, Link
    <3>2. cursor # Graph!NoCursor
      BY <2>6
    <3>3. CASE m \in crossed \ ghosts
      BY <3>3, <2>1, <2>2, <2>4, <2>6, <1>1, <1>2 DEF Crosses
    <3>4. CASE m \in ghosts
      <4>1. box[m].folder # 0 => WillUpsert(m)'
        BY <3>1, <3>2, <3>4, <2>3 DEF LinkInv, GhostSeen
      <4>2. CASE WillUpsert(m)'
        BY <4>2, <2>2, <2>4, <1>2
      <4>3. CASE ~WillUpsert(m)' /\ WillRemove(m)'
        BY <4>1, <4>3, <2>2, <1>2 DEF Wanted
      <4>4. CASE ~WillUpsert(m)' /\ ~WillRemove(m)'
        BY <4>4, <3>4, <2>1, <2>6, <1>1 DEF Haunts
      <4> QED BY <4>2, <4>3, <4>4
    <3>5. CASE m \notin crossed \cup ghosts
      <4>1. Graph!Followed(m) = IF box[m].folder = 0 THEN Graph!None ELSE box[m]
        BY <3>2, <3>5 DEF LinkInv, Graph!LinksLead, Graph!Away
      <4>2. (IF \E f \in Graph!Folders : Upsert(m, f, cursor[f]) THEN box[m]
             ELSE IF \E f \in Graph!Folders : Removal(m, f, cursor[f]) THEN Graph!None
             ELSE local[m]) = Wanted(m)
        BY <4>1, <3>2, LeadsMeans DEF LinkInv, LeadsHere
      <4> QED BY <4>2, <3>1, <2>2, <2>6, <1>2
    <3> QED BY <3>3, <3>4, <3>5
  <2> QED BY <2>5, <2>6
<1> QED BY <1>2, <1>4, <1>5, <1>6, <1>7, <1>8 DEF LinkInv

\* A pull that fails leaves nothing.
LEMMA PullFailsKeeps ==
    ASSUME LinkInv, Graph!PullFails
    PROVE  LinkInv'
<1>1. /\ pull' = Graph!Idle /\ errors' \in 0..MaxErrors
      /\ UNCHANGED <<box, changes, cursor, local, crossed, ghosts>>
  BY MailAssumption DEF Graph!PullFails, LinkInv, Graph!TypeOK
<1>2. pull' \in Pull /\ pull'.pc = "idle"
  BY <1>1, IdleFacts
<1>3. Graph!LinksLead'
  BY <1>1, StoredAsBefore
<1>4. Graph!TypeOK'
  BY <1>1, <1>2 DEF LinkInv, Graph!TypeOK, Pull
<1>5. Shape' /\ LeftSeen' /\ FoundSeen' /\ PullLeads'
  BY <1>1, <1>2 DEF LinkInv, Shape, LeftSeen, FoundSeen, PullLeads
<1>6. GhostSeen'
  BY <1>1, <1>2 DEF LinkInv, GhostSeen, Upsert, Reported
<1> QED BY <1>3, <1>4, <1>5, <1>6 DEF LinkInv

\* A pull that is applied: the links it brings lead where its outcome said.
LEMMA PullDeltasKeeps ==
    ASSUME LinkInv, Graph!PullDeltas
    PROVE  LinkInv'
<1> DEFINE full == pull.pc # "delta"
           seen == Graph!Loaded(pull.found)
<1>1. /\ pull.pc \in {"list", "delta", "again"} /\ pull.at = MaxFolder + 1
      /\ local' = [m \in Graph!Mails |->
                     IF m \in Graph!Gone THEN Graph!None
                     ELSE IF m \in seen \/ full THEN pull.found[m] ELSE local[m]]
      /\ cursor' = pull.next
      /\ crossed' = IF full THEN pull.crossed ELSE (crossed \ seen) \cup pull.crossed
      /\ ghosts' = IF pull.pc = "list" THEN seen \cap Graph!In(0)
                   ELSE IF full THEN {} ELSE ghosts \ (seen \cup Graph!Gone)
      /\ pull' = Graph!Idle
      /\ UNCHANGED <<box, changes, errors>>
  BY GraphFacts DEF LinkInv, Graph!PullDeltas, Graph!Away
<1>2. \A m \in Graph!Mails : /\ m \in seen <=> IsFound(m)
                             /\ m \in Graph!Gone <=> m \in pull.gone /\ ~IsFound(m)
  BY DEF Graph!Loaded, Graph!Gone, IsFound
<1>3. Read = Graph!Folders /\ Ahead = {} /\ MaxFolder \in Nat \ {0}
  BY <1>1, MailAssumption DEF Read, Ahead, Graph!Folders
<1>4. pull.next \in Graph!Links /\ pull.next # Graph!NoCursor
  <2>1. pull.next \in Graph!Links
    BY <1>1, <1>3 DEF LinkInv, Shape, Graph!Links
  <2>2. 1 \in DOMAIN pull.next /\ 1 \notin DOMAIN Graph!NoCursor
    BY <2>1, <1>3 DEF Graph!Links, Graph!Folders, Graph!NoCursor
  <2> QED BY <2>1, <2>2
<1>5. seen \subseteq Graph!Mails /\ pull.found \in Graph!Found
  BY GraphFacts DEF LinkInv, Graph!Loaded
<1> HIDE DEF full, seen
<1>6. Graph!TypeOK'
  <2>1. local' \in Graph!Found
    <3>1. Graph!None \in Graph!Message
      BY DEF Graph!None, Graph!Message, Graph!Away
    <3> QED BY <3>1, <1>1, <1>5, GraphFacts DEF LinkInv, Graph!Found
  <2>2. crossed' \subseteq Graph!Mails /\ ghosts' \subseteq Graph!Mails
    BY <1>1, <1>5, GraphFacts DEF LinkInv
  <2> QED BY <2>1, <2>2, <1>1, <1>4, IdleFacts DEF LinkInv, Graph!TypeOK, Pull
<1>7. Shape'
  BY <1>1, <1>3, <1>4, IdleFacts DEF LinkInv, Shape
<1>8. LeftSeen' /\ FoundSeen' /\ PullLeads'
  BY <1>1, IdleFacts DEF LeftSeen, FoundSeen, PullLeads
<1>9. GhostSeen'
  <2> SUFFICES ASSUME NEW m \in ghosts', box[m].folder # 0
               PROVE  Upsert(m, box[m].folder, pull.next[box[m].folder])
    BY <1>1, IdleFacts DEF GhostSeen, Upsert, Reported
  <2>1. m \in ghosts /\ pull.pc = "delta" /\ m \notin seen
    BY <1>1 DEF Graph!In, full
  <2>2. m \in Graph!Mails
    BY <2>1, GraphFacts DEF LinkInv
  <2>3. box[m].folder \in Read
    BY <2>2, <1>3, GraphFacts DEF LinkInv, Graph!Folders
  <2> QED BY <2>1, <2>2, <2>3, <1>2 DEF LinkInv, GhostSeen
<1>10. Graph!LinksLead'
  <2> SUFFICES ASSUME NEW m \in Graph!Mails, m \notin crossed', m \notin ghosts'
               PROVE  (Graph!Followed(m) = IF box[m].folder = 0 THEN Graph!None ELSE box[m])'
    BY DEF Graph!LinksLead, Graph!Away
  <2>1. ~WillUpsert(m) /\ ~WillRemove(m)
    BY <1>3 DEF WillUpsert, WillRemove
  <2>2. ~Crosses(m)
    BY <2>1, <1>1, <1>2 DEF Crosses, full
  <2>3. ~Haunts(m)
    BY <2>1, <1>1, <1>2 DEF Haunts, full, Graph!In
  <2>4. Outcome(m) = Wanted(m)
    BY <2>2, <2>3, <1>1 DEF LinkInv, PullLeads
  <2>5. local'[m] = Stores(m)
    BY <2>1, <1>1, <1>2 DEF Stores, IsFound, full
  <2>6. /\ HasUpsert(m) <=> (\E f \in Graph!Folders : Upsert(m, f, cursor[f]))'
        /\ HasRemoval(m) <=> (\E f \in Graph!Folders : Removal(m, f, cursor[f]))'
        /\ Wanted(m)' = Wanted(m) /\ box' = box
    BY <1>1, <1>3 DEF HasUpsert, HasRemoval, Upsert, Removal, Reported, Wanted
  <2>7. ((IF \E f \in Graph!Folders : Upsert(m, f, cursor[f]) THEN box[m]
          ELSE IF \E f \in Graph!Folders : Removal(m, f, cursor[f]) THEN Graph!None
          ELSE local[m]) = Wanted(m))'
    BY <2>4, <2>5, <2>6 DEF Outcome
  <2> QED BY <2>7, <1>1, <1>4, <1>6, <1>7, LeadsMeansNext DEF LeadsHere
<1> QED BY <1>6, <1>7, <1>8, <1>9, <1>10 DEF LinkInv
\* A change of the mailbox says nothing of the other messages.
LEMMA OthersAsBefore ==
    ASSUME LinkInv, NEW m \in Graph!Mails, NEW e \in Change, e.msg # m,
           Len(changes) < MaxChanges, changes' = Append(changes, e), box'[m] = box[m],
           pull'.pc = pull.pc, pull'.at = pull.at, pull'.next = pull.next,
           pull'.found = pull.found, pull'.gone = pull.gone, pull'.crossed = pull.crossed,
           m \in pull'.left <=> m \in pull.left, m \in ghosts' <=> m \in ghosts,
           UNCHANGED <<cursor, local, crossed>>
    PROVE  /\ Read' = Read /\ Ahead' = Ahead
           /\ \A f : \A l \in Nat : Reported(m, f, l)' <=> Reported(m, f, l)
           /\ pull.pc # "idle" =>
                (Crosses(m) \/ Haunts(m) \/ Outcome(m) = Wanted(m))'
           /\ cursor # Graph!NoCursor /\ m \notin crossed /\ m \notin ghosts' =>
                (IF \E f \in Graph!Folders : Upsert(m, f, cursor[f]) THEN box[m]
                 ELSE IF \E f \in Graph!Folders : Removal(m, f, cursor[f]) THEN Graph!None
                 ELSE local[m])' = Wanted(m)'
<1>1. \A f : \A l \in Nat : Reported(m, f, l)' <=> Reported(m, f, l)
  BY OneMoreChange DEF LinkInv
<1>2. \A f : \A l \in Nat : /\ Upsert(m, f, l)' <=> Upsert(m, f, l)
                            /\ Removal(m, f, l)' <=> Removal(m, f, l)
  BY <1>1 DEF Upsert, Removal
<1>3. Read' = Read /\ Ahead' = Ahead /\ Wanted(m)' = Wanted(m)
  BY DEF Read, Ahead, Wanted
<1>4. /\ \A f \in Graph!Folders : cursor # Graph!NoCursor => cursor[f] \in Nat
      /\ \A f \in Read : pull.pc # "idle" => pull.next[f] \in Nat
      /\ Graph!Sentinel \in Nat
  BY MailAssumption DEF LinkInv, Shape, Graph!Links, Graph!Sentinel
<1>5. ASSUME pull.pc # "idle"
      PROVE  (Crosses(m) \/ Haunts(m) \/ Outcome(m) = Wanted(m))'
  <2>1. HasUpsert(m)' <=> HasUpsert(m)
    BY <1>1, <1>3, <1>4, <1>5 DEF HasUpsert, Upsert
  <2>2. HasRemoval(m)' <=> HasRemoval(m)
    BY <1>1, <1>3, <1>4, <1>5 DEF HasRemoval, Removal
  <2>3. \A f \in Ahead : f \in Graph!Folders
    BY GraphFacts, MailAssumption DEF LinkInv, Ahead, Graph!Folders
  <2>4. \A f \in Ahead : Link(f)' = Link(f) /\ Link(f) \in Nat
    BY <1>4, <1>5, <2>3 DEF Link, LinkInv, Shape
  <2>5. WillUpsert(m)' <=> WillUpsert(m)
    BY <1>1, <1>3, <2>4 DEF WillUpsert, Upsert
  <2>6. WillRemove(m)' <=> WillRemove(m)
    BY <1>1, <1>3, <2>4 DEF WillRemove, Removal
  <2>7. IsFound(m)' <=> IsFound(m)
    BY DEF IsFound
  <2>8. Outcome(m)' = Outcome(m)
    BY <2>1, <2>2, <2>5, <2>6, <2>7 DEF Outcome, Stores
  <2>9. Crosses(m)' <=> Crosses(m)
    BY <2>5, <2>7 DEF Crosses
  <2>10. Haunts(m)' <=> Haunts(m)
    BY <2>5, <2>6, <2>7 DEF Haunts
  <2> QED BY <2>8, <2>9, <2>10, <1>3, <1>5 DEF LinkInv, PullLeads
<1>6. ASSUME cursor # Graph!NoCursor, m \notin crossed, m \notin ghosts'
      PROVE  (IF \E f \in Graph!Folders : Upsert(m, f, cursor[f]) THEN box[m]
              ELSE IF \E f \in Graph!Folders : Removal(m, f, cursor[f]) THEN Graph!None
              ELSE local[m])' = Wanted(m)'
  <2>1. Graph!Followed(m) = IF box[m].folder = 0 THEN Graph!None ELSE box[m]
    BY <1>6 DEF LinkInv, Graph!LinksLead, Graph!Away
  <2>2. (IF \E f \in Graph!Folders : Upsert(m, f, cursor[f]) THEN box[m]
         ELSE IF \E f \in Graph!Folders : Removal(m, f, cursor[f]) THEN Graph!None
         ELSE local[m]) = Wanted(m)
    BY <2>1, <1>6, LeadsMeans DEF LinkInv, LeadsHere
  <2>3. (\E f \in Graph!Folders : Upsert(m, f, cursor[f]))'
           <=> \E f \in Graph!Folders : Upsert(m, f, cursor[f])
    BY <1>1, <1>4, <1>6 DEF Upsert
  <2>4. (\E f \in Graph!Folders : Removal(m, f, cursor[f]))'
           <=> \E f \in Graph!Folders : Removal(m, f, cursor[f])
    BY <1>1, <1>4, <1>6 DEF Removal
  <2> QED BY <2>2, <2>3, <2>4, <1>3
<1> QED BY <1>1, <1>3, <1>5, <1>6

\* A change of a message: the folders that report it are those it was in and is in.
Changes(k, e) ==
    /\ Len(changes) < MaxChanges /\ changes' = Append(changes, e) /\ e.msg = k
    /\ \A m \in Graph!Mails : m # k => box'[m] = box[m]
    /\ box'[k] \in Graph!Message /\ box' \in Graph!Found
    /\ box'[k].folder = 0 => box'[k] = Graph!None
    /\ box[k].folder # 0 => box[k].folder \in e.in
    /\ box'[k].folder # 0 => box'[k].folder \in e.in
    /\ box[k].folder # 0 \/ box'[k].folder # 0
    /\ \A f \in e.in : f = box[k].folder \/ f = box'[k].folder
    /\ UNCHANGED <<cursor, local, crossed, errors>>
    /\ pull' \in Pull
    /\ pull'.pc = pull.pc /\ pull'.at = pull.at /\ pull'.next = pull.next
    /\ pull'.found = pull.found /\ pull'.gone = pull.gone /\ pull'.crossed = pull.crossed
    /\ pull'.left \in {pull.left, pull.left \cup {k}}
    /\ pull.pc \in {"delta", "again"} /\ box[k].folder \in Read
       /\ box'[k].folder # box[k].folder => k \in pull'.left
    /\ ghosts' \in {ghosts, ghosts \cup {k}}
    /\ ghosts' # ghosts => box'[k].folder = 0 /\ cursor # Graph!NoCursor
    /\ /\ box'[k].folder = 0 /\ local[k] # Graph!None
       /\ \E g \in DOMAIN cursor : cursor[g] = Graph!Sentinel
       => k \in ghosts'

LEMMA ChangeKeeps ==
    ASSUME LinkInv, NEW k \in Graph!Mails, NEW e \in Change, Changes(k, e)
    PROVE  LinkInv'
<1>0. PICK was, is : was = box[k].folder /\ is = box'[k].folder
  OBVIOUS
<1>1. /\ changes' \in Seq(Change) /\ Len(changes)' = Len(changes) + 1 /\ Len(changes) \in Nat
      /\ \A m, f : \A l \in Nat :
            Reported(m, f, l)' <=>
                Reported(m, f, l) \/ (l <= Len(changes) /\ m = k /\ f \in e.in)
  BY OneMoreChange, GraphFacts DEF LinkInv, Changes
<1>2. \A m \in Graph!Mails : m # k =>
        /\ \A f : \A l \in Nat : Reported(m, f, l)' <=> Reported(m, f, l)
        /\ pull.pc # "idle" => (Crosses(m) \/ Haunts(m) \/ Outcome(m) = Wanted(m))'
        /\ cursor # Graph!NoCursor /\ m \notin crossed /\ m \notin ghosts' =>
             (IF \E f \in Graph!Folders : Upsert(m, f, cursor[f]) THEN box[m]
              ELSE IF \E f \in Graph!Folders : Removal(m, f, cursor[f]) THEN Graph!None
              ELSE local[m])' = Wanted(m)'
  <2> SUFFICES ASSUME NEW m \in Graph!Mails, m # k
               PROVE  /\ \A f : \A l \in Nat : Reported(m, f, l)' <=> Reported(m, f, l)
                      /\ pull.pc # "idle" =>
                            (Crosses(m) \/ Haunts(m) \/ Outcome(m) = Wanted(m))'
                      /\ cursor # Graph!NoCursor /\ m \notin crossed /\ m \notin ghosts' =>
                            (IF \E f \in Graph!Folders : Upsert(m, f, cursor[f]) THEN box[m]
                             ELSE IF \E f \in Graph!Folders : Removal(m, f, cursor[f])
                                  THEN Graph!None
                             ELSE local[m])' = Wanted(m)'
    OBVIOUS
  <2>1. /\ e.msg # m /\ Len(changes) < MaxChanges /\ changes' = Append(changes, e)
        /\ box'[m] = box[m]
        /\ pull'.pc = pull.pc /\ pull'.at = pull.at /\ pull'.next = pull.next
        /\ pull'.found = pull.found /\ pull'.gone = pull.gone /\ pull'.crossed = pull.crossed
        /\ m \in pull'.left <=> m \in pull.left
        /\ m \in ghosts' <=> m \in ghosts
        /\ UNCHANGED <<cursor, local, crossed>>
    BY DEF Changes
  <2> QED BY <2>1, OthersAsBefore, Zenon
<1>3. /\ Read' = Read /\ Ahead' = Ahead
      /\ was \in 0..MaxFolder /\ is \in 0..MaxFolder
  <2>1. \A x \in Graph!Message : x.folder \in 0..MaxFolder
    BY MailAssumption DEF Graph!Message, Graph!Folders, Graph!Away
  <2> QED BY <1>0, <2>1, GraphFacts DEF LinkInv, Changes, Read, Ahead
<1>4. /\ Graph!Sentinel \in Nat /\ Len(changes) < Graph!Sentinel
      /\ \A f \in Graph!Folders : cursor # Graph!NoCursor =>
            cursor[f] \in Nat /\ ((cursor[f] = Graph!Sentinel) \/ (cursor[f] <= Len(changes)))
      /\ \A f \in Read : pull.pc # "idle" => pull.next[f] \in Nat
      /\ \A f \in Read : pull.pc = "list" => pull.next[f] = Graph!Sentinel
      /\ \A f \in Read : pull.pc \in {"delta", "again"} => pull.next[f] <= Len(changes)
  BY GraphFacts, MailAssumption DEF LinkInv, Shape, Graph!Links, Graph!Sentinel
<1>5. /\ was # 0 => was \in e.in
      /\ is # 0 => is \in e.in
      /\ \A f \in e.in : f = was \/ f = is
      /\ is = 0 => was # 0
  BY <1>0 DEF Changes
\* The folder the message is in now reports it, whatever the link.
<1>6. \A l \in Nat : is # 0 /\ ((l = Graph!Sentinel) \/ (l <= Len(changes))) => Upsert(k, is, l)'
  BY <1>1, <1>5, <1>0 DEF Upsert
<1>7. \A f, l : Upsert(k, f, l)' => f = is
  BY <1>0 DEF Upsert
\* So does the folder it was in, but for a sentinel.
<1>8. \A l \in Nat : was # 0 /\ was # is /\ l <= Len(changes) => Removal(k, was, l)'
  BY <1>1, <1>4, <1>5, <1>0 DEF Removal
<1>9. Wanted(k)' = IF is = 0 THEN Graph!None ELSE box'[k]
  BY <1>0 DEF Wanted
<1>10. Graph!TypeOK'
  <2>1. pull' \in Pull /\ box' \in Graph!Found /\ UNCHANGED <<cursor, local, crossed, errors>>
    BY DEF Changes
  <2>2. ghosts' \subseteq Graph!Mails
    BY GraphFacts DEF LinkInv, Changes
  <2>3. Len(changes') <= MaxChanges
    BY <1>1, MailAssumption DEF Changes
  <2> QED BY <2>1, <2>2, <2>3, <1>1 DEF LinkInv, Graph!TypeOK, Pull, Change
<1>11. Shape'
  <2>1. \A m \in Graph!Mails : box'[m].folder = 0 => box'[m] = Graph!None
    BY DEF LinkInv, Shape, Changes
  <2>2. /\ UNCHANGED <<cursor, crossed>> /\ pull'.pc = pull.pc /\ pull'.next = pull.next
        /\ cursor = Graph!NoCursor => ghosts' = ghosts
    BY DEF Changes
  <2>3. \A f \in Graph!Folders : cursor # Graph!NoCursor =>
            (cursor[f] = Graph!Sentinel) \/ (cursor[f] <= Len(changes)')
    BY <1>1, <1>4
  <2>4. \A f \in Read : pull.pc \in {"delta", "again"} => pull.next[f] <= Len(changes)'
    BY <1>1, <1>4
  <2> QED BY <2>1, <2>2, <2>3, <2>4, <1>3 DEF LinkInv, Shape
<1>12. LeftSeen'
  <2> SUFFICES ASSUME pull.pc \in {"delta", "again"}, NEW m \in Graph!Mails, NEW f \in Read,
                      NEW l \in Nat, l = pull.next[f], Reported(m, f, l)', box'[m].folder # f
               PROVE  m \in pull'.left
    <3>1. pull'.next = pull.next /\ pull'.pc = pull.pc
      BY DEF Changes
    <3>2. \A f \in Read : pull.pc # "idle" => pull.next[f] \in Nat
      BY <1>4
    <3> QED BY <3>1, <3>2, <1>3 DEF LeftSeen, Reported
  <2>1. Reported(m, f, l) \/ (m = k /\ f \in e.in)
    BY <1>1
  <2>2. CASE m # k
    BY <2>1, <2>2 DEF LinkInv, LeftSeen, Changes
  <2>3. CASE m = k
    <3>1. CASE f = was
      BY <2>3, <3>1, <1>0 DEF Changes
    <3>2. CASE f # was
      <4>1. Reported(m, f, l)
        BY <2>1, <2>3, <3>2, <1>5, <1>0
      <4>2. m \in pull.left
        BY <2>3, <3>2, <4>1, <1>0 DEF LinkInv, LeftSeen
      <4> QED BY <4>2 DEF Changes
    <3> QED BY <3>1, <3>2
  <2> QED BY <2>2, <2>3
<1>13. FoundSeen'
  <2> SUFFICES ASSUME pull.pc \in {"delta", "again"}, NEW m \in Graph!Mails, IsFound(m)
               PROVE  \E f \in Read : \E l \in Nat : l = pull.next[f] /\
                         (box'[m].folder = f \/ Reported(m, f, l)')
    BY <1>3 DEF FoundSeen, IsFound, Reported, Changes
  <2>1. PICK f \in Read : box[m].folder = f \/ Reported(m, f, pull.next[f])
    BY DEF LinkInv, FoundSeen
  <2>2. pull.next[f] \in Nat /\ pull.next[f] <= Len(changes)
    BY <1>4
  <2>3. CASE Reported(m, f, pull.next[f])
    BY <2>2, <2>3, <1>1
  <2>4. CASE box[m].folder = f /\ m # k
    BY <2>2, <2>4 DEF Changes
  <2>5. CASE box[m].folder = f /\ m = k
    <3>1. f = was /\ was # 0
      BY <2>5, <1>0 DEF Read
    <3> QED BY <2>2, <2>5, <3>1, <1>1, <1>5
  <2> QED BY <2>1, <2>3, <2>4, <2>5
<1>14. GhostSeen'
  <2>1. ASSUME cursor # Graph!NoCursor, NEW m \in ghosts', NEW f, NEW l \in Nat,
               f = box'[m].folder, f # 0, l = cursor[f]
        PROVE  Upsert(m, f, l)'
    <3>1. CASE m = k
      <4>1. f \in Graph!Folders /\ f = is
        BY <2>1, <3>1, <1>3, MailAssumption, <1>0 DEF Graph!Folders
      <4> QED BY <4>1, <2>1, <3>1, <1>4, <1>6
    <3>2. CASE m # k
      <4>1. m \in ghosts /\ m \in Graph!Mails /\ box'[m] = box[m]
        BY <2>1, <3>2, GraphFacts DEF LinkInv, Changes
      <4>2. Upsert(m, f, l)
        BY <4>1, <2>1 DEF LinkInv, GhostSeen
      <4> QED BY <4>1, <4>2, <1>1 DEF Upsert
    <3> QED BY <3>1, <3>2
  <2>2. ASSUME pull.pc = "delta", NEW m \in ghosts', NEW f \in Read, NEW l \in Nat,
               f = box'[m].folder, l = pull.next[f]
        PROVE  IsFound(m)' \/ Upsert(m, f, l)'
    <3>1. CASE m = k
      <4>1. f = is /\ f # 0
        BY <2>2, <3>1, <1>0 DEF Read
      <4> QED BY <4>1, <2>2, <3>1, <1>4, <1>6
    <3>2. CASE m # k
      <4>1. m \in ghosts /\ m \in Graph!Mails /\ box'[m] = box[m]
        BY <2>2, <3>2, GraphFacts DEF LinkInv, Changes
      <4>2. IsFound(m) \/ Upsert(m, f, l)
        BY <4>1, <2>2 DEF LinkInv, GhostSeen
      <4>3. IsFound(m)' <=> IsFound(m)
        BY DEF IsFound, Changes
      <4> QED BY <4>1, <4>2, <4>3, <1>1 DEF Upsert
    <3> QED BY <3>1, <3>2
  <2>3. /\ cursor' = cursor /\ pull'.pc = pull.pc /\ pull'.next = pull.next
        /\ \A m \in ghosts' : box'[m].folder # 0 => box'[m].folder \in Graph!Folders
    <3>1. box' \in Graph!Found /\ ghosts' \subseteq Graph!Mails
      BY GraphFacts DEF LinkInv, Changes
    <3> QED BY <3>1, MailAssumption
            DEF Changes, Graph!Found, Graph!Message, Graph!Folders, Graph!Away
  <2>4. ASSUME cursor # Graph!NoCursor, NEW m \in ghosts', box'[m].folder # 0
        PROVE  Upsert(m, box[m].folder, cursor[box[m].folder])'
    <3>1. PICK f, l : f = box'[m].folder /\ l = cursor[f]
      OBVIOUS
    <3>2. f \in Graph!Folders /\ l \in Nat /\ f # 0
      BY <2>3, <2>4, <3>1, <1>4
    <3>3. Upsert(m, f, l)'
      BY <2>1, <2>4, <3>1, <3>2
    <3> QED BY <2>3, <3>1, <3>3 DEF Upsert, Reported
  <2>5. ASSUME pull.pc = "delta", NEW m \in ghosts', box'[m].folder \in Read
        PROVE  IsFound(m)' \/ Upsert(m, box[m].folder, pull.next[box[m].folder])'
    <3>1. PICK f, l : f = box'[m].folder /\ l = pull.next[f]
      OBVIOUS
    <3>2. f \in Read /\ l \in Nat
      BY <2>5, <3>1, <1>4
    <3>3. IsFound(m)' \/ Upsert(m, f, l)'
      BY <2>2, <2>5, <3>1, <3>2
    <3> QED BY <2>3, <3>1, <3>3 DEF Upsert, Reported
  <2> QED BY <2>3, <2>4, <2>5, <1>3 DEF GhostSeen
\* The message itself: it is where its folder says, or it is gone and reported, or counted.
<1>15. ASSUME pull.pc # "idle"
       PROVE  (Crosses(k) \/ Haunts(k) \/ Outcome(k) = Wanted(k))'
  <2>1. /\ pull'.pc = pull.pc /\ pull'.next = pull.next /\ pull'.gone = pull.gone
        /\ pull'.found = pull.found /\ UNCHANGED <<cursor, local, crossed>>
        /\ IsFound(k)' <=> IsFound(k)
    BY DEF Changes, IsFound
  <2>2. pull.pc \in {"list", "delta", "again"}
    BY <1>15, GraphFacts DEF LinkInv
  <2>3. \A f \in Read \cup Ahead : f \in Graph!Folders
    BY GraphFacts, MailAssumption DEF LinkInv, Read, Ahead, Graph!Folders
  <2>4. is # 0 => is \in Read \cup Ahead
    BY <1>3, GraphFacts, MailAssumption DEF LinkInv, Read, Ahead
  <2>5. \A f \in Ahead : /\ Link(f) \in Nat
                         /\ (Link(f) = Graph!Sentinel) \/ (Link(f) <= Len(changes))
                         /\ Link(f)' = Link(f)
    BY <1>4, <2>1, <2>2, <2>3 DEF Link, LinkInv, Shape
  <2>6. \A f \in Read : /\ pull.next[f] \in Nat
                        /\ (pull.next[f] = Graph!Sentinel) \/ (pull.next[f] <= Len(changes))
    BY <1>4, <2>2
  <2>7. /\ HasUpsert(k)' <=> is # 0 /\ is \in Read
        /\ WillUpsert(k)' <=> is # 0 /\ is \in Ahead
    <3>1. HasUpsert(k)' <=> \E f \in Read : \E l \in Nat : l = pull.next[f] /\ Upsert(k, f, l)'
      BY <1>3, <2>1, <2>6 DEF HasUpsert, Upsert, Reported
    <3>2. WillUpsert(k)' <=> \E f \in Ahead : \E l \in Nat : l = Link(f) /\ Upsert(k, f, l)'
      BY <1>3, <2>1, <2>5 DEF WillUpsert, Upsert, Reported
    <3>3. \A f \in Read : f # 0
      BY DEF Read
    <3>4. \A f \in Ahead : f # 0
      BY <2>3 DEF Graph!Folders
    <3> QED BY <1>6, <1>7, <2>5, <2>6, <3>1, <3>2, <3>3, <3>4
  <2>8. CASE is # 0 /\ is \in Read
    BY <2>7, <2>8, <1>0, <1>9 DEF Outcome
  <2>9. CASE is # 0 /\ is \in Ahead
    <3>1. CASE HasRemoval(k)'
      <4>1. PICK f \in Read, l \in Nat : l = pull.next[f] /\ Removal(k, f, l)'
        BY <1>3, <2>1, <2>6, <3>1 DEF HasRemoval, Removal, Reported
      <4>2. Reported(k, f, l)' /\ box'[k].folder # f /\ l # Graph!Sentinel
        BY <4>1 DEF Removal
      <4>3. pull.pc \in {"delta", "again"}
        BY <4>1, <4>2, <2>2, <1>4
      <4>4. k \in pull'.left
        <5>1. Reported(k, f, pull.next[f])'
          BY <2>1, <4>1, <4>2 DEF Reported
        <5> QED BY <5>1, <4>2, <4>3, <2>1, <1>3, <1>12 DEF LeftSeen
      <4> QED BY <4>4, <2>7, <2>9 DEF Crosses
    <3>2. CASE ~HasRemoval(k)'
      <4>1. is \notin Read
        BY <2>9, GraphFacts DEF LinkInv, Read, Ahead
      <4> QED BY <3>2, <4>1, <2>7, <2>9, <1>0, <1>9 DEF Outcome, Stores
    <3> QED BY <3>1, <3>2
  <2>10. CASE is = 0
    <3>1. was # 0 /\ was # is /\ was \in Read \cup Ahead
      BY <2>10, <1>3, <1>5, GraphFacts, MailAssumption DEF LinkInv, Read, Ahead
    <3>2. ~HasUpsert(k)' /\ ~WillUpsert(k)'
      BY <2>7, <2>10
    <3>3. Wanted(k)' = Graph!None
      BY <2>10, <1>9
    <3>4. CASE HasRemoval(k)'
      BY <3>2, <3>3, <3>4 DEF Outcome
    <3>5. CASE ~HasRemoval(k)' /\ pull.pc = "list"
      <4>1. CASE IsFound(k)
        BY <4>1, <3>5, <2>1, <2>10, <1>0 DEF Haunts
      <4>2. CASE ~IsFound(k)
        <5>1. Outcome(k)' = Graph!None
          BY <4>2, <3>2, <3>5, <2>1 DEF Outcome, Stores
        <5> QED BY <5>1, <3>3
      <4> QED BY <4>1, <4>2
    <3>6. CASE ~HasRemoval(k)' /\ pull.pc \in {"delta", "again"}
      <4>1. \A f \in Read : \A l \in Nat : l = pull.next[f] => ~Removal(k, f, l)'
        BY <3>6, <1>3, <2>1 DEF HasRemoval, Removal, Reported
      <4>2. was \in Ahead /\ was \notin Read
        <5>1. was \notin Read
          BY <4>1, <3>1, <3>6, <1>4, <1>8
        <5> QED BY <5>1, <3>1
      <4>3. ~IsFound(k)
        <5> SUFFICES ASSUME IsFound(k) PROVE FALSE
          OBVIOUS
        <5>1. PICK f \in Read : box[k].folder = f \/ Reported(k, f, pull.next[f])
          BY <3>6 DEF LinkInv, FoundSeen
        <5>2. f # was /\ Reported(k, f, pull.next[f]) /\ f # 0
          BY <4>2, <5>1, <1>0 DEF Read
        <5>3. PICK l \in Nat : l = pull.next[f]
          BY <2>6
        <5>4. Reported(k, f, l)' /\ l # Graph!Sentinel
          BY <5>2, <5>3, <3>6, <1>1, <1>4
        <5>5. Removal(k, f, l)'
          BY <5>2, <5>4, <2>10, <1>0 DEF Removal
        <5> QED BY <4>1, <5>3, <5>5
      <4>4. CASE k \in pull.gone \/ WillRemove(k)' \/ pull.pc # "delta"
        <5>1. Stores(k)' = Graph!None
          BY <4>3, <4>4, <3>2, <2>1 DEF Stores
        <5> QED BY <5>1, <3>2, <3>3, <3>6 DEF Outcome
      <4>5. CASE k \notin pull.gone /\ ~WillRemove(k)' /\ pull.pc = "delta"
        <5>1. Link(was) = Graph!Sentinel
          <6>1. PICK l \in Nat : l = Link(was)
            BY <4>2, <2>5
          <6>2. ~Removal(k, was, l)'
            BY <6>1, <4>2, <4>5, <2>5, <1>3 DEF WillRemove, Removal, Reported
          <6> QED BY <6>1, <6>2, <4>2, <3>1, <2>5, <1>8
        <5>2. was \in DOMAIN cursor /\ cursor[was] = Graph!Sentinel
          BY <5>1, <4>2, <4>5, <2>3 DEF Link, LinkInv, Shape, Graph!Links
        <5>3. CASE local[k] = Graph!None
          <6>1. Outcome(k)' = local[k]
            BY <4>3, <4>5, <3>2, <3>6, <2>1 DEF Outcome, Stores
          <6> QED BY <6>1, <5>3, <3>3
        <5>4. CASE local[k] # Graph!None
          <6>1. k \in ghosts'
            BY <5>2, <5>4, <2>10, <1>0 DEF Changes
          <6> QED BY <6>1, <4>3, <4>5, <3>2, <2>1 DEF Haunts
        <5> QED BY <5>3, <5>4
      <4> QED BY <4>4, <4>5, <3>6
    <3> QED BY <3>4, <3>5, <3>6, <2>2
  <2> QED BY <2>4, <2>8, <2>9, <2>10
<1>16. PullLeads'
  <2>1. pull'.pc = pull.pc
    BY DEF Changes
  <2> QED BY <2>1, <1>2, <1>15 DEF PullLeads
<1>17. ASSUME cursor # Graph!NoCursor, k \notin crossed, k \notin ghosts'
       PROVE  (IF \E f \in Graph!Folders : Upsert(k, f, cursor[f]) THEN box[k]
               ELSE IF \E f \in Graph!Folders : Removal(k, f, cursor[f]) THEN Graph!None
               ELSE local[k])' = Wanted(k)'
  <2>1. UNCHANGED <<cursor, local>>
    BY DEF Changes
  <2>2. CASE is # 0
    <3>1. is \in Graph!Folders
      BY <2>2, <1>3 DEF Graph!Folders
    <3>2. PICK l \in Nat : l = cursor[is]
      BY <3>1, <1>4, <1>17
    <3>3. Upsert(k, is, l)'
      BY <2>2, <3>1, <3>2, <1>4, <1>6, <1>17
    <3>4. (\E f \in Graph!Folders : Upsert(k, f, cursor[f]))'
      BY <2>1, <3>1, <3>2, <3>3 DEF Upsert, Reported
    <3> QED BY <3>4, <2>2, <1>9
  <2>3. CASE is = 0
    <3>1. was # 0 /\ was # is /\ was \in Graph!Folders
      BY <2>3, <1>3, <1>5 DEF Graph!Folders
    <3>2. ~(\E f \in Graph!Folders : Upsert(k, f, cursor[f]))'
      BY <2>3, <1>0 DEF Upsert, Graph!Folders
    <3>3. PICK l \in Nat : l = cursor[was]
      BY <3>1, <1>4, <1>17
    <3>4. CASE l <= Len(changes)
      <4>1. Removal(k, was, l)'
        BY <3>1, <3>4, <1>8
      <4>2. (\E f \in Graph!Folders : Removal(k, f, cursor[f]))'
        BY <2>1, <3>1, <3>3, <4>1 DEF Removal, Reported
      <4> QED BY <4>2, <3>2, <2>3, <1>9
    <3>5. CASE l = Graph!Sentinel
      <4>1. was \in DOMAIN cursor
        BY <3>1, <1>17 DEF LinkInv, Shape, Graph!Links
      <4>2. \E g \in DOMAIN cursor : cursor[g] = Graph!Sentinel
        BY <4>1, <3>3, <3>5
      <4>3. /\ box'[k].folder = 0 /\ local[k] # Graph!None
            /\ \E g \in DOMAIN cursor : cursor[g] = Graph!Sentinel
            => k \in ghosts'
        BY Zenon DEF Changes
      <4>4. local[k] = Graph!None
        BY <4>2, <4>3, <2>3, <1>0, <1>17
      <4> QED BY <4>4, <3>2, <2>1, <2>3, <1>9
    <3> QED BY <3>1, <3>3, <3>4, <3>5, <1>4, <1>17
  <2> QED BY <2>2, <2>3
<1>18. Graph!LinksLead'
  <2> SUFFICES ASSUME cursor # Graph!NoCursor, NEW m \in Graph!Mails,
                      m \notin crossed, m \notin ghosts'
               PROVE  (Graph!Followed(m) = IF box[m].folder = 0 THEN Graph!None ELSE box[m])'
    BY DEF Graph!LinksLead, Graph!Away, Changes
  <2>1. ((IF \E f \in Graph!Folders : Upsert(m, f, cursor[f]) THEN box[m]
          ELSE IF \E f \in Graph!Folders : Removal(m, f, cursor[f]) THEN Graph!None
          ELSE local[m]) = Wanted(m))'
    BY <1>2, <1>17
  <2>2. cursor' # Graph!NoCursor
    BY DEF Changes
  <2> QED BY <2>1, <2>2, <1>10, <1>11, LeadsMeansNext DEF LeadsHere
<1> QED BY <1>10, <1>11, <1>12, <1>13, <1>14, <1>16, <1>18 DEF LinkInv

\* The two changes of the mailbox are such changes.
LEMMA MarkChanges ==
    ASSUME LinkInv, NEW k \in Graph!Mails, Graph!Mark(k)
    PROVE  Changes(k, [msg |-> k, in |-> {box[k].folder}])
           /\ [msg |-> k, in |-> {box[k].folder}] \in Change
<1> DEFINE new == [box[k] EXCEPT !.read = ~@]
<1>1. /\ box[k].folder # 0 /\ Len(changes) < MaxChanges
      /\ box' = [box EXCEPT ![k].read = ~@]
      /\ changes' = Append(changes, [msg |-> k, in |-> {box[k].folder}])
      /\ UNCHANGED <<cursor, local, pull, crossed, ghosts, errors>>
  BY DEF Graph!Mark, Graph!Away
<1>2. /\ box \in Graph!Found /\ box[k] \in Graph!Message /\ box[k].folder \in Graph!Folders
      /\ box[k].read \in BOOLEAN
  BY <1>1, GraphFacts, MailAssumption DEF LinkInv, Graph!TypeOK, Graph!Folders
<1>3. box' = [box EXCEPT ![k] = new]
  BY <1>1, <1>2, Zenon
<1>4. new \in Graph!Message /\ new.folder = box[k].folder
  BY <1>2 DEF Graph!Message
<1> HIDE DEF new
<1>5. /\ box' \in Graph!Found /\ box'[k] = new
      /\ \A m \in Graph!Mails : m # k => box'[m] = box[m]
  BY <1>2, <1>3, <1>4 DEF Graph!Found
<1>6. pull' \in Pull /\ pull'.left = pull.left
  BY <1>1 DEF LinkInv, Graph!TypeOK, Pull
<1>7. [msg |-> k, in |-> {box[k].folder}] \in Change
  BY <1>2 DEF Change
<1> DEFINE e == [msg |-> k, in |-> {box[k].folder}]
<1>8. /\ box'[k] \in Graph!Message /\ box'[k].folder = box[k].folder /\ box[k].folder # 0
      /\ e.msg = k /\ e.in = {box[k].folder} /\ e \in Change /\ changes' = Append(changes, e)
  BY <1>1, <1>4, <1>5, <1>7
<1> HIDE DEF e
<1>9. Changes(k, e)
  BY <1>1, <1>5, <1>6, <1>8 DEF Changes
<1> QED BY <1>8, <1>9 DEF e

LEMMA MoveChanges ==
    ASSUME LinkInv, NEW k \in Graph!Mails, NEW f \in Graph!Folders \cup {Graph!Away},
           Graph!Move(k, f)
    PROVE  Changes(k, [msg |-> k, in |-> {f, box[k].folder} \ {0}])
           /\ [msg |-> k, in |-> {f, box[k].folder} \ {0}] \in Change
<1> DEFINE b == box[k].read /\ f # 0
           new == [folder |-> f, read |-> b]
           moved == [box[k] EXCEPT !.folder = f]
           left == pull.left \cup {k}
<1>1. /\ f # box[k].folder /\ Len(changes) < MaxChanges
      /\ box' = [box EXCEPT ![k].folder = f, ![k].read = @ /\ f # 0]
      /\ changes' = Append(changes, [msg |-> k, in |-> {f, box[k].folder} \ {0}])
      /\ pull' = IF pull.pc \in {"delta", "again"} /\ box[k].folder \in 1..(pull.at - 1)
                 THEN [pull EXCEPT !.left = @ \cup {k}] ELSE pull
      /\ ghosts' = IF f = 0 /\ local[k] # Graph!None
                      /\ \E g \in DOMAIN cursor : cursor[g] = Graph!Sentinel
                   THEN ghosts \cup {k} ELSE ghosts
      /\ UNCHANGED <<cursor, local, crossed, errors>>
  BY DEF Graph!Move, Graph!Away
<1>2. /\ box \in Graph!Found /\ box[k] \in Graph!Message /\ box[k].read \in BOOLEAN
      /\ box[k].folder \in 0..MaxFolder /\ f \in 0..MaxFolder
      /\ \A g \in 0..MaxFolder : g # 0 => g \in Graph!Folders
      /\ f # 0 => f \in Graph!Folders
  BY GraphFacts, MailAssumption DEF LinkInv, Graph!TypeOK, Graph!Folders, Graph!Away
<1>3. box' = [box EXCEPT ![k] = new]
  <2> DEFINE a == [box EXCEPT ![k] = moved]
  <2>1. moved = [folder |-> f, read |-> box[k].read]
    BY <1>2 DEF Graph!Message
  <2>2. a[k] = moved /\ a = [box EXCEPT ![k] = moved]
    BY <1>2 DEF Graph!Found
  <2>3. box' = [a EXCEPT ![k] = [a[k] EXCEPT !.read = a[k].read /\ f # 0]]
    BY <1>1, Zenon
  <2>4. [a[k] EXCEPT !.read = a[k].read /\ f # 0] = new
    <3>1. a[k].read /\ f # 0 <=> b
      BY <2>1, <2>2
    <3> HIDE DEF a, moved
    <3>2. [a[k] EXCEPT !.read = b] = [folder |-> f, read |-> b]
      <4> HIDE DEF b
      <4> QED BY <2>1, <2>2
    <3>3. (a[k].read /\ f # 0) = b
      BY <2>1, <2>2
    <3> QED BY <3>2, <3>3, Zenon
  <2> HIDE DEF moved, new
  <2>5. box' = [a EXCEPT ![k] = new]
    BY <2>3, <2>4, Zenon
  <2> QED BY <2>5, <1>2 DEF Graph!Found
<1>4. /\ new \in Graph!Message /\ new.folder = f
      /\ f = 0 => new = Graph!None
  BY <1>2 DEF Graph!Message, Graph!None, Graph!Away
<1> HIDE DEF new
<1>5. /\ box' \in Graph!Found /\ box'[k] = new
      /\ \A m \in Graph!Mails : m # k => box'[m] = box[m]
  BY <1>2, <1>3, <1>4 DEF Graph!Found
<1>6. /\ pull' \in Pull /\ pull'.left \in {pull.left, pull.left \cup {k}}
      /\ pull'.pc = pull.pc /\ pull'.at = pull.at /\ pull'.next = pull.next
      /\ pull'.found = pull.found /\ pull'.gone = pull.gone /\ pull'.crossed = pull.crossed
      /\ pull.pc \in {"delta", "again"} /\ box[k].folder \in Read => k \in pull'.left
  <2>1. pull \in Pull
    BY DEF LinkInv, Graph!TypeOK, Pull
  <2>2. left \in SUBSET Graph!Mails /\ k \in left
    BY <2>1 DEF Pull
  <2>3. pull' = IF pull.pc \in {"delta", "again"} /\ box[k].folder \in Read
                THEN [pull EXCEPT !.left = left] ELSE pull
    BY <1>1, <2>1 DEF Read, Pull
  <2> QED
    <3>1. left = pull.left \cup {k}
      OBVIOUS
    <3> HIDE DEF left
    <3> QED BY <2>1, <2>2, <2>3, <3>1 DEF Pull
<1>7. [msg |-> k, in |-> {f, box[k].folder} \ {0}] \in Change
  BY <1>2 DEF Change
<1>8. ghosts' \in {ghosts, ghosts \cup {k}} /\ (ghosts' # ghosts => cursor # Graph!NoCursor)
  BY <1>1 DEF Graph!NoCursor
<1> DEFINE e == [msg |-> k, in |-> {f, box[k].folder} \ {0}]
<1>9. /\ box'[k] \in Graph!Message /\ box'[k].folder = f
      /\ box'[k].folder = 0 => box'[k] = Graph!None
  BY <1>4, <1>5
<1>10. /\ e.msg = k
       /\ box[k].folder # 0 => box[k].folder \in e.in
       /\ f # 0 => f \in e.in
       /\ \A g \in e.in : g = box[k].folder \/ g = f
       /\ e \in Change /\ changes' = Append(changes, e)
  BY <1>1, <1>7
<1>11. /\ ghosts' # ghosts => f = 0
       /\ f = 0 /\ local[k] # Graph!None /\ (\E g \in DOMAIN cursor : cursor[g] = Graph!Sentinel)
          => k \in ghosts'
  BY <1>1
<1> HIDE DEF e
<1>12. Changes(k, e)
  BY <1>1, <1>5, <1>6, <1>8, <1>9, <1>10, <1>11 DEF Changes
<1> QED BY <1>10, <1>12 DEF e

-----------------------------------------------------------------------------
(* The theorem.                                                               *)

LEMMA LinksInit ==
    ASSUME MailInit
    PROVE  LinkInv
<1>1. /\ box \in [Graph!Mails -> {Graph!None} \cup [folder : {1}, read : {FALSE}]]
      /\ changes = <<>> /\ cursor = Graph!NoCursor /\ local = Graph!Nothing
      /\ pull = Graph!Idle /\ crossed = {} /\ ghosts = {} /\ errors = 0
  BY DEF MailInit, Graph!Init
<1>2. pull \in Pull /\ pull.pc = "idle"
  BY <1>1, IdleFacts
<1>3. {Graph!None} \cup [folder : {1}, read : {FALSE}] \subseteq Graph!Message
  <2>1. 1 \in Graph!Folders \cup {Graph!Away} /\ 0 \in Graph!Folders \cup {Graph!Away}
    BY MailAssumption DEF Graph!Folders, Graph!Away
  <2>2. Graph!None \in Graph!Message
    BY <2>1 DEF Graph!None, Graph!Message, Graph!Away
  <2>3. [folder : {1}, read : {FALSE}] \subseteq Graph!Message
    BY <2>1 DEF Graph!Message
  <2> QED BY <2>2, <2>3
<1>4. Graph!TypeOK
  <2>1. box \in Graph!Found /\ local \in Graph!Found
    BY <1>1, <1>3 DEF Graph!Found, Graph!Nothing, Graph!None, Graph!Message, Graph!Away
  <2>2. changes \in Seq([msg : Graph!Mails, in : SUBSET Graph!Folders]) /\ Len(changes) = 0
    BY <1>1
  <2> QED BY <1>1, <1>2, <2>1, <2>2, MailAssumption DEF Graph!TypeOK, Pull
<1>5. Shape
  <2>1. \A m \in Graph!Mails : box[m].folder = 0 => box[m] = Graph!None
    <3> SUFFICES ASSUME NEW m \in Graph!Mails, box[m].folder = 0 PROVE box[m] = Graph!None
      OBVIOUS
    <3>1. box[m] = Graph!None \/ box[m] \in [folder : {1}, read : {FALSE}]
      BY <1>1
    <3>2. box[m] \in [folder : {1}, read : {FALSE}] => box[m].folder # 0
      <4>1. \A x \in [folder : {1}, read : {FALSE}] : x.folder = 1
        OBVIOUS
      <4>2. 1 # 0
        OBVIOUS
      <4> QED BY <4>1, <4>2, Zenon
    <3> QED BY <3>1, <3>2, Zenon
  <2> QED BY <1>1, <1>2, <2>1 DEF Shape
<1> QED BY <1>1, <1>2, <1>4, <1>5
        DEF LinkInv, LeftSeen, FoundSeen, GhostSeen, PullLeads, Graph!LinksLead

LEMMA LinksNext ==
    ASSUME LinkInv, [MailNext]_<<part, vars, graphVars>>
    PROVE  LinkInv'
<1>1. ASSUME UNCHANGED graphVars PROVE LinkInv'
  BY <1>1 DEF graphVars, LinkInv, Graph!TypeOK, Shape, LeftSeen, FoundSeen, GhostSeen,
              PullLeads, Crosses, Haunts, Outcome, Stores, HasUpsert, HasRemoval,
              WillUpsert, WillRemove, IsFound, Link, Read, Ahead, Wanted, Upsert, Removal,
              Reported, Graph!LinksLead, Graph!Followed, Graph!Upserts, Graph!Removals,
              Graph!In, Graph!Since
<1>2. ASSUME NEW m \in Graph!Mails, Graph!Mark(m) PROVE LinkInv'
  BY <1>2, MarkChanges, ChangeKeeps
<1>3. ASSUME NEW m \in Graph!Mails, NEW f \in Graph!Folders \cup {Graph!Away},
             Graph!Move(m, f)
      PROVE  LinkInv'
  BY <1>3, MoveChanges, ChangeKeeps
<1>4. ASSUME Graph!FetchDeltas PROVE LinkInv'
  <2> DEFINE p == IF cursor = Graph!NoCursor THEN "list" ELSE "delta"
  <2>1. /\ pull' = [Graph!Idle EXCEPT !.pc = p]
        /\ UNCHANGED <<box, changes, cursor, local, crossed, ghosts, errors>>
    BY <1>4 DEF Graph!FetchDeltas
  <2>2. errors' \in 0..MaxErrors
    BY <2>1 DEF LinkInv, Graph!TypeOK
  <2>3. p \in {"list", "delta", "again"} /\ (p = "list" <=> cursor = Graph!NoCursor)
    OBVIOUS
  <2> HIDE DEF p
  <2> QED BY <2>1, <2>2, <2>3, BeginsKeeps
<1>5. ASSUME Graph!LinkExpires PROVE LinkInv'
  <2> DEFINE p == "again"
  <2>1. /\ pull' = [Graph!Idle EXCEPT !.pc = p] /\ cursor # Graph!NoCursor
        /\ UNCHANGED <<box, changes, cursor, local, crossed, ghosts>>
        /\ errors' \in 0..MaxErrors
    BY <1>5, MailAssumption DEF Graph!LinkExpires, LinkInv, Graph!TypeOK, Shape
  <2>2. p \in {"list", "delta", "again"} /\ (p = "list" <=> cursor = Graph!NoCursor)
    BY <2>1
  <2> HIDE DEF p
  <2> QED BY <2>1, <2>2, BeginsKeeps
<1>6. ASSUME Graph!Next PROVE LinkInv'
  BY <1>2, <1>3, <1>4, <1>5, <1>6, ListMessagesKeeps, FolderDeltaKeeps, PullFailsKeeps,
     PullDeltasKeeps DEF Graph!Next
<1> QED BY <1>1, <1>6 DEF MailNext

\* From every point the links of a Microsoft account lead to its mailbox, but for the
\* messages counted as crossed or as ghosts.
THEOREM LinksAlwaysLead == MailSpec => []LinksLead
<1>1. MailInit => LinkInv
  BY LinksInit
<1>2. LinkInv /\ [MailNext]_<<part, vars, graphVars>> => LinkInv'
  BY LinksNext
<1>3. LinkInv => LinksLead
  BY DEF LinkInv, LinksLead
<1> QED BY <1>1, <1>2, <1>3, PTL DEF MailSpec
-----------------------------------------------------------------------------
(* Gmail: what the history says of a message.                                 *)

\* The changes of m: before cursor c, those of them behind the last listing that left m
\* out, those behind version v, and whether the history from c on still has to say that m
\* is expunged.
Saw(m, c) == \E i \in 1..(c - 1) : log[i] = m
Needed(m, c) == \E i \in cut[m]..(c - 1) : log[i] = m
Between(m, v, c) == \E i \in (v + 1)..(c - 1) : log[i] = m
Due(m, c) == m \in gone /\ (c = 0 \/ \E i \in c..Len(log) : log[i] = m)

\* The mailbox d is that of cursor c: no version in it is stale.
FreshAt(d, c) ==
    \A m \in Messages : d.msgs[m] # 0 /\ ~Due(m, c) => ~Between(m, d.msgs[m], c)
CompleteAt(d, c) == \A m \in Inbox \ gone : Needed(m, c) => d.msgs[m] # 0

-----------------------------------------------------------------------------
(* A call c.                                                                  *)

Early == {"idle", "asked", "profiled", "loading", "loaded"}
Loading == {"loading", "loaded"}
Late == {"labels", "batch", "index"}

\* What the fields of a call have in common with the Maps and the store.
CallShape(c) ==
    /\ c.pc # "idle" => ready /\ c.from = mem.cursor
    /\ c.op = "label" =>
        c.pc \notin {"profiled", "labels"} /\ ~c.full /\ c.dels = {} /\ c.attDels = {}
    /\ c.pc = "index" => disk.cursor = c.token /\ \A m \in c.ids : c.got[m] # 0
    /\ c.pc \in {"idle", "asked", "profiled"} => c.got = NoMail /\ c.dels = {}
    /\ c.pc = "asked" => ~c.full
    /\ c.pc = "profiled" => c.full
    /\ c.pc = "loaded" => c.ids = {}
    /\ c.full /\ c.pc \in Loading => c.dels = {}
    /\ \A m \in c.dels : c.got[m] = 0 /\ m \notin c.ids

\* The cursor it will leave was given after the one it started from.
CallTokens(c) ==
    /\ c.op = "pull" /\ c.pc \notin {"idle", "asked"} =>
        /\ c.from <= c.token /\ 1 <= c.token /\ c.token <= Now
        /\ c.full \/ c.from # 0
    /\ c.pc = "profiled" => \A m \in Messages : cut[m] <= c.token
    /\ c.op = "label" /\ c.pc \in {"batch", "index"} =>
        c.token = IF c.from = 0 THEN 1 ELSE c.from

\* What was loaded is as new as that cursor, the one of a label sync as the cursor it had.
GotFresh(c) ==
    \A m \in Messages : c.got[m] # 0 =>
        /\ c.got[m] <= Len(log)
        /\ ~Between(m, c.got[m], IF c.op = "pull" THEN c.token ELSE c.from)

\* Every message of the inbox before the new cursor is loaded, or to be, or was there.
WillBeComplete(c) ==
    c.op = "pull" =>
        /\ c.pc \in Loading =>
            /\ \A m \in Inbox \ gone : Needed(m, c.token) =>
                m \in c.ids \/ c.got[m] # 0 \/ (~c.full /\ Needed(m, c.from))
            /\ ~c.full => c.dels \subseteq gone
        /\ c.pc \in {"labels", "batch"} =>
            \A m \in Inbox \ gone : Needed(m, c.token) =>
                m \notin c.dels /\ (c.got[m] # 0 \/ (c.from # 0 /\ Needed(m, c.from)))
        /\ c.pc \in Late => CompleteAt(mem, c.token)

\* A history: every change since the cursor is loaded, to be, deleted, or of a message
\* whose end is behind the new cursor.
SeesHistory(c) ==
    c.op = "pull" /\ ~c.full /\ c.pc \in Loading =>
        \A m \in Messages :
            /\ Between(m, c.from - 1, c.token) =>
                m \in c.ids \cup c.dels \/ c.got[m] # 0 \/ Due(m, c.token)
            /\ Between(m, c.from - 1, c.token) /\ m \in gone /\ ~Due(m, c.token) =>
                m \in c.dels
            /\ m \in c.ids /\ m \in gone => Due(m, c.token)

CallOK(c) ==
    CallShape(c) /\ CallTokens(c) /\ GotFresh(c) /\ WillBeComplete(c) /\ SeesHistory(c)

-----------------------------------------------------------------------------
(* The inductive invariant.                                                   *)

\* The last change of a message is there to be chosen.
HasLast ==
    \A m \in Messages : \A u \in 0..Len(log) :
        \/ \A i \in 1..u : log[i] # m
        \/ \E i \in 1..u : log[i] = m /\ \A j \in 1..u : log[j] = m => j <= i

\* Until hydrateLocal has returned there is nothing in the Maps and no call.
StartShape ==
    /\ ~ready =>
        /\ mem.msgs = NoMail /\ mem.atts = {} /\ mem.cursor = 0
        /\ \A s \in Syncs : sync[s] = NoSync
        /\ ipc = IF hydr.pc = "listing" THEN <<"hydrate">> ELSE <<>>
        /\ hydr.pc = "listed" =>
            /\ hydr.read.msgs = disk.msgs /\ hydr.read.atts = disk.atts
            /\ hydr.read.cursor = disk.cursor
    /\ ready => hydr.pc = "idle" /\ \A i \in 1..Len(ipc) : ipc[i] # "hydrate"

CursorShape ==
    /\ \A m \in Messages : 1 <= cut[m] /\ cut[m] <= Now
    /\ mem.cursor <= disk.cursor /\ disk.cursor <= Now
    /\ disk.cursor # 0 => CompleteAt(disk, disk.cursor)
    /\ mem.cursor # 0 => CompleteAt(mem, mem.cursor)

\* The messages and attachments the store will have when the batch of s is executed.
Behind(s) == [msgs |-> [m \in Messages |-> IF m \in sync[s].dels THEN 0
                           ELSE IF sync[s].got[m] # 0 THEN sync[s].got[m] ELSE disk.msgs[m]],
              atts |-> (disk.atts \cup (Upserted(s) \cap Attached)) \ sync[s].attDels]

\* Without failures the Maps are the store, or what it will be.
SameMail ==
    faults = 0 /\ ready =>
        /\ (\A s \in Syncs : sync[s].pc \notin {"labels", "batch"}) =>
            mem.msgs = disk.msgs /\ mem.atts = disk.atts
        /\ \A s \in Syncs : sync[s].pc \in {"labels", "batch"} =>
            mem.msgs = Behind(s).msgs /\ mem.atts = Behind(s).atts
        /\ (\A s \in Syncs : ~(sync[s].pc = "index" /\ sync[s].op = "pull")) =>
            (mem.cursor = disk.cursor) \/ (mem.cursor = 0 /\ disk.cursor = 1)

FreshMail ==
    faults = 0 =>
        /\ FreshAt(disk, disk.cursor)
        /\ ready => FreshAt(mem, mem.cursor)
        /\ \A s \in Syncs : sync[s].pc \in Late => FreshAt(mem, sync[s].token)
        /\ \A m \in disk.atts : disk.msgs[m] # 0
        /\ ready => \A m \in mem.atts : mem.msgs[m] # 0

Indexed ==
    faults = 0 /\ crashes = 0 =>
        /\ \A m \in Messages : disk.msgs[m] # 0 =>
            \/ disk.index[m] = disk.msgs[m]
            \/ \E s \in Syncs : sync[s].pc = "index" /\ m \in sync[s].ids
        /\ \A s \in Syncs : sync[s].pc = "index" =>
            \A m \in sync[s].ids : disk.msgs[m] = sync[s].got[m]

StoreInv ==
    /\ TypeOK /\ HasLast /\ StartShape /\ CursorShape
    /\ \A s \in Syncs : CallOK(sync[s])
    /\ SameMail /\ FreshMail /\ Indexed

\* One call at a time.
OneAtATime == \A s, t \in Syncs : s = t

-----------------------------------------------------------------------------
(* Types.                                                                     *)

LEMMA MailFacts ==
    ASSUME TypeOK
    PROVE  /\ Len(log) \in Nat /\ Len(log) <= MaxLog /\ Now \in Cursors
           /\ \A i \in 1..Len(log) : log[i] \in Messages
           /\ mem.msgs \in [Messages -> Versions] /\ mem.atts \subseteq Messages
           /\ mem.cursor \in Cursors
           /\ disk.msgs \in [Messages -> Versions] /\ disk.atts \subseteq Messages
           /\ disk.cursor \in Cursors /\ disk.index \in [Messages -> Versions]
           /\ \A s \in Syncs :
                 /\ sync[s] \in Sync
                 /\ sync[s].from \in Cursors /\ sync[s].token \in Cursors
                 /\ sync[s].ids \subseteq Messages /\ sync[s].got \in [Messages -> Versions]
                 /\ sync[s].dels \subseteq Messages /\ sync[s].attDels \subseteq Messages
                 /\ sync[s].full \in BOOLEAN /\ sync[s].op \in {"pull", "label"}
<1>1. Len(log) \in Nat /\ Len(log) <= MaxLog /\ Now \in Cursors
  BY MailSyncAssumption DEF TypeOK, Now, Cursors
<1>2. \A i \in 1..Len(log) : log[i] \in Messages
  BY DEF TypeOK
<1>3. /\ mem.msgs \in [Messages -> Versions] /\ mem.atts \subseteq Messages
      /\ mem.cursor \in Cursors
  BY DEF TypeOK, Mail
<1>4. /\ disk.msgs \in [Messages -> Versions] /\ disk.atts \subseteq Messages
      /\ disk.cursor \in Cursors /\ disk.index \in [Messages -> Versions]
  BY DEF TypeOK, Store
<1>5. ASSUME NEW s \in Syncs
      PROVE  /\ sync[s] \in Sync
             /\ sync[s].from \in Cursors /\ sync[s].token \in Cursors
             /\ sync[s].ids \subseteq Messages /\ sync[s].got \in [Messages -> Versions]
             /\ sync[s].dels \subseteq Messages /\ sync[s].attDels \subseteq Messages
             /\ sync[s].full \in BOOLEAN /\ sync[s].op \in {"pull", "label"}
  <2>1. sync[s] \in Sync
    BY DEF TypeOK
  <2> QED BY <2>1 DEF Sync
<1> QED BY <1>1, <1>2, <1>3, <1>4, <1>5

\* The last change of m among the first u, when there is one.
LEMMA LastFacts ==
    ASSUME TypeOK, HasLast, NEW m \in Messages, NEW u \in 0..Len(log)
    PROVE  /\ LastChange(m, u) \in 0..u
           /\ LastChange(m, u) = 0 <=> \A i \in 1..u : log[i] # m
           /\ \A i \in 1..u : log[i] = m => i <= LastChange(m, u)
<1> DEFINE seen == {i \in 1..u : log[i] = m}
<1>1. u \in Nat
  BY MailFacts
<1>2. CASE \A i \in 1..u : log[i] # m
  <2>1. seen = {}
    BY <1>2
  <2>2. LastChange(m, u) = 0
    BY <2>1 DEF LastChange
  <2> QED BY <1>1, <1>2, <2>2
<1>3. CASE \E i \in 1..u : log[i] = m /\ \A j \in 1..u : log[j] = m => j <= i
  <2>1. PICK i \in 1..u : log[i] = m /\ \A j \in 1..u : log[j] = m => j <= i
    BY <1>3
  <2>2. \E x \in seen : \A j \in seen : j <= x
    BY <2>1
  <2>3. seen # {} /\ LastChange(m, u) = CHOOSE x \in seen : \A j \in seen : j <= x
    BY <2>1 DEF LastChange
  <2>4. LastChange(m, u) \in seen /\ \A j \in seen : j <= LastChange(m, u)
    BY <2>2, <2>3
  <2> QED BY <1>1, <2>4
<1> QED BY <1>2, <1>3 DEF HasLast

\* The Maps or records d with other messages and attachments.
With(d, f, a) == [d EXCEPT !.msgs = f, !.atts = a]

LEMMA WithFacts ==
    ASSUME NEW d \in Mail \cup Store,
           NEW f \in [Messages -> Versions], NEW a \in SUBSET Messages
    PROVE  /\ With(d, f, a).msgs = f /\ With(d, f, a).atts = a
           /\ With(d, f, a).cursor = d.cursor
           /\ d \in Mail => With(d, f, a) \in Mail
           /\ d \in Store => With(d, f, a) \in Store /\ With(d, f, a).index = d.index
<1>1. CASE d \in Mail
  <2>1. d \notin Store
    <3>1. d \in Mail => DOMAIN d = {"msgs", "atts", "cursor"}
      BY DEF Mail
    <3>2. d \in Store => "index" \in DOMAIN d
      BY DEF Store
    <3> QED BY <1>1, <3>1, <3>2
  <2> QED BY <1>1, <2>1 DEF Mail, With
<1>2. CASE d \in Store
  <2>1. d \notin Mail
    <3>1. d \in Mail => DOMAIN d = {"msgs", "atts", "cursor"}
      BY DEF Mail
    <3>2. d \in Store => "index" \in DOMAIN d
      BY DEF Store
    <3> QED BY <1>2, <3>1, <3>2
  <2> QED BY <1>2, <2>1 DEF Store, With
<1> QED BY <1>1, <1>2

\* What call s adds to d.
LEMMA Added ==
    ASSUME TypeOK, NEW s \in Syncs, NEW d, d \in Mail \/ d \in Store
    PROVE  /\ \A m \in Messages : WithUpserts(d, s).msgs[m] =
                 IF sync[s].got[m] # 0 THEN sync[s].got[m] ELSE d.msgs[m]
           /\ WithUpserts(d, s).atts = d.atts \cup (Upserted(s) \cap Attached)
           /\ WithUpserts(d, s).cursor = d.cursor
           /\ d \in Mail => WithUpserts(d, s) \in Mail
           /\ d \in Store => WithUpserts(d, s) \in Store /\ WithUpserts(d, s).index = d.index
<1> DEFINE up == [m \in Messages |-> IF m \in Upserted(s) THEN sync[s].got[m] ELSE d.msgs[m]]
           ua == d.atts \cup (Upserted(s) \cap Attached)
<1>1. d.msgs \in [Messages -> Versions] /\ d.atts \subseteq Messages
  BY DEF Mail, Store
<1>2. up \in [Messages -> Versions]
  BY <1>1, MailFacts
<1>3. ua \in SUBSET Messages
  BY <1>1 DEF Upserted
<1>4. WithUpserts(d, s) = With(d, up, ua)
  BY DEF WithUpserts, With
<1>5. \A m \in Messages : up[m] = IF sync[s].got[m] # 0 THEN sync[s].got[m] ELSE d.msgs[m]
  BY DEF Upserted
<1> HIDE DEF up, ua
<1>6. /\ WithUpserts(d, s).msgs = up /\ WithUpserts(d, s).atts = ua
      /\ WithUpserts(d, s).cursor = d.cursor
      /\ d \in Mail => WithUpserts(d, s) \in Mail
      /\ d \in Store => WithUpserts(d, s) \in Store /\ WithUpserts(d, s).index = d.index
  BY <1>2, <1>3, <1>4, WithFacts
<1> QED BY <1>5, <1>6 DEF ua

\* What is deleted of d.
LEMMA Deleted ==
    ASSUME NEW d, d \in Mail \/ d \in Store, NEW D, NEW A
    PROVE  /\ \A m \in Messages : Without(d, D, A).msgs[m] = IF m \in D THEN 0 ELSE d.msgs[m]
           /\ Without(d, D, A).atts = d.atts \ A
           /\ Without(d, D, A).cursor = d.cursor
           /\ d \in Mail => Without(d, D, A) \in Mail
           /\ d \in Store => Without(d, D, A) \in Store /\ Without(d, D, A).index = d.index
<1> DEFINE wo == [m \in Messages |-> IF m \in D THEN 0 ELSE d.msgs[m]]
           wa == d.atts \ A
<1>1. d.msgs \in [Messages -> Versions] /\ d.atts \subseteq Messages
  BY DEF Mail, Store
<1>2. wo \in [Messages -> Versions]
  BY <1>1, MailSyncAssumption DEF Versions
<1>3. wa \in SUBSET Messages
  BY <1>1
<1>4. Without(d, D, A) = With(d, wo, wa)
  BY DEF Without, With
<1>5. \A m \in Messages : wo[m] = IF m \in D THEN 0 ELSE d.msgs[m]
  OBVIOUS
<1> HIDE DEF wo, wa
<1>6. /\ Without(d, D, A).msgs = wo /\ Without(d, D, A).atts = wa
      /\ Without(d, D, A).cursor = d.cursor
      /\ d \in Mail => Without(d, D, A) \in Mail
      /\ d \in Store => Without(d, D, A) \in Store /\ Without(d, D, A).index = d.index
  BY <1>2, <1>3, <1>4, WithFacts
<1> QED BY <1>5, <1>6 DEF wa

\* Changes are counted, and a new one is the last of its message.
LEMMA AppendFacts ==
    ASSUME TypeOK, NEW m \in Messages, ProviderChanges(m)
    PROVE  /\ log' \in Seq(Messages) /\ Len(log') = Len(log) + 1 /\ Len(log') <= MaxLog
           /\ \A i \in 1..Len(log) : log'[i] = log[i]
           /\ log'[Len(log) + 1] = m
<1> QED BY MailFacts, MailSyncAssumption DEF ProviderChanges, TypeOK

\* Who changes the history, and who the store.
LEMMA Frames ==
    ASSUME Next
    PROVE  /\ UNCHANGED log \/ \E m \in Messages : ProviderChanges(m)
           /\ UNCHANGED disk \/ \E s \in Syncs : BatchExecutes(s) \/ IndexExecutes(s)
<1>1. ASSUME NEW s \in Syncs, SyncStep(s)
      PROVE  UNCHANGED log /\ (UNCHANGED disk \/ BatchExecutes(s) \/ IndexExecutes(s))
  <2>1. ASSUME Start(s, "pull") \/ Start(s, "label") PROVE UNCHANGED <<log, disk>>
    BY <2>1 DEF Start
  <2>2. ASSUME ReadHistory(s) PROVE UNCHANGED <<log, disk>>
    BY <2>2 DEF ReadHistory
  <2>3. ASSUME ReadProfile(s) \/ Loaded(s) PROVE UNCHANGED <<log, disk>>
    BY <2>3 DEF ReadProfile, Loaded
  <2>4. ASSUME ListMessages(s) PROVE UNCHANGED <<log, disk>>
    BY <2>4 DEF ListMessages
  <2>5. ASSUME NEW m \in Messages, LoadMessage(s, m) PROVE UNCHANGED <<log, disk>>
    BY <2>5 DEF LoadMessage
  <2>6. ASSUME ApplyDeltas(s) PROVE UNCHANGED <<log, disk>>
    BY <2>6 DEF ApplyDeltas, AppliesDeltas
  <2>7. ASSUME ApplyFound(s) \/ LabelsArrive(s) PROVE UNCHANGED <<log, disk>>
    BY <2>7 DEF ApplyFound, LabelsArrive
  <2>8. ASSUME RequestFails(s) \/ StoreRejects(s) PROVE UNCHANGED <<log, disk>>
    BY <2>8 DEF RequestFails, StoreRejects
  <2>9. ASSUME BatchExecutes(s) \/ IndexExecutes(s) PROVE UNCHANGED log
    BY <2>9 DEF BatchExecutes, IndexExecutes
  <2> QED BY <1>1, <2>1, <2>2, <2>3, <2>4, <2>5, <2>6, <2>7, <2>8, <2>9 DEF SyncStep
<1>2. ASSUME HydrateStart \/ ListsExecute \/ ListsRejected PROVE UNCHANGED <<log, disk>>
  BY <1>2 DEF HydrateStart, ListsExecute, ListsRejected
<1>3. ASSUME HydrateSets \/ Restart PROVE UNCHANGED <<log, disk>>
  BY <1>3 DEF HydrateSets, Restart
<1>4. ASSUME NEW m \in Messages, ProviderChanges(m) PROVE UNCHANGED disk
  BY <1>4 DEF ProviderChanges
<1> QED BY <1>1, <1>2, <1>3, <1>4 DEF Next

LEMMA HasLastNext == TypeOK /\ HasLast /\ (Next \/ UNCHANGED vars) => HasLast'
<1>1. ASSUME TypeOK, HasLast, NEW m \in Messages, ProviderChanges(m)
      PROVE  HasLast'
  <2> SUFFICES ASSUME NEW x \in Messages, NEW u \in 0..Len(log')
               PROVE  \/ \A i \in 1..u : log'[i] # x
                      \/ \E i \in 1..u : log'[i] = x /\ \A j \in 1..u : log'[j] = x => j <= i
    BY DEF HasLast
  <2>1. Len(log) \in Nat
    BY <1>1, MailFacts
  <2>2. CASE u \in 0..Len(log)
    <3>1. \A i \in 1..u : log'[i] = log[i]
      BY <1>1, <2>1, <2>2, AppendFacts
    <3> QED BY <1>1, <2>2, <3>1 DEF HasLast
  <2>3. CASE u = Len(log) + 1 /\ x = m
    <3>1. u \in 1..u /\ log'[u] = x /\ \A j \in 1..u : j <= u
      BY <1>1, <2>1, <2>3, AppendFacts
    <3> QED BY <3>1
  <2>4. CASE u = Len(log) + 1 /\ x # m
    <3>1. \A i \in 1..u : log'[i] = x <=> i \in 1..Len(log) /\ log[i] = x
      BY <1>1, <2>1, <2>4, AppendFacts
    <3>2. Len(log) \in 0..Len(log) /\ 1..Len(log) \subseteq 1..u
      BY <2>1, <2>4
    <3>3. \/ \A i \in 1..Len(log) : log[i] # x
          \/ \E i \in 1..Len(log) :
                log[i] = x /\ \A j \in 1..Len(log) : log[j] = x => j <= i
      BY <1>1, <3>2 DEF HasLast
    <3>4. CASE \A i \in 1..Len(log) : log[i] # x
      BY <3>1, <3>4
    <3>5. CASE \E i \in 1..Len(log) :
                  log[i] = x /\ \A j \in 1..Len(log) : log[j] = x => j <= i
      <4>1. PICK i \in 1..Len(log) :
               log[i] = x /\ \A j \in 1..Len(log) : log[j] = x => j <= i
        BY <3>5
      <4>2. i \in 1..u /\ log'[i] = x /\ \A j \in 1..u : log'[j] = x => j <= i
        BY <3>1, <3>2, <4>1
      <4> QED BY <4>2
    <3> QED BY <3>3, <3>4, <3>5
  <2>5. Len(log') = Len(log) + 1
    BY <1>1, AppendFacts
  <2>6. u \in 0..Len(log) \/ u = Len(log) + 1
    BY <2>1, <2>5
  <2> QED BY <2>2, <2>3, <2>4, <2>6
<1>2. ASSUME HasLast, UNCHANGED log
      PROVE  HasLast'
  BY <1>2 DEF HasLast
<1>3. Next => UNCHANGED log \/ \E m \in Messages : ProviderChanges(m)
  BY Frames
<1> QED BY <1>1, <1>2, <1>3 DEF vars

-----------------------------------------------------------------------------
(* What a step makes of its call.                                             *)

Moves(s, pc) ==
    /\ sync' \in [Syncs -> Sync]
    /\ sync'[s].pc = pc /\ sync'[s].op = sync[s].op /\ sync'[s].from = sync[s].from
    /\ sync'[s].attDels = sync[s].attDels
    /\ \A t \in Syncs \ {s} : sync'[t] = sync[t]

LEMMA NoSyncTyped ==
    NoSync \in Sync /\ NoMail \in [Messages -> Versions] /\ 0 \in Versions /\ 0 \in Cursors
<1>1. 0 \in Versions /\ 0 \in Cursors
  BY MailSyncAssumption DEF Versions, Cursors
<1> QED BY <1>1 DEF NoSync, NoMail, Sync

LEMMA StartCall ==
    ASSUME TypeOK, NEW s \in Syncs, NEW op \in {"pull", "label"}, Start(s, op)
    PROVE  /\ sync' \in [Syncs -> Sync] /\ \A t \in Syncs \ {s} : sync'[t] = sync[t]
           /\ sync'[s].pc = "asked" /\ sync'[s].op = op /\ sync'[s].from = mem.cursor
           /\ sync'[s].got = NoMail /\ sync'[s].dels = {} /\ sync'[s].attDels = {}
           /\ sync'[s].full = FALSE /\ sync'[s].ids = {}
<1>1. NoSync \in Sync /\ mem.cursor \in Cursors /\ sync \in [Syncs -> Sync]
  BY NoSyncTyped, MailFacts DEF TypeOK
<1> DEFINE x == [NoSync EXCEPT !.pc = "asked", !.op = op, !.from = mem.cursor]
<1>2. /\ x \in Sync /\ x.pc = "asked" /\ x.op = op /\ x.from = mem.cursor
      /\ x.got = NoSync.got /\ x.dels = NoSync.dels /\ x.attDels = NoSync.attDels
      /\ x.full = NoSync.full /\ x.ids = NoSync.ids
  BY <1>1 DEF Sync
<1>3. /\ NoSync.got = NoMail /\ NoSync.dels = {} /\ NoSync.attDels = {}
      /\ NoSync.full = FALSE /\ NoSync.ids = {}
  BY DEF NoSync
<1>4. sync' = [sync EXCEPT ![s] = x]
  BY DEF Start
<1> HIDE DEF x
<1> QED BY <1>1, <1>2, <1>3, <1>4

LEMMA ReadHistoryCall ==
    ASSUME TypeOK, NEW s \in Syncs, ReadHistory(s)
    PROVE  /\ Moves(s, "loading") /\ sync'[s].token = Now
           /\ sync'[s].full = sync[s].full /\ sync'[s].got = sync[s].got
           /\ \A m \in Messages :
                 /\ m \in sync'[s].ids <=>
                        m \notin gone /\ \E i \in sync[s].from..Len(log) : log[i] = m
                 /\ m \in sync'[s].dels <=>
                        m \in gone /\ \E i \in sync[s].from..Len(log) : log[i] = m
<1>1. Now \in Cursors /\ sync[s] \in Sync /\ sync \in [Syncs -> Sync]
  BY MailFacts DEF TypeOK
<1> DEFINE changed == {log[i] : i \in sync[s].from..Len(log)}
<1>2. changed \subseteq Messages
  <2>1. Len(log) \in Nat /\ sync[s].from \in Nat /\ sync[s].from # 0
    <3>1. sync[s].from \in Cursors
      BY MailFacts
    <3>2. sync[s].from # 0
      BY DEF ReadHistory
    <3> QED BY <3>1, <3>2, MailFacts, MailSyncAssumption DEF Cursors
  <2>2. \A i \in sync[s].from..Len(log) : i \in 1..Len(log)
    BY <2>1
  <2> QED BY <2>2, MailFacts
<1>3. \A m \in Messages : m \in changed <=> \E i \in sync[s].from..Len(log) : log[i] = m
  OBVIOUS
<1> HIDE DEF changed
<1>4. sync' = [sync EXCEPT ![s].pc = "loading", ![s].token = Now,
                           ![s].ids = changed \ gone, ![s].dels = changed \cap gone]
  BY DEF ReadHistory, changed
<1> DEFINE ids == changed \ gone
           dels == changed \cap gone
<1>5. ids \in SUBSET Messages /\ dels \in SUBSET Messages
  BY <1>2
<1>6. \A m \in Messages : /\ m \in ids <=> m \notin gone /\ m \in changed
                          /\ m \in dels <=> m \in gone /\ m \in changed
  OBVIOUS
<1>7. sync' = [sync EXCEPT ![s].pc = "loading", ![s].token = Now,
                           ![s].ids = ids, ![s].dels = dels]
  BY <1>4
<1> HIDE DEF ids, dels
<1>8. sync' \in [Syncs -> Sync] /\ \A t \in Syncs \ {s} : sync'[t] = sync[t]
  BY <1>1, <1>5, <1>7 DEF Sync
<1>9. /\ sync'[s].pc = "loading" /\ sync'[s].op = sync[s].op /\ sync'[s].from = sync[s].from
      /\ sync'[s].attDels = sync[s].attDels /\ sync'[s].token = Now
      /\ sync'[s].full = sync[s].full /\ sync'[s].got = sync[s].got
      /\ sync'[s].ids = ids /\ sync'[s].dels = dels
  BY <1>1, <1>7 DEF Sync
<1> QED BY <1>3, <1>6, <1>8, <1>9 DEF Moves

LEMMA ReadProfileCall ==
    ASSUME TypeOK, NEW s \in Syncs, ReadProfile(s)
    PROVE  /\ Moves(s, "profiled") /\ sync'[s].token = Now /\ sync'[s].full = TRUE
           /\ sync'[s].got = sync[s].got /\ sync'[s].dels = sync[s].dels
<1>1. Now \in Cursors /\ sync[s] \in Sync /\ sync \in [Syncs -> Sync]
  BY MailFacts DEF TypeOK
<1>2. sync' = [sync EXCEPT ![s].pc = "profiled", ![s].token = Now, ![s].full = TRUE]
  BY DEF ReadProfile
<1>3. sync' \in [Syncs -> Sync] /\ \A t \in Syncs \ {s} : sync'[t] = sync[t]
  BY <1>1, <1>2 DEF Sync
<1> QED BY <1>1, <1>2, <1>3 DEF Sync, Moves

LEMMA ListMessagesCall ==
    ASSUME TypeOK, NEW s \in Syncs, ListMessages(s)
    PROVE  /\ Moves(s, "loading") /\ sync'[s].token = sync[s].token
           /\ sync'[s].full = sync[s].full /\ sync'[s].got = sync[s].got
           /\ sync'[s].dels = sync[s].dels /\ sync'[s].ids \subseteq Present
           /\ sync[s].pc = "profiled" \/ (sync[s].pc = "asked" /\ sync[s].op = "label")
           /\ sync[s].pc = "profiled" =>
                 /\ cut' \in [Messages -> {sync[s].token} \cup {cut[m] : m \in Messages}]
                 /\ \A m \in Messages : (cut'[m] = cut[m]) \/ (cut'[m] = sync[s].token)
                 /\ \A m \in Present \cap Inbox :
                       m \in sync'[s].ids \/ (cut'[m] = sync[s].token)
           /\ sync[s].pc # "profiled" => UNCHANGED cut
<1>1. sync[s] \in Sync /\ sync \in [Syncs -> Sync]
  BY MailFacts DEF TypeOK
<1> DEFINE Cuts(ids) ==
        /\ cut' \in [Messages -> {sync[s].token} \cup {cut[m] : m \in Messages}]
        /\ \A m \in Messages : (cut'[m] = cut[m]) \/ (cut'[m] = sync[s].token)
        /\ \A m \in Present \cap Inbox : m \in ids \/ (cut'[m] = sync[s].token)
<1>2. PICK ids \in SUBSET Messages :
         /\ sync' = [sync EXCEPT ![s].pc = "loading", ![s].ids = ids]
         /\ ids \subseteq Present
         /\ sync[s].pc = "profiled" => Cuts(ids)
         /\ sync[s].pc # "profiled" => UNCHANGED cut
         /\ sync[s].pc = "profiled" \/ (sync[s].pc = "asked" /\ sync[s].op = "label")
  <2>1. Present \subseteq Messages
    BY DEF Present
  <2>2. CASE sync[s].pc = "profiled"
    <3> DEFINE found == IF sync[s].from = 0 THEN Present \cap Inbox ELSE Present
               limit == IF sync[s].from = 0 THEN BootstrapLimit ELSE RecentLimit
    <3>1. found \subseteq Present /\ Present \cap Inbox \subseteq found
      OBVIOUS
    <3>2. PICK ids \in CutOff(found, limit) :
             /\ sync' = [sync EXCEPT ![s].pc = "loading", ![s].ids = ids]
             /\ cut' = [m \in Messages |-> IF m \in found \ ids THEN sync[s].token
                                           ELSE cut[m]]
      BY <2>2 DEF ListMessages
    <3>3. ids \subseteq found
      BY <3>2 DEF CutOff
    <3> HIDE DEF found, limit
    <3>4. Cuts(ids)
      BY <2>1, <3>1, <3>2
    <3> HIDE DEF Cuts
    <3> QED BY <2>1, <2>2, <3>1, <3>2, <3>3, <3>4
  <2>3. CASE sync[s].pc # "profiled"
    <3>1. PICK found \in SUBSET Present :
             sync' = [sync EXCEPT ![s].pc = "loading", ![s].ids = found]
      BY <2>3 DEF ListMessages
    <3>2. sync[s].pc = "asked" /\ sync[s].op = "label" /\ UNCHANGED cut
      BY <2>3 DEF ListMessages
    <3> HIDE DEF Cuts
    <3> QED BY <2>1, <2>3, <3>1, <3>2
  <2> QED BY <2>2, <2>3
<1>3. sync' \in [Syncs -> Sync] /\ \A t \in Syncs \ {s} : sync'[t] = sync[t]
  BY <1>1, <1>2 DEF Sync
<1>4. /\ sync'[s].pc = "loading" /\ sync'[s].ids = ids /\ sync'[s].token = sync[s].token
      /\ sync'[s].full = sync[s].full /\ sync'[s].got = sync[s].got
      /\ sync'[s].dels = sync[s].dels /\ sync'[s].op = sync[s].op
      /\ sync'[s].from = sync[s].from /\ sync'[s].attDels = sync[s].attDels
  BY <1>1, <1>2 DEF Sync
<1> QED BY <1>2, <1>3, <1>4 DEF Moves

LEMMA LoadMessageCall ==
    ASSUME TypeOK, HasLast, NEW s \in Syncs, NEW m \in Messages, LoadMessage(s, m)
    PROVE  /\ Moves(s, "loading") /\ sync'[s].token = sync[s].token
           /\ sync'[s].full = sync[s].full /\ sync'[s].dels = sync[s].dels
           /\ sync'[s].ids = sync[s].ids \ {m}
           /\ \A x \in Messages : sync'[s].got[x] =
                 IF x # m THEN sync[s].got[x]
                 ELSE IF m \in gone THEN 0 ELSE LastChange(m, Len(log))
<1> DEFINE v == IF m \in gone THEN 0 ELSE LastChange(m, Len(log))
<1>1. /\ sync[s] \in Sync /\ sync \in [Syncs -> Sync] /\ sync[s].pc = "loading"
      /\ sync[s].got \in [Messages -> Versions]
  BY MailFacts DEF TypeOK, LoadMessage
<1>2. v \in Versions
  <2>1. Len(log) \in 0..Len(log) /\ Len(log) \in Nat /\ Len(log) <= MaxLog
    BY MailFacts
  <2>2. LastChange(m, Len(log)) \in 0..Len(log)
    BY <2>1, LastFacts
  <2> QED BY <2>1, <2>2, MailSyncAssumption DEF Versions
<1>3. sync' = [sync EXCEPT ![s].ids = @ \ {m}, ![s].got[m] = v]
  BY DEF LoadMessage
<1> HIDE DEF v
<1>4. sync' \in [Syncs -> Sync] /\ \A t \in Syncs \ {s} : sync'[t] = sync[t]
  BY <1>1, <1>2, <1>3 DEF Sync
<1>5. /\ sync'[s].pc = sync[s].pc /\ sync'[s].op = sync[s].op /\ sync'[s].from = sync[s].from
      /\ sync'[s].attDels = sync[s].attDels /\ sync'[s].token = sync[s].token
      /\ sync'[s].full = sync[s].full /\ sync'[s].dels = sync[s].dels
      /\ sync'[s].ids = sync[s].ids \ {m} /\ sync'[s].got = [sync[s].got EXCEPT ![m] = v]
  BY <1>1, <1>3 DEF Sync
<1> QED BY <1>1, <1>4, <1>5 DEF Moves, v

LEMMA LoadedCall ==
    ASSUME TypeOK, NEW s \in Syncs, Loaded(s)
    PROVE  /\ Moves(s, "loaded") /\ sync'[s].token = sync[s].token
           /\ sync'[s].full = sync[s].full /\ sync'[s].dels = sync[s].dels
           /\ sync'[s].ids = {} /\ sync'[s].got = sync[s].got
<1>1. sync[s] \in Sync /\ sync \in [Syncs -> Sync]
  BY MailFacts DEF TypeOK
<1>2. sync' = [sync EXCEPT ![s].pc = "loaded"] /\ sync[s].ids = {}
  BY DEF Loaded
<1>3. sync' \in [Syncs -> Sync] /\ \A t \in Syncs \ {s} : sync'[t] = sync[t]
  BY <1>1, <1>2 DEF Sync
<1> QED BY <1>1, <1>2, <1>3 DEF Sync, Moves

LEMMA ApplyDeltasCall ==
    ASSUME TypeOK, NEW s \in Syncs, ApplyDeltas(s)
    PROVE  /\ sync' \in [Syncs -> Sync] /\ \A t \in Syncs \ {s} : sync'[t] = sync[t]
           /\ sync'[s].pc = "labels" /\ sync'[s].op = sync[s].op
           /\ sync'[s].from = sync[s].from /\ sync'[s].token = sync[s].token
           /\ sync'[s].full = sync[s].full /\ sync'[s].ids = sync[s].ids
           /\ sync'[s].got = sync[s].got /\ sync'[s].dels = Deletes(s)
           /\ sync'[s].attDels = mem.atts \cap Deletes(s)
           /\ mem' \in Mail /\ mem'.cursor = mem.cursor
           /\ mem'.atts = (mem.atts \ Deletes(s)) \cup (Upserted(s) \cap Attached)
           /\ \A m \in Messages : mem'.msgs[m] =
                 IF sync[s].got[m] # 0 THEN sync[s].got[m]
                 ELSE IF m \in Deletes(s) THEN 0 ELSE mem.msgs[m]
<1> DEFINE D == Deletes(s)
           A == mem.atts \cap D
           w == Without(mem, D, A)
<1>1. /\ sync[s] \in Sync /\ sync \in [Syncs -> Sync] /\ mem \in Mail
      /\ mem.cursor \in Cursors /\ mem.atts \subseteq Messages
  BY MailFacts DEF TypeOK
<1>2. D \in SUBSET Messages
  BY MailFacts DEF Deletes
<1>3. A \in SUBSET Messages /\ mem.atts \ A = mem.atts \ D
  BY <1>2
<1>4. sync' = [sync EXCEPT ![s].pc = "labels", ![s].dels = D, ![s].attDels = A]
  BY DEF ApplyDeltas, AppliesDeltas
<1>5. mem' = [WithUpserts(w, s) EXCEPT !.cursor = mem.cursor]
  BY DEF ApplyDeltas, AppliesDeltas
<1> HIDE DEF D, A
<1>6. /\ w \in Mail /\ w.atts = mem.atts \ A
      /\ \A m \in Messages : w.msgs[m] = IF m \in D THEN 0 ELSE mem.msgs[m]
  BY <1>1, Deleted
<1> HIDE DEF w
<1> DEFINE u == WithUpserts(w, s)
<1>7. /\ u \in Mail /\ u.atts = w.atts \cup (Upserted(s) \cap Attached)
      /\ \A m \in Messages : u.msgs[m] =
            IF sync[s].got[m] # 0 THEN sync[s].got[m] ELSE w.msgs[m]
  BY <1>6, Added
<1> HIDE DEF u
<1>8. mem' = [u EXCEPT !.cursor = mem.cursor]
  BY <1>5 DEF u
<1>9. mem' \in Mail /\ mem'.cursor = mem.cursor /\ mem'.msgs = u.msgs /\ mem'.atts = u.atts
  BY <1>1, <1>7, <1>8 DEF Mail
<1>10. sync' \in [Syncs -> Sync] /\ \A t \in Syncs \ {s} : sync'[t] = sync[t]
  BY <1>1, <1>2, <1>3, <1>4 DEF Sync
<1>11. /\ sync'[s].pc = "labels" /\ sync'[s].op = sync[s].op
       /\ sync'[s].from = sync[s].from /\ sync'[s].token = sync[s].token
       /\ sync'[s].full = sync[s].full /\ sync'[s].ids = sync[s].ids
       /\ sync'[s].got = sync[s].got /\ sync'[s].dels = D /\ sync'[s].attDels = A
  BY <1>1, <1>4 DEF Sync
<1> QED BY <1>3, <1>6, <1>7, <1>9, <1>10, <1>11 DEF A, D

LEMMA ApplyFoundCall ==
    ASSUME TypeOK, NEW s \in Syncs, ApplyFound(s)
    PROVE  /\ Moves(s, "batch") /\ sync'[s].full = sync[s].full
           /\ sync'[s].token = (IF mem.cursor = 0 THEN 1 ELSE mem.cursor)
           /\ sync'[s].dels = sync[s].dels /\ sync'[s].got = sync[s].got
           /\ sync'[s].ids = sync[s].ids
           /\ mem' \in Mail /\ mem'.cursor = mem.cursor
           /\ mem'.atts = mem.atts \cup (Upserted(s) \cap Attached)
           /\ \A m \in Messages : mem'.msgs[m] =
                 IF sync[s].got[m] # 0 THEN sync[s].got[m] ELSE mem.msgs[m]
<1>1. sync[s] \in Sync /\ sync \in [Syncs -> Sync] /\ mem \in Mail /\ mem.cursor \in Cursors
  BY MailFacts DEF TypeOK
<1> DEFINE token == IF mem.cursor = 0 THEN 1 ELSE mem.cursor
<1>2. token \in Cursors
  BY <1>1, MailSyncAssumption DEF Cursors
<1>3. sync' = [sync EXCEPT ![s].pc = "batch", ![s].token = token]
  BY DEF ApplyFound
<1> HIDE DEF token
<1>4. sync' \in [Syncs -> Sync] /\ \A t \in Syncs \ {s} : sync'[t] = sync[t]
  BY <1>1, <1>2, <1>3 DEF Sync
<1>5. /\ Moves(s, "batch") /\ sync'[s].full = sync[s].full /\ sync'[s].token = token
      /\ sync'[s].dels = sync[s].dels /\ sync'[s].got = sync[s].got
      /\ sync'[s].ids = sync[s].ids
  BY <1>1, <1>3, <1>4 DEF Sync, Moves
<1>6. mem' = WithUpserts(mem, s)
  BY DEF ApplyFound
<1>7. /\ mem' \in Mail /\ mem'.cursor = mem.cursor
      /\ mem'.atts = mem.atts \cup (Upserted(s) \cap Attached)
      /\ \A m \in Messages : mem'.msgs[m] =
            IF sync[s].got[m] # 0 THEN sync[s].got[m] ELSE mem.msgs[m]
  BY <1>1, <1>6, Added
<1> QED BY <1>5, <1>7 DEF token

LEMMA LabelsArriveCall ==
    ASSUME TypeOK, NEW s \in Syncs, LabelsArrive(s)
    PROVE  /\ Moves(s, "batch") /\ sync'[s].token = sync[s].token
           /\ sync'[s].full = sync[s].full /\ sync'[s].dels = sync[s].dels
           /\ sync'[s].ids = sync[s].ids /\ sync'[s].got = sync[s].got
<1>1. sync[s] \in Sync /\ sync \in [Syncs -> Sync]
  BY MailFacts DEF TypeOK
<1>2. sync' = [sync EXCEPT ![s].pc = "batch"]
  BY DEF LabelsArrive
<1>3. sync' \in [Syncs -> Sync] /\ \A t \in Syncs \ {s} : sync'[t] = sync[t]
  BY <1>1, <1>2 DEF Sync
<1> QED BY <1>1, <1>2, <1>3 DEF Sync, Moves

LEMMA DropsCall ==
    ASSUME TypeOK, NEW s \in Syncs, RequestFails(s) \/ StoreRejects(s)
    PROVE  /\ sync' \in [Syncs -> Sync] /\ sync'[s] = NoSync
           /\ \A t \in Syncs \ {s} : sync'[t] = sync[t]
<1> QED BY NoSyncTyped DEF TypeOK, RequestFails, StoreRejects

\* A command of call s is executed, and left are the messages still to be indexed.
LEMMA GoesOnCall ==
    ASSUME TypeOK, NEW s \in Syncs, NEW left \in SUBSET Messages, GoesOn(s, left)
    PROVE  /\ sync' \in [Syncs -> Sync] /\ \A t \in Syncs \ {s} : sync'[t] = sync[t]
           /\ left = {} => sync'[s] = NoSync
           /\ left # {} => /\ Moves(s, "index") /\ sync'[s].token = sync[s].token
                           /\ sync'[s].full = sync[s].full /\ sync'[s].dels = sync[s].dels
                           /\ sync'[s].ids = left /\ sync'[s].got = sync[s].got
           /\ mem' \in Mail /\ mem'.msgs = mem.msgs /\ mem'.atts = mem.atts
           /\ mem'.cursor = IF left = {} /\ sync[s].op = "pull" THEN sync[s].token
                            ELSE mem.cursor
<1>1. /\ sync[s] \in Sync /\ sync \in [Syncs -> Sync] /\ mem \in Mail
      /\ sync[s].token \in Cursors
  BY MailFacts DEF TypeOK
<1>2. mem' \in Mail /\ mem'.msgs = mem.msgs /\ mem'.atts = mem.atts
      /\ mem'.cursor = IF left = {} /\ sync[s].op = "pull" THEN sync[s].token ELSE mem.cursor
  BY <1>1 DEF GoesOn, Mail
<1>3. CASE left = {}
  BY <1>1, <1>2, <1>3, NoSyncTyped DEF GoesOn
<1>4. CASE left # {}
  <2> DEFINE x == [sync[s] EXCEPT !.pc = "index", !.ids = left]
  <2>1. /\ x \in Sync /\ x.pc = "index" /\ x.op = sync[s].op /\ x.from = sync[s].from
        /\ x.attDels = sync[s].attDels /\ x.token = sync[s].token
        /\ x.full = sync[s].full /\ x.dels = sync[s].dels
        /\ x.ids = left /\ x.got = sync[s].got
    BY <1>1 DEF Sync
  <2>2. sync' = [sync EXCEPT ![s] = x]
    BY <1>4 DEF GoesOn
  <2> HIDE DEF x
  <2> QED BY <1>1, <1>2, <1>4, <2>1, <2>2 DEF Moves
<1> QED BY <1>3, <1>4

LEMMA BatchStored ==
    ASSUME TypeOK, NEW s \in Syncs, BatchExecutes(s)
    PROVE  /\ disk' \in Store /\ disk'.cursor = sync[s].token /\ disk'.index = disk.index
           /\ disk'.atts = (disk.atts \cup (Upserted(s) \cap Attached)) \ sync[s].attDels
           /\ \A m \in Messages : disk'.msgs[m] =
                 IF m \in sync[s].dels THEN 0
                 ELSE IF sync[s].got[m] # 0 THEN sync[s].got[m] ELSE disk.msgs[m]
<1> DEFINE u == WithUpserts(disk, s)
           D == sync[s].dels
           A == sync[s].attDels
           w == Without(u, D, A)
<1>1. disk \in Store /\ sync[s].token \in Cursors
  BY MailFacts DEF TypeOK
<1>2. disk' = [w EXCEPT !.cursor = sync[s].token]
  BY DEF BatchExecutes
<1>3. /\ u \in Store /\ u.index = disk.index
      /\ u.atts = disk.atts \cup (Upserted(s) \cap Attached)
      /\ \A m \in Messages : u.msgs[m] =
            IF sync[s].got[m] # 0 THEN sync[s].got[m] ELSE disk.msgs[m]
  BY <1>1, Added
<1> HIDE DEF u, D, A
<1>4. /\ w \in Store /\ w.index = u.index /\ w.atts = u.atts \ A
      /\ \A m \in Messages : w.msgs[m] = IF m \in D THEN 0 ELSE u.msgs[m]
  BY <1>3, Deleted
<1> HIDE DEF w
<1>5. /\ disk' \in Store /\ disk'.cursor = sync[s].token /\ disk'.index = w.index
      /\ disk'.atts = w.atts /\ disk'.msgs = w.msgs
  BY <1>1, <1>2, <1>4 DEF Store
<1> QED BY <1>3, <1>4, <1>5 DEF D, A

LEMMA IndexStored ==
    ASSUME TypeOK, NEW s \in Syncs, IndexExecutes(s)
    PROVE  \E m \in sync[s].ids :
             /\ disk' \in Store /\ disk'.msgs = disk.msgs /\ disk'.atts = disk.atts
             /\ disk'.cursor = disk.cursor
             /\ \A x \in Messages :
                   disk'.index[x] = IF x = m THEN sync[s].got[m] ELSE disk.index[x]
             /\ GoesOn(s, sync[s].ids \ {m})
<1>1. PICK m \in sync[s].ids : /\ disk' = [disk EXCEPT !.index[m] = sync[s].got[m]]
                               /\ GoesOn(s, sync[s].ids \ {m})
  BY DEF IndexExecutes
<1>2. m \in Messages /\ sync[s].got[m] \in Versions /\ disk \in Store
  BY MailFacts DEF TypeOK
<1>3. /\ disk' \in Store /\ disk'.msgs = disk.msgs /\ disk'.atts = disk.atts
      /\ disk'.cursor = disk.cursor
  BY <1>1, <1>2 DEF Store
<1>4. disk'.index = [disk.index EXCEPT ![m] = sync[s].got[m]]
  BY <1>1, <1>2 DEF Store
<1>5. \A x \in Messages :
         disk'.index[x] = IF x = m THEN sync[s].got[m] ELSE disk.index[x]
  BY <1>4, <1>2, MailFacts
<1> QED BY <1>1, <1>3, <1>5

-----------------------------------------------------------------------------
(* Types, for any number of calls at a time, failures and restarts.           *)

LEMMA QueueFacts ==
    ASSUME NEW T, NEW q \in Seq(T)
    PROVE  /\ q # <<>> => Tail(q) \in Seq(T)
           /\ \A x \in T : Append(q, x) \in Seq(T)
<1> QED OBVIOUS

LEMMA MailTypesNext == ASSUME TypeOK, HasLast, Next PROVE TypeOK'
<1>1. ASSUME NEW m \in Messages, ProviderChanges(m)
      PROVE  TypeOK'
  <2>1. log' \in Seq(Messages) /\ Len(log') <= MaxLog
    BY <1>1, AppendFacts
  <2>2. gone' \subseteq Messages
    BY <1>1 DEF ProviderChanges, TypeOK
  <2> QED BY <1>1, <2>1, <2>2 DEF ProviderChanges, TypeOK
<1>2. ASSUME NEW s \in Syncs, sync' \in [Syncs -> Sync],
             UNCHANGED <<log, gone, cut, mem, disk, hydr, ready, ipc, crashes, faults>>
      PROVE  TypeOK'
  BY <1>2 DEF TypeOK
<1>3. ASSUME NEW s \in Syncs, NEW op \in {"pull", "label"}, Start(s, op)
      PROVE  TypeOK'
  BY <1>2, <1>3, StartCall DEF Start
<1>4. ASSUME NEW s \in Syncs, ReadHistory(s)
      PROVE  TypeOK'
  BY <1>2, <1>4, ReadHistoryCall DEF ReadHistory, Moves
<1>5. ASSUME NEW s \in Syncs, ReadProfile(s)
      PROVE  TypeOK'
  BY <1>2, <1>5, ReadProfileCall DEF ReadProfile, Moves
<1>6. ASSUME NEW s \in Syncs, ListMessages(s)
      PROVE  TypeOK'
  <2>1. sync' \in [Syncs -> Sync]
    BY <1>6, ListMessagesCall DEF Moves
  <2>2. cut' \in [Messages -> Cursors]
    <3>1. CASE sync[s].pc # "profiled"
      BY <1>6, <3>1, ListMessagesCall DEF TypeOK
    <3>2. CASE sync[s].pc = "profiled"
      <4>1. \A m \in Messages : cut[m] \in Cursors
        BY DEF TypeOK
      <4>2. sync[s].token \in Cursors
        BY MailFacts
      <4> QED BY <1>6, <3>2, <4>1, <4>2, ListMessagesCall
    <3> QED BY <3>1, <3>2
  <2> QED BY <1>6, <2>1, <2>2 DEF ListMessages, TypeOK
<1>7. ASSUME NEW s \in Syncs, NEW m \in Messages, LoadMessage(s, m)
      PROVE  TypeOK'
  BY <1>2, <1>7, LoadMessageCall DEF LoadMessage, Moves
<1>8. ASSUME NEW s \in Syncs, Loaded(s)
      PROVE  TypeOK'
  BY <1>2, <1>8, LoadedCall DEF Loaded, Moves
<1>9. ASSUME NEW s \in Syncs, ApplyDeltas(s)
      PROVE  TypeOK'
  <2>1. sync' \in [Syncs -> Sync] /\ mem' \in Mail
    BY <1>9, ApplyDeltasCall
  <2> QED BY <1>9, <2>1 DEF ApplyDeltas, AppliesDeltas, TypeOK
<1>10. ASSUME NEW s \in Syncs, ApplyFound(s)
       PROVE  TypeOK'
  <2>1. sync' \in [Syncs -> Sync] /\ mem' \in Mail
    BY <1>10, ApplyFoundCall DEF Moves
  <2> QED BY <1>10, <2>1 DEF ApplyFound, TypeOK
<1>11. ASSUME NEW s \in Syncs, LabelsArrive(s)
       PROVE  TypeOK'
  <2>1. sync' \in [Syncs -> Sync]
    BY <1>11, LabelsArriveCall DEF Moves
  <2> QED BY <1>11, <2>1 DEF LabelsArrive, TypeOK
<1>12. ASSUME NEW s \in Syncs, RequestFails(s) \/ StoreRejects(s)
       PROVE  TypeOK'
  <2>1. sync' \in [Syncs -> Sync]
    BY <1>12, DropsCall
  <2>2. faults' \in 0..MaxFaults
    BY <1>12, MailSyncAssumption DEF RequestFails, StoreRejects, TypeOK
  <2>3. ipc' = ipc \/ (ipc # <<>> /\ ipc' = Tail(ipc))
    BY <1>12 DEF RequestFails, StoreRejects
  <2>4. ipc' \in Seq(Syncs \cup {"hydrate"})
    <3>1. ipc \in Seq(Syncs \cup {"hydrate"})
      BY DEF TypeOK
    <3> QED BY <2>3, <3>1, QueueFacts
  <2> QED BY <1>12, <2>1, <2>2, <2>4 DEF RequestFails, StoreRejects, TypeOK
<1>13. ASSUME NEW s \in Syncs, NEW left \in SUBSET Messages, GoesOn(s, left), ipc # <<>>,
              disk' \in Store, UNCHANGED <<log, gone, cut, hydr, ready, crashes, faults>>
       PROVE  TypeOK'
  <2>1. sync' \in [Syncs -> Sync] /\ mem' \in Mail
    BY <1>13, GoesOnCall
  <2>2. ipc' \in Seq(Syncs \cup {"hydrate"})
    BY <1>13 DEF GoesOn, TypeOK
  <2> QED BY <1>13, <2>1, <2>2 DEF TypeOK
<1>14. ASSUME NEW s \in Syncs, BatchExecutes(s)
       PROVE  TypeOK'
  <2>1. Upserted(s) \in SUBSET Messages
    BY DEF Upserted
  <2> QED BY <1>13, <1>14, <2>1, BatchStored DEF BatchExecutes
<1>15. ASSUME NEW s \in Syncs, IndexExecutes(s)
       PROVE  TypeOK'
  <2>1. PICK m \in sync[s].ids : disk' \in Store /\ GoesOn(s, sync[s].ids \ {m})
    BY <1>15, IndexStored
  <2>2. sync[s].ids \ {m} \in SUBSET Messages
    BY MailFacts
  <2> QED BY <1>13, <1>15, <2>1, <2>2 DEF IndexExecutes
<1>16. CASE HydrateStart \/ ListsExecute \/ ListsRejected
  <2>1. hydr' \in Hydrate
    <3>1. hydr \in Hydrate
      BY DEF TypeOK
    <3>2. CASE HydrateStart
      BY <3>1, <3>2 DEF HydrateStart, Hydrate
    <3>3. CASE ListsExecute
      BY <3>3, MailFacts DEF ListsExecute, Hydrate, Mail
    <3>4. CASE ListsRejected
      BY <3>4, NoSyncTyped DEF ListsRejected, Hydrate, NoHydrate, Mail
    <3> QED BY <1>16, <3>2, <3>3, <3>4
  <2>2. ipc' \in Seq(Syncs \cup {"hydrate"})
    <3>1. \/ ipc' = Append(ipc, "hydrate")
          \/ ipc # <<>> /\ ipc' = Tail(ipc)
      BY <1>16 DEF HydrateStart, ListsExecute, ListsRejected
    <3>2. ipc \in Seq(Syncs \cup {"hydrate"}) /\ "hydrate" \in Syncs \cup {"hydrate"}
      BY DEF TypeOK
    <3> QED BY <3>1, <3>2, QueueFacts
  <2>3. faults' \in 0..MaxFaults
    BY <1>16, MailSyncAssumption DEF HydrateStart, ListsExecute, ListsRejected, TypeOK
  <2> QED BY <1>16, <2>1, <2>2, <2>3 DEF HydrateStart, ListsExecute, ListsRejected, TypeOK
<1>17. CASE HydrateSets
  <2>1. hydr.read \in Mail
    BY DEF TypeOK, Hydrate
  <2>2. mem' \in Mail
    BY <1>17, <2>1, MailFacts DEF HydrateSets, Mail
  <2>3. hydr' \in Hydrate
    BY <1>17, NoSyncTyped DEF HydrateSets, Hydrate, NoHydrate, Mail
  <2> QED BY <1>17, <2>2, <2>3 DEF HydrateSets, TypeOK
<1>18. CASE Restart
  <2>1. mem' \in Mail /\ hydr' \in Hydrate
    BY <1>18, NoSyncTyped DEF Restart, Hydrate, NoHydrate, Mail
  <2>2. sync' \in [Syncs -> Sync] /\ ipc' \in Seq(Syncs \cup {"hydrate"})
    BY <1>18, NoSyncTyped DEF Restart
  <2>3. crashes' \in 0..MaxCrashes
    BY <1>18, MailSyncAssumption DEF Restart, TypeOK
  <2> QED BY <1>18, <2>1, <2>2, <2>3 DEF Restart, TypeOK
<1> QED BY <1>1, <1>3, <1>4, <1>5, <1>6, <1>7, <1>8, <1>9, <1>10, <1>11, <1>12, <1>14, <1>15,
           <1>16, <1>17, <1>18 DEF Next, SyncStep

-----------------------------------------------------------------------------
(* The store and the screen, with one call at a time and no second hydrateLocal. *)

LEMMA Numbers ==
    ASSUME StoreInv
    PROVE  /\ TypeOK /\ HasLast /\ Len(log) \in Nat /\ Now \in Nat /\ Now = Len(log) + 1
           /\ mem.cursor \in Nat /\ disk.cursor \in Nat
           /\ mem.cursor <= disk.cursor /\ disk.cursor <= Now
           /\ \A m \in Messages : mem.msgs[m] \in Nat /\ disk.msgs[m] \in Nat
           /\ \A m \in Messages : cut[m] \in Nat /\ 1 <= cut[m] /\ cut[m] <= Now
           /\ \A s \in Syncs :
                 /\ CallOK(sync[s]) /\ sync[s].from \in Nat /\ sync[s].token \in Nat
                 /\ sync[s].pc # "idle" => ready /\ sync[s].from = mem.cursor
                 /\ \A m \in Messages : sync[s].got[m] \in Nat
                 /\ sync[s].op \in {"pull", "label"} /\ sync[s].full \in BOOLEAN
                 /\ sync[s].ids \subseteq Messages /\ sync[s].dels \subseteq Messages
<1>1. TypeOK /\ HasLast /\ CursorShape /\ \A s \in Syncs : CallOK(sync[s])
  BY DEF StoreInv
<1>2. Versions \subseteq Nat /\ Cursors \subseteq Nat
  BY MailSyncAssumption DEF Versions, Cursors
<1>3. \A s \in Syncs : sync[s].pc # "idle" => ready /\ sync[s].from = mem.cursor
  BY <1>1 DEF CallOK, CallShape
<1>4. /\ Len(log) \in Nat /\ Now \in Nat /\ mem.cursor \in Nat /\ disk.cursor \in Nat
      /\ \A m \in Messages : mem.msgs[m] \in Nat /\ disk.msgs[m] \in Nat
  BY <1>1, <1>2, MailFacts
<1>6. \A m \in Messages : cut[m] \in Nat /\ 1 <= cut[m] /\ cut[m] <= Now
  <2>1. \A m \in Messages : cut[m] \in Cursors
    BY <1>1 DEF TypeOK
  <2> QED BY <1>1, <1>2, <2>1 DEF CursorShape
<1>5. ASSUME NEW s \in Syncs
      PROVE  /\ sync[s].from \in Nat /\ sync[s].token \in Nat
             /\ \A m \in Messages : sync[s].got[m] \in Nat
             /\ sync[s].op \in {"pull", "label"} /\ sync[s].full \in BOOLEAN
             /\ sync[s].ids \subseteq Messages /\ sync[s].dels \subseteq Messages
  BY <1>1, <1>2, MailFacts
<1> QED BY <1>1, <1>3, <1>4, <1>5, <1>6 DEF CursorShape, Now

\* A call goes on and touches neither the Maps nor the store, or fails.  A listing may leave
\* messages out.
LEMMA CallCutKeeps ==
    ASSUME StoreInv, OneAtATime, TypeOK', NEW s \in Syncs,
           UNCHANGED <<log, gone, mem, disk, hydr, ready, crashes>>,
           \A m \in Messages : cut'[m] \in Nat /\ cut[m] <= cut'[m] /\ cut'[m] <= Now,
           ready, sync'[s].pc \in Early, sync[s].pc \in Early \/ faults' # 0,
           faults' = 0 => faults = 0,
           ipc' = ipc \/ (ipc # <<>> /\ ipc' = Tail(ipc)), CallOK(sync[s])'
    PROVE  StoreInv'
<1>1. \A t \in Syncs : t = s
  BY DEF OneAtATime
<1>2. HasLast' /\ CursorShape'
  <2>1. \A m \in Messages : \A c : Needed(m, c)' => Needed(m, c)
    BY Numbers DEF Needed
  <2>2. /\ \A c : CompleteAt(disk, c) => CompleteAt(disk, c)'
        /\ \A c : CompleteAt(mem, c) => CompleteAt(mem, c)'
    BY <2>1, MailSyncAssumption DEF CompleteAt
  <2>3. HasLast'
    BY DEF StoreInv, HasLast
  <2>4. \A m \in Messages : 1 <= cut'[m] /\ cut'[m] <= Now'
    BY Numbers DEF Now
  <2>5. mem'.cursor <= disk'.cursor /\ disk'.cursor <= Now'
    BY DEF StoreInv, CursorShape, Now
  <2>6. /\ disk'.cursor # 0 => CompleteAt(disk, disk.cursor)'
        /\ mem'.cursor # 0 => CompleteAt(mem, mem.cursor)'
    BY <2>2 DEF StoreInv, CursorShape
  <2> QED BY <2>3, <2>4, <2>5, <2>6 DEF CursorShape
<1>3. StartShape'
  <2>1. ipc \in Seq(Syncs \cup {"hydrate"}) /\ \A i \in 1..Len(ipc) : ipc[i] # "hydrate"
    BY DEF StoreInv, StartShape, TypeOK
  <2>2. \A i \in 1..Len(ipc') : ipc'[i] # "hydrate"
    BY <2>1
  <2> QED BY <2>2 DEF StoreInv, StartShape
<1>4. \A t \in Syncs : CallOK(sync[t])'
  BY <1>1
<1>5. SameMail'
  BY <1>1 DEF StoreInv, SameMail, Early
<1>6. FreshMail'
  BY <1>1 DEF StoreInv, FreshMail, FreshAt, Between, Due, Early, Late
<1>7. Indexed'
  BY <1>1 DEF StoreInv, Indexed, Early
<1> QED BY <1>2, <1>3, <1>4, <1>5, <1>6, <1>7 DEF StoreInv

LEMMA CallKeeps ==
    ASSUME StoreInv, OneAtATime, TypeOK', NEW s \in Syncs,
           UNCHANGED <<log, gone, cut, mem, disk, hydr, ready, crashes>>,
           ready, sync'[s].pc \in Early, sync[s].pc \in Early \/ faults' # 0,
           faults' = 0 => faults = 0,
           ipc' = ipc \/ (ipc # <<>> /\ ipc' = Tail(ipc)), CallOK(sync[s])'
    PROVE  StoreInv'
<1>1. \A m \in Messages : cut'[m] \in Nat /\ cut[m] <= cut'[m] /\ cut'[m] <= Now
  BY Numbers
<1> QED BY <1>1, CallCutKeeps

LEMMA StartKeeps ==
    ASSUME StoreInv, OneAtATime, TypeOK', NEW s \in Syncs, NEW op \in {"pull", "label"},
           Start(s, op)
    PROVE  StoreInv'
<1>1. /\ ready /\ sync[s].pc = "idle"
      /\ UNCHANGED <<log, gone, cut, mem, disk, hydr, ready, ipc, crashes, faults>>
  BY DEF Start
<1>2. /\ sync'[s].pc = "asked" /\ sync'[s].op = op /\ sync'[s].from = mem.cursor
      /\ sync'[s].got = NoMail /\ sync'[s].dels = {} /\ sync'[s].attDels = {}
      /\ sync'[s].full = FALSE /\ sync'[s].ids = {}
  BY StartCall, Numbers
<1>3. \A m \in Messages : sync'[s].got[m] = 0
  BY <1>2 DEF NoMail
<1>4. CallOK(sync[s])'
  BY <1>1, <1>2, <1>3 DEF CallOK, CallShape, CallTokens, GotFresh, WillBeComplete, SeesHistory,
     Loading, Late
<1> QED BY <1>1, <1>2, <1>4, CallKeeps DEF Early

LEMMA ReadHistoryKeeps ==
    ASSUME StoreInv, OneAtATime, TypeOK', NEW s \in Syncs, ReadHistory(s)
    PROVE  StoreInv'
<1>1. /\ sync[s].pc = "asked" /\ sync[s].op = "pull" /\ sync[s].from # 0
      /\ UNCHANGED <<log, gone, cut, mem, disk, hydr, ready, ipc, crashes, faults>>
  BY DEF ReadHistory
<1>2. /\ Moves(s, "loading") /\ sync'[s].token = Now
      /\ sync'[s].full = sync[s].full /\ sync'[s].got = sync[s].got
      /\ \A m \in Messages :
            /\ m \in sync'[s].ids <=>
                   m \notin gone /\ \E i \in sync[s].from..Len(log) : log[i] = m
            /\ m \in sync'[s].dels <=>
                   m \in gone /\ \E i \in sync[s].from..Len(log) : log[i] = m
  BY ReadHistoryCall, Numbers
<1>3. /\ ready /\ sync[s].from = mem.cursor /\ sync[s].from <= Now /\ Now = Len(log) + 1
      /\ sync[s].from \in Nat /\ Now \in Nat /\ Len(log) \in Nat
      /\ ~sync[s].full /\ sync[s].got = NoMail /\ CallOK(sync[s])
  BY <1>1, Numbers DEF CallOK, CallShape
<1>4. \A m \in Messages : sync'[s].got[m] = 0
  BY <1>2, <1>3 DEF NoMail
<1>5. \A m \in Messages : Between(m, sync[s].from - 1, Now) <=>
                             \E i \in sync[s].from..Len(log) : log[i] = m
  BY <1>1, <1>3 DEF Between
<1>6. \A m \in Messages : Needed(m, Now) => Needed(m, sync[s].from)
                                          \/ \E i \in sync[s].from..Len(log) : log[i] = m
  BY <1>1, <1>3, Numbers DEF Needed
<1>7. sync'[s].ids \subseteq Messages /\ sync'[s].dels \subseteq Messages
  <2>1. sync'[s] \in Sync
    BY <1>2 DEF Moves
  <2> QED BY <2>1 DEF Sync
<1>8. CallShape(sync[s])'
  BY <1>1, <1>2, <1>3, <1>4, <1>7 DEF Moves, CallShape
<1>9. CallTokens(sync[s])' /\ GotFresh(sync[s])'
  BY <1>1, <1>2, <1>3, <1>4 DEF Moves, CallTokens, GotFresh, Now
<1>10. Inbox \subseteq Messages
  BY MailSyncAssumption
<1>11. WillBeComplete(sync[s])'
  BY <1>1, <1>2, <1>3, <1>6, <1>7, <1>10 DEF Moves, WillBeComplete, Needed, Late
<1>12. SeesHistory(sync[s])'
  BY <1>1, <1>2, <1>3, <1>5 DEF Moves, SeesHistory, Between, Due
<1>13. CallOK(sync[s])'
  BY <1>8, <1>9, <1>11, <1>12 DEF CallOK
<1> QED BY <1>1, <1>2, <1>3, <1>13, CallKeeps DEF Early, Moves

LEMMA ReadProfileKeeps ==
    ASSUME StoreInv, OneAtATime, TypeOK', NEW s \in Syncs, ReadProfile(s)
    PROVE  StoreInv'
<1>1. /\ sync[s].pc = "asked" /\ sync[s].op = "pull" /\ sync[s].from <= Len(log)
      /\ UNCHANGED <<log, gone, cut, mem, disk, hydr, ready, ipc, crashes, faults>>
  BY DEF ReadProfile
<1>2. /\ Moves(s, "profiled") /\ sync'[s].token = Now /\ sync'[s].full = TRUE
      /\ sync'[s].got = sync[s].got /\ sync'[s].dels = sync[s].dels
  BY ReadProfileCall, Numbers
<1>3. /\ ready /\ sync[s].from = mem.cursor /\ sync[s].from <= Now /\ Now = Len(log) + 1
      /\ sync[s].from \in Nat /\ Now \in Nat /\ Len(log) \in Nat
      /\ sync[s].dels = {} /\ sync[s].got = NoMail /\ CallOK(sync[s])
      /\ \A m \in Messages : cut[m] <= Now
  BY <1>1, Numbers DEF CallOK, CallShape
<1>4. \A m \in Messages : sync'[s].got[m] = 0
  BY <1>2, <1>3 DEF NoMail
<1>5. CallShape(sync[s])' /\ CallTokens(sync[s])' /\ GotFresh(sync[s])'
  BY <1>1, <1>2, <1>3, <1>4 DEF Moves, CallShape, CallTokens, GotFresh, Now, Loading
<1>6. WillBeComplete(sync[s])' /\ SeesHistory(sync[s])'
  BY <1>1, <1>2 DEF Moves, WillBeComplete, SeesHistory, Late, Loading
<1>7. CallOK(sync[s])'
  BY <1>5, <1>6 DEF CallOK
<1> QED BY <1>1, <1>2, <1>3, <1>7, CallKeeps DEF Early, Moves

LEMMA ListFoundKeeps ==
    ASSUME StoreInv, OneAtATime, TypeOK', NEW s \in Syncs, ListMessages(s)
    PROVE  StoreInv'
<1>1. UNCHANGED <<log, gone, mem, disk, hydr, ready, ipc, crashes, faults>>
  BY DEF ListMessages
<1>2. /\ Moves(s, "loading") /\ sync'[s].token = sync[s].token
      /\ sync'[s].full = sync[s].full /\ sync'[s].got = sync[s].got
      /\ sync'[s].dels = sync[s].dels /\ sync'[s].ids \subseteq Present
      /\ sync[s].pc = "profiled" \/ (sync[s].pc = "asked" /\ sync[s].op = "label")
      /\ sync[s].pc = "profiled" =>
            /\ \A m \in Messages : (cut'[m] = cut[m]) \/ (cut'[m] = sync[s].token)
            /\ \A m \in Present \cap Inbox : m \in sync'[s].ids \/ (cut'[m] = sync[s].token)
      /\ sync[s].pc # "profiled" => UNCHANGED cut
  BY ListMessagesCall, Numbers
<1>3. /\ ready /\ sync[s].from = mem.cursor /\ Now = Len(log) + 1
      /\ Now \in Nat /\ Len(log) \in Nat /\ sync[s].token \in Nat
      /\ sync[s].dels = {} /\ sync[s].got = NoMail /\ CallOK(sync[s])
  BY <1>2, Numbers DEF CallOK, CallShape
<1>4. \A m \in Messages : sync[s].got[m] = 0
  BY <1>3 DEF NoMail
<1>5. /\ sync[s].pc = "profiled" => sync[s].full /\ sync[s].op = "pull" /\ sync[s].token <= Now
      /\ sync[s].op \in {"pull", "label"}
  BY <1>3, Numbers DEF CallOK, CallShape, CallTokens
<1>6. CallShape(sync[s])'
  BY <1>1, <1>2, <1>3, <1>4 DEF Moves, CallOK, CallShape, Loading
<1>7. CallTokens(sync[s])'
  BY <1>1, <1>2, <1>3 DEF Moves, CallOK, CallTokens, Now
<1>8. GotFresh(sync[s])'
  BY <1>1, <1>2, <1>4 DEF Moves, GotFresh
<1>13. \A m \in Messages : cut'[m] \in Nat /\ cut[m] <= cut'[m] /\ cut'[m] <= Now
  <2>1. \A m \in Messages : cut[m] \in Nat /\ 1 <= cut[m] /\ cut[m] <= Now
    BY Numbers
  <2>2. sync[s].pc = "profiled" =>
           /\ \A m \in Messages : cut[m] <= sync[s].token
           /\ sync[s].token <= Now
    BY <1>3, <1>5 DEF CallOK, CallTokens
  <2> QED BY <1>2, <1>3, <2>1, <2>2
<1>9. ASSUME sync[s].pc = "profiled", NEW m \in Inbox \ gone, Needed(m, sync[s].token)'
      PROVE  m \in sync'[s].ids
  <2>1. m \in Messages /\ Len(log) \in 0..Len(log)
    BY <1>3, MailSyncAssumption
  <2>2. \E i \in 1..Len(log) : log[i] = m
    <3>1. cut[m] \in Nat /\ 1 <= cut[m]
      BY <2>1, Numbers
    <3>2. cut'[m] \in Nat /\ cut[m] <= cut'[m]
      BY <1>13, <2>1
    <3> QED BY <1>1, <1>2, <1>3, <1>5, <1>9, <3>1, <3>2 DEF Needed
  <2>3. LastChange(m, Len(log)) # 0
    BY <2>1, <2>2, LastFacts, Numbers
  <2>4. ~(cut'[m] = sync[s].token)
    BY <1>1, <1>2, <1>3, <1>9 DEF Needed
  <2> QED BY <1>2, <1>9, <2>1, <2>3, <2>4 DEF Present
<1>10. WillBeComplete(sync[s])'
  BY <1>1, <1>2, <1>5, <1>9 DEF Moves, WillBeComplete, Needed, Late, Loading
<1>11. SeesHistory(sync[s])'
  BY <1>1, <1>2, <1>5 DEF Moves, SeesHistory
<1>12. CallOK(sync[s])'
  BY <1>6, <1>7, <1>8, <1>10, <1>11 DEF CallOK
<1> QED BY <1>1, <1>2, <1>3, <1>12, <1>13, CallCutKeeps DEF Early, Moves

LEMMA LoadMessageKeeps ==
    ASSUME StoreInv, OneAtATime, TypeOK', NEW s \in Syncs, NEW m \in Messages,
           LoadMessage(s, m)
    PROVE  StoreInv'
<1>1. /\ sync[s].pc = "loading" /\ m \in sync[s].ids
      /\ UNCHANGED <<log, gone, cut, mem, disk, hydr, ready, ipc, crashes, faults>>
  BY DEF LoadMessage
<1>2. /\ Moves(s, "loading") /\ sync'[s].token = sync[s].token
      /\ sync'[s].full = sync[s].full /\ sync'[s].dels = sync[s].dels
      /\ sync'[s].ids = sync[s].ids \ {m}
      /\ \A x \in Messages : sync'[s].got[x] =
            IF x # m THEN sync[s].got[x]
            ELSE IF m \in gone THEN 0 ELSE LastChange(m, Len(log))
  BY LoadMessageCall, Numbers
<1>3. /\ ready /\ sync[s].from = mem.cursor /\ Now = Len(log) + 1
      /\ sync[s].from <= Now /\ sync[s].from \in Nat
      /\ Now \in Nat /\ Len(log) \in Nat /\ sync[s].token \in Nat /\ CallOK(sync[s])
      /\ sync[s].dels \subseteq Messages /\ sync[s].op \in {"pull", "label"}
  BY <1>1, Numbers
<1>4. sync[s].op = "pull" => sync[s].token <= Now /\ (sync[s].full \/ sync[s].from # 0)
  BY <1>1, <1>3 DEF CallOK, CallTokens
<1>5. /\ LastChange(m, Len(log)) \in 0..Len(log)
      /\ \A i \in 1..Len(log) : log[i] = m => i <= LastChange(m, Len(log))
  <2>1. Len(log) \in 0..Len(log)
    BY <1>3
  <2> QED BY <2>1, LastFacts, Numbers
<1>6. m \notin gone => sync'[s].got[m] = LastChange(m, Len(log))
  BY <1>2
<1>7. CallShape(sync[s])'
  BY <1>1, <1>2, <1>3 DEF Moves, CallOK, CallShape, Loading
<1>8. CallTokens(sync[s])'
  BY <1>1, <1>2, <1>3 DEF Moves, CallOK, CallTokens, Now
<1>9. GotFresh(sync[s])'
  <2> DEFINE c == IF sync[s].op = "pull" THEN sync[s].token ELSE sync[s].from
  <2>1. c \in Nat /\ c <= Now
    BY <1>3, <1>4
  <2>2. \A x \in Messages : sync[s].got[x] # 0 =>
           sync[s].got[x] <= Len(log) /\ ~Between(x, sync[s].got[x], c)
    BY <1>3 DEF CallOK, GotFresh
  <2>3. sync'[s].got[m] # 0 => /\ sync'[s].got[m] <= Len(log)
                               /\ ~Between(m, sync'[s].got[m], c)
    <3> SUFFICES ASSUME sync'[s].got[m] # 0
                 PROVE  sync'[s].got[m] <= Len(log) /\ ~Between(m, sync'[s].got[m], c)
      OBVIOUS
    <3>1. sync'[s].got[m] = LastChange(m, Len(log))
      BY <1>2
    <3> DEFINE last == LastChange(m, Len(log))
    <3>2. last \in 0..Len(log) /\ \A i \in 1..Len(log) : log[i] = m => i <= last
      BY <1>5
    <3> HIDE DEF last
    <3>3. ASSUME NEW i \in (last + 1)..(c - 1)
          PROVE  log[i] # m
      <4>1. i \in 1..Len(log) /\ ~(i <= last)
        BY <1>3, <2>1, <3>2
      <4> QED BY <3>2, <4>1
    <3> QED BY <1>3, <3>1, <3>2, <3>3 DEF Between, last
  <2>4. \A x \in Messages : sync'[s].got[x] # 0 =>
           sync'[s].got[x] <= Len(log) /\ ~Between(x, sync'[s].got[x], c)
    BY <1>2, <2>2, <2>3
  <2> QED BY <1>1, <1>2, <2>4 DEF Moves, GotFresh, Between
<1>10. ASSUME sync[s].op = "pull", m \notin gone, Saw(m, sync[s].token)
       PROVE  sync'[s].got[m] # 0
  <2>1. PICK i \in 1..(sync[s].token - 1) : log[i] = m
    BY <1>10 DEF Saw
  <2>2. i \in 1..Len(log)
    BY <1>3, <1>4, <1>10
  <2> QED BY <1>5, <1>6, <1>10, <2>1, <2>2
<1>11. WillBeComplete(sync[s])'
  <2>1. sync[s].op = "pull" => \A x \in Inbox \ gone : Needed(x, sync[s].token) =>
           x \in sync'[s].ids \/ sync'[s].got[x] # 0 \/ (~sync[s].full /\ Needed(x, sync[s].from))
    <3> SUFFICES ASSUME sync[s].op = "pull", NEW x \in Inbox \ gone, Needed(x, sync[s].token)
                 PROVE  \/ x \in sync'[s].ids \/ sync'[s].got[x] # 0
                        \/ ~sync[s].full /\ Needed(x, sync[s].from)
      OBVIOUS
    <3>1. x \in Messages
      BY MailSyncAssumption
    <3>2. \/ x \in sync[s].ids \/ sync[s].got[x] # 0
          \/ ~sync[s].full /\ Needed(x, sync[s].from)
      BY <1>1, <1>3 DEF CallOK, WillBeComplete, Loading
    <3>3. Saw(x, sync[s].token)
      BY <1>3, <3>1, Numbers DEF Needed, Saw
    <3> QED BY <1>2, <1>10, <3>1, <3>2, <3>3
  <2>2. sync[s].op = "pull" /\ ~sync[s].full => sync[s].dels \subseteq gone
    BY <1>1, <1>3 DEF CallOK, WillBeComplete, Loading
  <2> QED BY <1>1, <1>2, <2>1, <2>2 DEF Moves, WillBeComplete, Needed, Late, Loading
<1>12. SeesHistory(sync[s])'
  <2>1. ASSUME sync[s].op = "pull", ~sync[s].full, NEW x \in Messages
        PROVE  /\ Between(x, sync[s].from - 1, sync[s].token) =>
                    x \in sync'[s].ids \cup sync[s].dels \/ sync'[s].got[x] # 0
                    \/ Due(x, sync[s].token)
               /\ Between(x, sync[s].from - 1, sync[s].token) /\ x \in gone
                    /\ ~Due(x, sync[s].token) => x \in sync[s].dels
               /\ x \in sync'[s].ids /\ x \in gone => Due(x, sync[s].token)
    <3>1. /\ Between(x, sync[s].from - 1, sync[s].token) =>
               x \in sync[s].ids \cup sync[s].dels \/ sync[s].got[x] # 0
               \/ Due(x, sync[s].token)
          /\ Between(x, sync[s].from - 1, sync[s].token) /\ x \in gone
               /\ ~Due(x, sync[s].token) => x \in sync[s].dels
          /\ x \in sync[s].ids /\ x \in gone => Due(x, sync[s].token)
      BY <1>1, <1>3, <2>1 DEF CallOK, SeesHistory, Loading
    <3>2. Between(x, sync[s].from - 1, sync[s].token) => Saw(x, sync[s].token)
      BY <1>3, <1>4, <2>1 DEF Between, Saw
    <3>3. x = m /\ (x \in gone \/ Saw(x, sync[s].token)) =>
             Due(x, sync[s].token) \/ sync'[s].got[x] # 0
      BY <1>1, <1>10, <2>1, <3>1
    <3> QED BY <1>2, <3>1, <3>2, <3>3
  <2> QED BY <1>1, <1>2, <2>1 DEF Moves, SeesHistory, Between, Due
<1>13. CallOK(sync[s])'
  BY <1>7, <1>8, <1>9, <1>11, <1>12 DEF CallOK
<1> QED BY <1>1, <1>2, <1>3, <1>13, CallKeeps DEF Early, Moves

LEMMA LoadedKeeps ==
    ASSUME StoreInv, OneAtATime, TypeOK', NEW s \in Syncs, Loaded(s)
    PROVE  StoreInv'
<1>1. /\ sync[s].pc = "loading" /\ sync[s].ids = {}
      /\ UNCHANGED <<log, gone, cut, mem, disk, hydr, ready, ipc, crashes, faults>>
  BY DEF Loaded
<1>2. /\ Moves(s, "loaded") /\ sync'[s].token = sync[s].token
      /\ sync'[s].full = sync[s].full /\ sync'[s].dels = sync[s].dels
      /\ sync'[s].ids = {} /\ sync'[s].got = sync[s].got
  BY LoadedCall, Numbers
<1>3. ready /\ CallOK(sync[s])
  BY <1>1, Numbers
<1>4. CallShape(sync[s])' /\ CallTokens(sync[s])' /\ GotFresh(sync[s])'
  BY <1>1, <1>2, <1>3 DEF Moves, CallOK, CallShape, CallTokens, GotFresh, Between, Loading, Now
<1>5. WillBeComplete(sync[s])' /\ SeesHistory(sync[s])'
  BY <1>1, <1>2, <1>3 DEF Moves, CallOK, WillBeComplete, SeesHistory, Needed, Between, Due,
     Late, Loading
<1>6. CallOK(sync[s])'
  BY <1>4, <1>5 DEF CallOK
<1> QED BY <1>1, <1>2, <1>3, <1>6, CallKeeps DEF Early, Moves

\* A call that fails leaves what it has done.
LEMMA DropsKeeps ==
    ASSUME StoreInv, OneAtATime, TypeOK', NEW s \in Syncs, RequestFails(s) \/ StoreRejects(s)
    PROVE  StoreInv'
<1>1. /\ UNCHANGED <<log, gone, cut, mem, disk, hydr, ready, crashes>>
      /\ faults' = faults + 1
      /\ ipc' = ipc \/ (ipc # <<>> /\ ipc' = Tail(ipc))
  BY DEF RequestFails, StoreRejects
<1>2. sync'[s] = NoSync
  BY DropsCall, Numbers
<1>3. faults' # 0
  BY <1>1 DEF StoreInv, TypeOK
<1>4. ready
  <2>1. CASE RequestFails(s)
    BY <2>1, Numbers DEF RequestFails
  <2>2. CASE StoreRejects(s)
    <3>1. ~ready => Head(ipc) = "hydrate"
      BY <2>2 DEF StoreInv, StartShape, StoreRejects
    <3> QED BY <2>2, <3>1, MailSyncAssumption DEF StoreRejects
  <2> QED BY <2>1, <2>2
<1>5. NoSync.pc = "idle" /\ NoSync.op = "pull" /\ NoSync.dels = {} /\ ~NoSync.full
      /\ NoSync.got = NoMail /\ \A m \in Messages : NoSync.got[m] = 0
  BY DEF NoSync, NoMail
<1>6. CallOK(sync[s])'
  BY <1>2, <1>5 DEF CallOK, CallShape, CallTokens, GotFresh, WillBeComplete, SeesHistory,
     Loading, Late
<1> QED BY <1>1, <1>2, <1>3, <1>4, <1>5, <1>6, CallKeeps DEF Early

\* The mailbox of a call that is loaded, put into the Maps, is that of its token.
LEMMA ApplyDeltasKeeps ==
    ASSUME StoreInv, OneAtATime, TypeOK', NEW s \in Syncs, ApplyDeltas(s)
    PROVE  StoreInv'
<1>1. /\ sync[s].pc = "loaded" /\ sync[s].op = "pull"
      /\ UNCHANGED <<log, gone, cut, disk, hydr, ready, ipc, crashes, faults>>
  BY DEF ApplyDeltas, AppliesDeltas
<1>2. /\ sync'[s].pc = "labels" /\ sync'[s].op = sync[s].op
      /\ sync'[s].from = sync[s].from /\ sync'[s].token = sync[s].token
      /\ sync'[s].full = sync[s].full /\ sync'[s].ids = sync[s].ids
      /\ sync'[s].got = sync[s].got /\ sync'[s].dels = Deletes(s)
      /\ sync'[s].attDels = mem.atts \cap Deletes(s)
      /\ mem'.cursor = mem.cursor
      /\ mem'.atts = (mem.atts \ Deletes(s)) \cup (Upserted(s) \cap Attached)
      /\ \A m \in Messages : mem'.msgs[m] =
            IF sync[s].got[m] # 0 THEN sync[s].got[m]
            ELSE IF m \in Deletes(s) THEN 0 ELSE mem.msgs[m]
  BY ApplyDeltasCall, Numbers
<1>3. /\ ready /\ CallOK(sync[s]) /\ sync[s].from = mem.cursor /\ sync[s].ids = {}
      /\ sync[s].from \in Nat /\ sync[s].token \in Nat /\ sync[s].from <= sync[s].token
      /\ sync[s].full \/ sync[s].from # 0
      /\ \A m \in Messages : sync[s].got[m] \in Nat /\ mem.msgs[m] \in Nat
      /\ Len(log) \in Nat /\ Now = Len(log) + 1 /\ sync[s].token <= Now
      /\ Inbox \subseteq Messages
  BY <1>1, Numbers, MailSyncAssumption DEF CallOK, CallShape, CallTokens
<1>4. \A t \in Syncs : t = s
  BY DEF OneAtATime
<1>5. \A m \in Messages :
         /\ m \in Deletes(s) => sync[s].got[m] = 0
         /\ ~sync[s].full => (m \in Deletes(s) <=> m \in sync[s].dels)
         /\ sync[s].full => (sync[s].got[m] = 0 /\ mem.msgs[m] # 0 => m \in Deletes(s))
  BY <1>3 DEF Deletes, Upserted, CallOK, CallShape
<1>6. ~sync[s].full => \A m \in Messages : m \in Deletes(s) => m \in gone
  BY <1>1, <1>3, <1>5 DEF CallOK, WillBeComplete, Loading
<1>7. \A m \in Inbox \ gone : Needed(m, sync[s].token) =>
         m \notin Deletes(s) /\ (sync[s].got[m] # 0 \/ (sync[s].from # 0 /\ Needed(m, sync[s].from)))
  <2> SUFFICES ASSUME NEW m \in Inbox \ gone, Needed(m, sync[s].token)
               PROVE  /\ m \notin Deletes(s)
                      /\ sync[s].got[m] # 0 \/ (sync[s].from # 0 /\ Needed(m, sync[s].from))
    OBVIOUS
  <2>1. sync[s].got[m] # 0 \/ (~sync[s].full /\ Needed(m, sync[s].from))
    BY <1>1, <1>3 DEF CallOK, WillBeComplete, Loading
  <2> QED BY <1>3, <1>5, <1>6, <2>1
<1>8. mem.cursor # 0 => CompleteAt(mem, mem.cursor)
  BY DEF StoreInv, CursorShape
<1>9. \A m \in Inbox \ gone : Needed(m, sync[s].token) => mem'.msgs[m] # 0
  <2> SUFFICES ASSUME NEW m \in Inbox \ gone, Needed(m, sync[s].token)
               PROVE  mem'.msgs[m] # 0
    OBVIOUS
  <2>1. m \in Messages
    BY <1>3
  <2>2. CASE sync[s].got[m] # 0
    BY <1>2, <2>1, <2>2
  <2>3. CASE sync[s].got[m] = 0
    <3>1. mem.msgs[m] # 0 /\ m \notin Deletes(s)
      BY <1>3, <1>7, <1>8, <2>3 DEF CompleteAt
    <3> QED BY <1>2, <2>1, <2>3, <3>1
  <2> QED BY <2>2, <2>3
<1>10. \A m \in Messages : Needed(m, sync[s].from) => Needed(m, sync[s].token)
  BY <1>3 DEF Needed
<1>11. CursorShape'
  <2>1. CompleteAt(mem, mem.cursor)'
    BY <1>1, <1>2, <1>3, <1>9, <1>10 DEF CompleteAt, Needed
  <2>2. (disk.cursor # 0 => CompleteAt(disk, disk.cursor))'
    BY <1>1 DEF StoreInv, CursorShape, CompleteAt, Needed
  <2> QED BY <1>1, <1>2, <2>1, <2>2 DEF StoreInv, CursorShape, Now
<1>12. CallShape(sync[s])'
  <2>1. Deletes(s) \subseteq Messages
    BY Numbers DEF Deletes
  <2> QED BY <1>1, <1>2, <1>3, <1>5, <2>1 DEF CallShape, Loading
<1>13. CallTokens(sync[s])' /\ GotFresh(sync[s])'
  BY <1>1, <1>2, <1>3 DEF CallOK, CallTokens, GotFresh, Between, Now
<1>14. WillBeComplete(sync[s])'
  BY <1>1, <1>2, <1>3, <1>7, <1>9 DEF WillBeComplete, CompleteAt, Needed, Late, Loading
<1>15. SeesHistory(sync[s])'
  BY <1>2 DEF SeesHistory, Loading
<1>16. \A t \in Syncs : CallOK(sync[t])'
  BY <1>4, <1>12, <1>13, <1>14, <1>15 DEF CallOK
<1>17. StartShape' /\ HasLast'
  BY <1>1, <1>3 DEF StoreInv, StartShape, HasLast
<1>18. ASSUME faults = 0
       PROVE  mem.msgs = disk.msgs /\ mem.atts = disk.atts
  BY <1>1, <1>3, <1>4, <1>18 DEF StoreInv, SameMail
<1>19. SameMail'
  <2> SUFFICES ASSUME faults' = 0
               PROVE  /\ mem'.msgs = Behind(s)'.msgs /\ mem'.atts = Behind(s)'.atts
                      /\ (mem'.cursor = disk'.cursor) \/ (mem'.cursor = 0 /\ disk'.cursor = 1)
    BY <1>2, <1>4 DEF SameMail
  <2>1. /\ Behind(s)'.msgs = [m \in Messages |-> IF m \in Deletes(s) THEN 0
                                 ELSE IF sync[s].got[m] # 0 THEN sync[s].got[m] ELSE disk.msgs[m]]
        /\ Behind(s)'.atts = (disk.atts \cup (Upserted(s) \cap Attached))
                                 \ (mem.atts \cap Deletes(s))
    BY <1>1, <1>2 DEF Behind, Upserted
  <2>2. mem.msgs = disk.msgs /\ mem.atts = disk.atts
    BY <1>1, <1>18
  <2>3. mem'.msgs \in [Messages -> Versions]
    BY DEF TypeOK, Mail
  <2>4. \A m \in Messages : mem'.msgs[m] = Behind(s)'.msgs[m]
    BY <1>2, <1>5, <2>1, <2>2
  <2>5. mem'.msgs = Behind(s)'.msgs
    BY <2>1, <2>3, <2>4
  <2>6. \A m \in Messages : m \in Upserted(s) => m \notin Deletes(s)
    BY <1>5 DEF Upserted
  <2>7. Upserted(s) \subseteq Messages
    BY DEF Upserted
  <2>8. mem'.atts = Behind(s)'.atts
    BY <1>2, <2>1, <2>2, <2>6, <2>7
  <2>9. (mem.cursor = disk.cursor) \/ (mem.cursor = 0 /\ disk.cursor = 1)
    BY <1>1, <1>3, <1>4 DEF StoreInv, SameMail
  <2> QED BY <1>1, <1>2, <2>5, <2>8, <2>9
<1>20. ASSUME faults = 0, NEW m \in Messages, mem'.msgs[m] # 0, ~Due(m, sync[s].token)
       PROVE  ~Between(m, mem'.msgs[m], sync[s].token)
  <2>1. CASE sync[s].got[m] # 0
    BY <1>1, <1>2, <1>3, <2>1 DEF CallOK, GotFresh
  <2>2. CASE sync[s].got[m] = 0
    <3>1. m \notin Deletes(s) /\ mem'.msgs[m] = mem.msgs[m] /\ mem.msgs[m] # 0
      BY <1>2, <1>20, <2>2
    <3>2. ~sync[s].full /\ m \notin sync[s].dels /\ sync[s].from # 0
      BY <1>3, <1>5, <2>2, <3>1
    <3>3. /\ Between(m, sync[s].from - 1, sync[s].token) =>
                m \in sync[s].ids \cup sync[s].dels \/ sync[s].got[m] # 0
                \/ Due(m, sync[s].token)
          /\ Between(m, sync[s].from - 1, sync[s].token) /\ m \in gone
                /\ ~Due(m, sync[s].token) => m \in sync[s].dels
      BY <1>1, <1>3, <3>2 DEF CallOK, SeesHistory, Loading
    <3>4. ~Between(m, sync[s].from - 1, sync[s].token)
      BY <1>3, <1>20, <2>2, <3>2, <3>3
    <3>5. ~Due(m, sync[s].from)
      <4>1. CASE m \notin gone
        BY <4>1 DEF Due
      <4>2. CASE m \in gone
        BY <1>3, <1>20, <3>2, <3>4, <4>2 DEF Due, Between
      <4> QED BY <4>1, <4>2
    <3>6. ~Between(m, mem.msgs[m], sync[s].from)
      BY <1>3, <1>20, <3>1, <3>5 DEF StoreInv, FreshMail, FreshAt
    <3> QED BY <1>3, <3>1, <3>2, <3>4, <3>6 DEF Between
  <2> QED BY <2>1, <2>2
<1>21. ASSUME faults = 0, NEW m \in Messages, mem'.msgs[m] # 0, ~Due(m, sync[s].from)
       PROVE  ~Between(m, mem'.msgs[m], sync[s].from)
  <2>1. CASE sync[s].got[m] # 0
    <3>1. ~Between(m, sync[s].got[m], sync[s].token)
      BY <1>1, <1>3, <2>1 DEF CallOK, GotFresh
    <3> QED BY <1>2, <1>3, <2>1, <3>1 DEF Between
  <2>2. CASE sync[s].got[m] = 0
    <3>1. mem'.msgs[m] = mem.msgs[m] /\ mem.msgs[m] # 0
      BY <1>2, <1>21, <2>2
    <3> QED BY <1>3, <1>21, <3>1 DEF StoreInv, FreshMail, FreshAt
  <2> QED BY <2>1, <2>2
<1>22. FreshMail'
  <2> SUFFICES ASSUME faults' = 0 PROVE FreshMail'
    BY DEF FreshMail
  <2>1. faults = 0
    BY <1>1
  <2>2. FreshAt(disk, disk.cursor)' /\ \A m \in disk'.atts : disk'.msgs[m] # 0
    BY <1>1, <2>1 DEF StoreInv, FreshMail, FreshAt, Between, Due
  <2>3. FreshAt(mem, mem.cursor)'
    BY <1>1, <1>2, <1>3, <1>21, <2>1 DEF FreshAt, Between, Due
  <2>4. FreshAt(mem, sync[s].token)'
    BY <1>1, <1>2, <1>20, <2>1 DEF FreshAt, Between, Due
  <2>5. ASSUME NEW m \in mem'.atts
        PROVE  mem'.msgs[m] # 0
    <3>1. CASE m \in Upserted(s)
      BY <1>2, <3>1 DEF Upserted
    <3>2. CASE m \notin Upserted(s)
      <4>1. m \in mem.atts /\ m \notin Deletes(s)
        BY <1>2, <2>5, <3>2
      <4>2. m \in Messages /\ mem.msgs[m] # 0
        BY <1>3, <2>1, <4>1, MailFacts DEF StoreInv, FreshMail
      <4> QED BY <1>2, <1>5, <4>1, <4>2
    <3> QED BY <3>1, <3>2
  <2> QED BY <1>4, <2>2, <2>3, <2>4, <2>5 DEF FreshMail
<1>23. Indexed'
  BY <1>1, <1>2, <1>4 DEF StoreInv, Indexed
<1> QED BY <1>11, <1>16, <1>17, <1>19, <1>22, <1>23 DEF StoreInv

\* What a label sync or a search has found is at least as new as the cursor of the Map.
LEMMA ApplyFoundKeeps ==
    ASSUME StoreInv, OneAtATime, TypeOK', NEW s \in Syncs, ApplyFound(s)
    PROVE  StoreInv'
<1>1. /\ sync[s].pc = "loaded" /\ sync[s].op = "label" /\ ipc' = Append(ipc, s)
      /\ UNCHANGED <<log, gone, cut, disk, hydr, ready, crashes, faults>>
  BY DEF ApplyFound
<1>2. /\ Moves(s, "batch") /\ sync'[s].full = sync[s].full
      /\ sync'[s].token = (IF mem.cursor = 0 THEN 1 ELSE mem.cursor)
      /\ sync'[s].dels = sync[s].dels /\ sync'[s].got = sync[s].got
      /\ sync'[s].ids = sync[s].ids
      /\ mem'.cursor = mem.cursor
      /\ mem'.atts = mem.atts \cup (Upserted(s) \cap Attached)
      /\ \A m \in Messages : mem'.msgs[m] =
            IF sync[s].got[m] # 0 THEN sync[s].got[m] ELSE mem.msgs[m]
  BY ApplyFoundCall, Numbers
<1>3. /\ ready /\ CallOK(sync[s]) /\ sync[s].from = mem.cursor /\ mem.cursor \in Nat
      /\ sync[s].dels = {} /\ sync[s].attDels = {} /\ ~sync[s].full
      /\ \A m \in Messages : sync[s].got[m] \in Nat /\ mem.msgs[m] \in Nat
      /\ Inbox \subseteq Messages
  BY <1>1, Numbers, MailSyncAssumption DEF CallOK, CallShape
<1>4. \A t \in Syncs : t = s
  BY DEF OneAtATime
<1>5. CursorShape'
  <2>1. (mem.cursor # 0 => CompleteAt(mem, mem.cursor))'
    BY <1>1, <1>2, <1>3 DEF StoreInv, CursorShape, CompleteAt, Needed
  <2>2. (disk.cursor # 0 => CompleteAt(disk, disk.cursor))'
    BY <1>1 DEF StoreInv, CursorShape, CompleteAt, Needed
  <2> QED BY <1>1, <1>2, <2>1, <2>2 DEF StoreInv, CursorShape, Now
<1>6. CallShape(sync[s])' /\ CallTokens(sync[s])'
  BY <1>1, <1>2, <1>3 DEF Moves, CallShape, CallTokens, Loading
<1>7. GotFresh(sync[s])' /\ WillBeComplete(sync[s])' /\ SeesHistory(sync[s])'
  BY <1>1, <1>2, <1>3 DEF Moves, CallOK, GotFresh, WillBeComplete, SeesHistory, Between
<1>8. \A t \in Syncs : CallOK(sync[t])'
  BY <1>4, <1>6, <1>7 DEF CallOK
<1>9. HasLast' /\ StartShape'
  <2>1. ipc \in Seq(Syncs \cup {"hydrate"}) /\ \A i \in 1..Len(ipc) : ipc[i] # "hydrate"
    BY <1>3 DEF StoreInv, StartShape, TypeOK
  <2>2. \A i \in 1..Len(ipc') : ipc'[i] # "hydrate"
    BY <1>1, <2>1, MailSyncAssumption
  <2> QED BY <1>1, <1>3, <2>2 DEF StoreInv, StartShape, HasLast
<1>10. SameMail'
  <2> SUFFICES ASSUME faults' = 0
               PROVE  /\ mem'.msgs = Behind(s)'.msgs /\ mem'.atts = Behind(s)'.atts
                      /\ (mem'.cursor = disk'.cursor) \/ (mem'.cursor = 0 /\ disk'.cursor = 1)
    BY <1>2, <1>4 DEF SameMail, Moves
  <2>1. /\ Behind(s)'.msgs = [m \in Messages |-> IF m \in sync[s].dels THEN 0
                                 ELSE IF sync[s].got[m] # 0 THEN sync[s].got[m] ELSE disk.msgs[m]]
        /\ Behind(s)'.atts = (disk.atts \cup (Upserted(s) \cap Attached)) \ sync[s].attDels
    BY <1>1, <1>2 DEF Behind, Upserted, Moves
  <2>2. mem.msgs = disk.msgs /\ mem.atts = disk.atts
    BY <1>1, <1>3, <1>4 DEF StoreInv, SameMail
  <2>3. mem'.msgs \in [Messages -> Versions]
    BY DEF TypeOK, Mail
  <2>4. mem'.msgs = Behind(s)'.msgs
    BY <1>2, <1>3, <2>1, <2>2, <2>3
  <2>5. (mem.cursor = disk.cursor) \/ (mem.cursor = 0 /\ disk.cursor = 1)
    BY <1>1, <1>3, <1>4 DEF StoreInv, SameMail
  <2> QED BY <1>1, <1>2, <1>3, <2>1, <2>2, <2>4, <2>5
<1>11. FreshMail'
  <2> SUFFICES ASSUME faults' = 0 PROVE FreshMail'
    BY DEF FreshMail
  <2>1. faults = 0
    BY <1>1
  <2>2. FreshAt(disk, disk.cursor)' /\ \A m \in disk'.atts : disk'.msgs[m] # 0
    BY <1>1, <2>1 DEF StoreInv, FreshMail, FreshAt, Between, Due
  <2>3. \A m \in Messages : mem'.msgs[m] # 0 /\ ~Due(m, mem.cursor) =>
           ~Between(m, mem'.msgs[m], mem.cursor)
    BY <1>1, <1>2, <1>3, <2>1 DEF StoreInv, FreshMail, FreshAt, CallOK, GotFresh
  <2>4. FreshAt(mem, mem.cursor)'
    BY <1>1, <1>2, <2>3 DEF FreshAt, Between, Due
  <2>5. FreshAt(mem, sync[s].token)'
    <3>1. CASE mem.cursor = 0
      BY <1>2, <1>3, <3>1 DEF FreshAt, Between
    <3>2. CASE mem.cursor # 0
      BY <1>2, <2>4, <3>2 DEF FreshAt, Between, Due
    <3> QED BY <3>1, <3>2
  <2>6. \A m \in mem'.atts : mem'.msgs[m] # 0
    BY <1>2, <1>3, <2>1, MailFacts DEF StoreInv, FreshMail, Upserted
  <2> QED BY <1>4, <2>2, <2>4, <2>5, <2>6 DEF FreshMail
<1>12. Indexed'
  BY <1>1, <1>2, <1>4 DEF StoreInv, Indexed, Moves
<1> QED BY <1>5, <1>8, <1>9, <1>10, <1>11, <1>12 DEF StoreInv

LEMMA LabelsArriveKeeps ==
    ASSUME StoreInv, OneAtATime, TypeOK', NEW s \in Syncs, LabelsArrive(s)
    PROVE  StoreInv'
<1>1. /\ sync[s].pc = "labels" /\ ipc' = Append(ipc, s)
      /\ UNCHANGED <<log, gone, cut, mem, disk, hydr, ready, crashes, faults>>
  BY DEF LabelsArrive
<1>2. /\ Moves(s, "batch") /\ sync'[s].token = sync[s].token
      /\ sync'[s].full = sync[s].full /\ sync'[s].dels = sync[s].dels
      /\ sync'[s].ids = sync[s].ids /\ sync'[s].got = sync[s].got
  BY LabelsArriveCall, Numbers
<1>3. /\ ready /\ CallOK(sync[s]) /\ sync[s].op = "pull"
  BY <1>1, Numbers DEF CallOK, CallShape
<1>4. \A t \in Syncs : t = s
  BY DEF OneAtATime
<1>5. HasLast' /\ CursorShape'
  BY <1>1 DEF StoreInv, HasLast, CursorShape, CompleteAt, Needed, Now
<1>6. CallShape(sync[s])' /\ CallTokens(sync[s])' /\ GotFresh(sync[s])'
  BY <1>1, <1>2, <1>3 DEF Moves, CallOK, CallShape, CallTokens, GotFresh, Between, Loading, Now
<1>7. WillBeComplete(sync[s])' /\ SeesHistory(sync[s])'
  BY <1>1, <1>2, <1>3 DEF Moves, CallOK, WillBeComplete, SeesHistory, CompleteAt, Needed, Loading,
     Late
<1>8. \A t \in Syncs : CallOK(sync[t])'
  BY <1>4, <1>6, <1>7 DEF CallOK
<1>9. StartShape'
  <2>1. ipc \in Seq(Syncs \cup {"hydrate"}) /\ \A i \in 1..Len(ipc) : ipc[i] # "hydrate"
    BY <1>3 DEF StoreInv, StartShape, TypeOK
  <2>2. \A i \in 1..Len(ipc') : ipc'[i] # "hydrate"
    BY <1>1, <2>1, MailSyncAssumption
  <2> QED BY <1>1, <1>3, <2>2 DEF StoreInv, StartShape
<1>10. SameMail'
  <2>1. /\ Behind(s)'.msgs = Behind(s).msgs /\ Behind(s)'.atts = Behind(s).atts
    BY <1>1, <1>2 DEF Behind, Upserted, Moves
  <2> QED BY <1>1, <1>2, <1>4, <2>1 DEF StoreInv, SameMail, Moves
<1>11. FreshMail'
  BY <1>1, <1>2, <1>4 DEF StoreInv, FreshMail, FreshAt, Between, Due, Late, Moves
<1>12. Indexed'
  BY <1>1, <1>2, <1>4 DEF StoreInv, Indexed, Moves
<1> QED BY <1>5, <1>8, <1>9, <1>10, <1>11, <1>12 DEF StoreInv

\* Behind a command of s: the call is over, or has messages left to index.
LEMMA GoesOnShape ==
    ASSUME StoreInv, NEW s \in Syncs, NEW left \in SUBSET Messages, GoesOn(s, left),
           ipc # <<>>, ready, UNCHANGED <<ready, hydr>>
    PROVE  StartShape'
<1>1. ipc \in Seq(Syncs \cup {"hydrate"}) /\ \A i \in 1..Len(ipc) : ipc[i] # "hydrate"
  BY DEF StoreInv, StartShape, TypeOK
<1>2. ipc' = Tail(ipc) \/ ipc' = Append(Tail(ipc), s)
  BY DEF GoesOn
<1>3. \A i \in 1..Len(ipc') : ipc'[i] # "hydrate"
  <2>1. Tail(ipc) \in Seq(Syncs) /\ s \in Syncs
    BY <1>1
  <2>2. ipc' \in Seq(Syncs)
    BY <1>2, <2>1
  <2> QED BY <2>2, MailSyncAssumption
<1> QED BY <1>3 DEF StoreInv, StartShape

\* The batch makes the store what the Maps are.
LEMMA BatchKeeps ==
    ASSUME StoreInv, OneAtATime, TypeOK', NEW s \in Syncs, BatchExecutes(s)
    PROVE  StoreInv'
<1> DEFINE left == Upserted(s)
<1>1. /\ sync[s].pc = "batch" /\ ipc # <<>> /\ GoesOn(s, left)
      /\ UNCHANGED <<log, gone, cut, hydr, ready, crashes, faults>>
  BY DEF BatchExecutes
<1>2. left \in SUBSET Messages /\ \A m \in Messages : m \in left <=> sync[s].got[m] # 0
  BY DEF Upserted
<1> HIDE DEF left
<1>3. /\ left = {} => sync'[s] = NoSync
      /\ left # {} => /\ Moves(s, "index") /\ sync'[s].token = sync[s].token
                      /\ sync'[s].full = sync[s].full /\ sync'[s].dels = sync[s].dels
                      /\ sync'[s].ids = left /\ sync'[s].got = sync[s].got
      /\ mem'.msgs = mem.msgs /\ mem'.atts = mem.atts
      /\ mem'.cursor = IF left = {} /\ sync[s].op = "pull" THEN sync[s].token ELSE mem.cursor
  BY <1>1, <1>2, GoesOnCall, Numbers
<1>4. /\ disk'.cursor = sync[s].token /\ disk'.index = disk.index
      /\ disk'.atts = (disk.atts \cup (Upserted(s) \cap Attached)) \ sync[s].attDels
      /\ \A m \in Messages : disk'.msgs[m] =
            IF m \in sync[s].dels THEN 0
            ELSE IF sync[s].got[m] # 0 THEN sync[s].got[m] ELSE disk.msgs[m]
  BY BatchStored, Numbers
<1>5. /\ ready /\ CallOK(sync[s]) /\ sync[s].from = mem.cursor
      /\ sync[s].from \in Nat /\ sync[s].token \in Nat /\ disk.cursor \in Nat
      /\ mem.cursor <= disk.cursor
      /\ Len(log) \in Nat /\ Now = Len(log) + 1 /\ sync[s].from <= Now
      /\ \A m \in Messages : sync[s].got[m] \in Nat /\ disk.msgs[m] \in Nat
      /\ sync[s].op \in {"pull", "label"} /\ sync[s].dels \subseteq Messages
      /\ Inbox \subseteq Messages
  BY <1>1, Numbers, MailSyncAssumption
<1>6. \A t \in Syncs : t = s
  BY DEF OneAtATime
<1>7. /\ sync[s].op = "label" =>
            /\ sync[s].dels = {} /\ ~sync[s].full
            /\ sync[s].token = IF sync[s].from = 0 THEN 1 ELSE sync[s].from
      /\ sync[s].from <= sync[s].token /\ sync[s].token <= Now
      /\ \A m \in sync[s].dels : sync[s].got[m] = 0
  BY <1>1, <1>5 DEF CallOK, CallShape, CallTokens
<1>8. sync[s].op = "pull" => \A m \in Inbox \ gone : Needed(m, sync[s].token) =>
         /\ mem.msgs[m] # 0 /\ m \notin sync[s].dels
         /\ sync[s].got[m] # 0 \/ (sync[s].from # 0 /\ Needed(m, sync[s].from))
  BY <1>1, <1>5 DEF CallOK, WillBeComplete, CompleteAt, Late
<1>9. disk.cursor # 0 => CompleteAt(disk, disk.cursor)
  BY DEF StoreInv, CursorShape
<1>10. \A m \in Inbox \ gone : Needed(m, sync[s].token) => disk'.msgs[m] # 0
  <2> SUFFICES ASSUME NEW m \in Inbox \ gone, Needed(m, sync[s].token)
               PROVE  disk'.msgs[m] # 0
    OBVIOUS
  <2>1. m \in Messages
    BY <1>5
  <2>2. m \notin sync[s].dels
    BY <1>5, <1>7, <1>8
  <2>3. CASE sync[s].got[m] # 0
    BY <1>4, <2>1, <2>2, <2>3
  <2>4. CASE sync[s].got[m] = 0
    <3>1. sync[s].from # 0 /\ Needed(m, sync[s].from)
      <4>1. CASE sync[s].op = "pull"
        BY <1>8, <2>4, <4>1
      <4>2. CASE sync[s].op = "label"
        <5>1. cut[m] \in Nat /\ 1 <= cut[m]
          BY <2>1, Numbers
        <5> QED BY <1>5, <1>7, <2>4, <4>2, <5>1 DEF Needed
      <4> QED BY <1>5, <4>1, <4>2
    <3>2. disk.cursor # 0 /\ Needed(m, disk.cursor)
      BY <1>5, <3>1 DEF Needed
    <3> QED BY <1>4, <1>9, <2>1, <2>2, <2>4, <3>2 DEF CompleteAt
  <2> QED BY <2>3, <2>4
<1>11. CursorShape'
  <2>1. CompleteAt(disk, disk.cursor)'
    BY <1>1, <1>4, <1>10 DEF CompleteAt, Needed
  <2>2. (mem.cursor # 0 => CompleteAt(mem, mem.cursor))'
    <3>1. CASE mem'.cursor = mem.cursor
      BY <1>1, <1>3, <3>1 DEF StoreInv, CursorShape, CompleteAt, Needed
    <3>2. CASE mem'.cursor = sync[s].token /\ sync[s].op = "pull"
      BY <1>1, <1>3, <1>8, <3>2 DEF CompleteAt, Needed
    <3> QED BY <1>3, <3>1, <3>2
  <2>3. mem'.cursor <= disk'.cursor /\ disk'.cursor <= Now'
    BY <1>1, <1>3, <1>4, <1>5, <1>7 DEF Now
  <2>4. \A m \in Messages : 1 <= cut'[m] /\ cut'[m] <= Now'
    BY <1>1 DEF StoreInv, CursorShape, Now
  <2> QED BY <2>1, <2>2, <2>3, <2>4 DEF CursorShape
<1>12. CallOK(sync[s])'
  <2>1. CASE left = {}
    <3>1. /\ NoSync.pc = "idle" /\ NoSync.op = "pull" /\ NoSync.dels = {} /\ ~NoSync.full
          /\ NoSync.got = NoMail /\ \A m \in Messages : NoSync.got[m] = 0
      BY DEF NoSync, NoMail
    <3>2. sync'[s] = NoSync
      BY <1>3, <2>1
    <3> QED BY <3>1, <3>2 DEF CallOK, CallShape, CallTokens, GotFresh, WillBeComplete,
               SeesHistory, Loading, Late
  <2>2. CASE left # {}
    <3>1. mem'.cursor = mem.cursor
      BY <1>3, <2>2
    <3>2. CallShape(sync[s])' /\ CallTokens(sync[s])'
      BY <1>1, <1>2, <1>3, <1>4, <1>5, <1>7, <2>2, <3>1 DEF Moves, CallOK, CallShape, CallTokens,
         Loading, Now
    <3>3. GotFresh(sync[s])'
      BY <1>1, <1>3, <1>5, <2>2 DEF Moves, CallOK, GotFresh, Between
    <3>4. WillBeComplete(sync[s])' /\ SeesHistory(sync[s])'
      BY <1>1, <1>3, <1>8, <2>2 DEF Moves, WillBeComplete, SeesHistory, CompleteAt, Needed, Loading,
         Late
    <3> QED BY <3>2, <3>3, <3>4 DEF CallOK
  <2> QED BY <2>1, <2>2
<1>13. \A t \in Syncs : CallOK(sync[t])'
  BY <1>6, <1>12
<1>14. HasLast' /\ StartShape'
  <2>1. HasLast'
    BY <1>1 DEF StoreInv, HasLast
  <2>2. UNCHANGED <<ready, hydr>> /\ ipc # <<>> /\ ready
    BY <1>1, <1>5
  <2>3. StartShape'
    BY <1>1, <1>2, <2>2, GoesOnShape
  <2> QED BY <2>1, <2>3
<1>15. sync'[s].pc \in {"idle", "index"} /\ (sync'[s].pc = "idle" <=> left = {})
       /\ (sync'[s].pc = "index" => sync'[s].op = sync[s].op /\ sync'[s].token = sync[s].token)
  BY <1>3 DEF Moves, NoSync
<1>16. faults = 0 => mem.msgs = disk'.msgs /\ mem.atts = disk'.atts
  <2> SUFFICES ASSUME faults = 0 PROVE mem.msgs = disk'.msgs /\ mem.atts = disk'.atts
    OBVIOUS
  <2>1. mem.msgs = Behind(s).msgs /\ mem.atts = Behind(s).atts
    BY <1>1, <1>5 DEF StoreInv, SameMail
  <2>2. disk'.msgs \in [Messages -> Versions]
    BY DEF TypeOK, Store
  <2>3. /\ Behind(s).msgs = [m \in Messages |-> IF m \in sync[s].dels THEN 0
                                 ELSE IF sync[s].got[m] # 0 THEN sync[s].got[m] ELSE disk.msgs[m]]
        /\ Behind(s).atts = disk'.atts
    BY <1>4 DEF Behind
  <2> QED BY <1>4, <2>1, <2>2, <2>3
<1>17. SameMail'
  <2>1. ~(sync'[s].pc = "index" /\ sync'[s].op = "pull") =>
           (mem'.cursor = disk'.cursor) \/ (mem'.cursor = 0 /\ disk'.cursor = 1)
    BY <1>3, <1>4, <1>5, <1>7, <1>15
  <2> QED BY <1>1, <1>3, <1>6, <1>15, <1>16, <2>1 DEF SameMail
<1>18. FreshMail'
  <2> SUFFICES ASSUME faults = 0 PROVE FreshMail'
    BY <1>1 DEF FreshMail
  <2>1. FreshAt(mem, sync[s].token) /\ FreshAt(mem, mem.cursor)
        /\ \A m \in mem.atts : mem.msgs[m] # 0
    BY <1>1, <1>5 DEF StoreInv, FreshMail, Late
  <2>2. FreshAt(disk, disk.cursor)'
    BY <1>1, <1>4, <1>16, <2>1 DEF FreshAt, Between, Due
  <2>3. FreshAt(mem, mem.cursor)'
    BY <1>1, <1>3, <2>1 DEF FreshAt, Between, Due
  <2>4. sync'[s].pc \in Late => FreshAt(mem, sync[s].token)'
    BY <1>1, <1>3, <1>15, <2>1 DEF FreshAt, Between, Due, Late
  <2>5. \A m \in disk'.atts : disk'.msgs[m] # 0
    BY <1>16, <2>1
  <2>6. \A m \in mem'.atts : mem'.msgs[m] # 0
    BY <1>3, <2>1
  <2> QED BY <1>6, <2>2, <2>3, <2>4, <2>5, <2>6 DEF FreshMail
<1>19. Indexed'
  <2> SUFFICES ASSUME faults = 0, crashes = 0 PROVE Indexed'
    BY <1>1 DEF Indexed
  <2>1. ASSUME NEW m \in Messages, disk'.msgs[m] # 0
        PROVE  (disk'.index[m] = disk'.msgs[m]) \/ (sync'[s].pc = "index" /\ m \in sync'[s].ids)
    <3>1. CASE sync[s].got[m] # 0
      BY <1>2, <1>3, <3>1 DEF Moves
    <3>2. CASE sync[s].got[m] = 0
      <4>1. disk'.msgs[m] = disk.msgs[m]
        BY <1>4, <2>1, <3>2
      <4>2. disk.index[m] = disk.msgs[m]
        BY <1>1, <1>6, <2>1, <4>1 DEF StoreInv, Indexed
      <4> QED BY <1>4, <4>1, <4>2
    <3> QED BY <3>1, <3>2
  <2>2. ASSUME sync'[s].pc = "index", NEW m \in sync'[s].ids
        PROVE  disk'.msgs[m] = sync'[s].got[m]
    <3>1. left # {} /\ m \in left
      BY <1>3, <1>15, <2>2
    <3>2. m \in Messages /\ sync[s].got[m] # 0 /\ m \notin sync[s].dels
      BY <1>2, <1>7, <3>1
    <3> QED BY <1>3, <1>4, <3>1, <3>2
  <2> QED BY <1>6, <2>1, <2>2 DEF Indexed
<1> QED BY <1>11, <1>13, <1>14, <1>17, <1>18, <1>19 DEF StoreInv

\* Indexing changes nothing but the index, and behind the last message the cursor of the Map
\* becomes that of the store.
LEMMA IndexKeeps ==
    ASSUME StoreInv, OneAtATime, TypeOK', NEW s \in Syncs, IndexExecutes(s)
    PROVE  StoreInv'
<1>1. /\ sync[s].pc = "index" /\ ipc # <<>>
      /\ UNCHANGED <<log, gone, cut, hydr, ready, crashes, faults>>
  BY DEF IndexExecutes
<1>2. PICK x \in sync[s].ids :
         /\ disk'.msgs = disk.msgs /\ disk'.atts = disk.atts /\ disk'.cursor = disk.cursor
         /\ \A m \in Messages :
               disk'.index[m] = IF m = x THEN sync[s].got[x] ELSE disk.index[m]
         /\ GoesOn(s, sync[s].ids \ {x})
  BY IndexStored, Numbers
<1> DEFINE left == sync[s].ids \ {x}
<1>3. left \in SUBSET Messages /\ GoesOn(s, left) /\ x \in Messages
  BY <1>2, Numbers
<1>4. \A m \in Messages : m \in left <=> m \in sync[s].ids /\ m # x
  OBVIOUS
<1> HIDE DEF left
<1>5. /\ left = {} => sync'[s] = NoSync
      /\ left # {} => /\ Moves(s, "index") /\ sync'[s].token = sync[s].token
                      /\ sync'[s].full = sync[s].full /\ sync'[s].dels = sync[s].dels
                      /\ sync'[s].ids = left /\ sync'[s].got = sync[s].got
      /\ mem'.msgs = mem.msgs /\ mem'.atts = mem.atts
      /\ mem'.cursor = IF left = {} /\ sync[s].op = "pull" THEN sync[s].token ELSE mem.cursor
  BY <1>3, GoesOnCall, Numbers
<1>6. /\ ready /\ CallOK(sync[s]) /\ disk.cursor = sync[s].token
      /\ sync[s].op \in {"pull", "label"} /\ sync[s].dels \subseteq Messages
      /\ mem.cursor <= disk.cursor /\ disk.cursor \in Nat
      /\ \A m \in sync[s].ids : sync[s].got[m] # 0
  BY <1>1, Numbers DEF CallOK, CallShape
<1>7. \A t \in Syncs : t = s
  BY DEF OneAtATime
<1>8. sync[s].op = "pull" => CompleteAt(mem, sync[s].token)
  BY <1>1, <1>6 DEF CallOK, WillBeComplete, Late
<1>9. CursorShape'
  <2>1. (disk.cursor # 0 => CompleteAt(disk, disk.cursor))'
    BY <1>1, <1>2 DEF StoreInv, CursorShape, CompleteAt, Needed
  <2>2. (mem.cursor # 0 => CompleteAt(mem, mem.cursor))'
    <3>1. CASE mem'.cursor = mem.cursor
      BY <1>1, <1>5, <3>1 DEF StoreInv, CursorShape, CompleteAt, Needed
    <3>2. CASE mem'.cursor = sync[s].token /\ sync[s].op = "pull"
      BY <1>1, <1>5, <1>8, <3>2 DEF CompleteAt, Needed
    <3> QED BY <1>5, <3>1, <3>2
  <2>3. mem'.cursor <= disk'.cursor /\ disk'.cursor <= Now'
    BY <1>1, <1>2, <1>5, <1>6 DEF StoreInv, CursorShape, Now
  <2>4. \A m \in Messages : 1 <= cut'[m] /\ cut'[m] <= Now'
    BY <1>1 DEF StoreInv, CursorShape, Now
  <2> QED BY <2>1, <2>2, <2>3, <2>4 DEF CursorShape
<1>10. CallOK(sync[s])'
  <2>1. CASE left = {}
    <3>1. /\ NoSync.pc = "idle" /\ NoSync.op = "pull" /\ NoSync.dels = {} /\ ~NoSync.full
          /\ NoSync.got = NoMail /\ \A m \in Messages : NoSync.got[m] = 0
      BY DEF NoSync, NoMail
    <3>2. sync'[s] = NoSync
      BY <1>5, <2>1
    <3> QED BY <3>1, <3>2 DEF CallOK, CallShape, CallTokens, GotFresh, WillBeComplete,
               SeesHistory, Loading, Late
  <2>2. CASE left # {}
    <3>1. mem'.cursor = mem.cursor
      BY <1>5, <2>2
    <3>2. \A m \in left : m \in sync[s].ids
      BY <1>3, <1>4
    <3>3. CallShape(sync[s])'
      BY <1>1, <1>2, <1>5, <1>6, <2>2, <3>1, <3>2 DEF Moves, CallOK, CallShape, Loading
    <3>4. CallTokens(sync[s])'
      BY <1>1, <1>5, <1>6, <2>2 DEF Moves, CallOK, CallTokens, Now
    <3>5. GotFresh(sync[s])'
      BY <1>1, <1>5, <1>6, <2>2 DEF Moves, CallOK, GotFresh, Between
    <3>6. WillBeComplete(sync[s])' /\ SeesHistory(sync[s])'
      BY <1>1, <1>5, <1>8, <2>2 DEF Moves, WillBeComplete, SeesHistory, CompleteAt, Needed, Loading,
         Late
    <3> QED BY <3>3, <3>4, <3>5, <3>6 DEF CallOK
  <2> QED BY <2>1, <2>2
<1>11. \A t \in Syncs : CallOK(sync[t])'
  BY <1>7, <1>10
<1>12. HasLast' /\ StartShape'
  <2>1. HasLast'
    BY <1>1 DEF StoreInv, HasLast
  <2>2. StartShape'
    BY <1>1, <1>3, <1>6, GoesOnShape
  <2> QED BY <2>1, <2>2
<1>13. sync'[s].pc \in {"idle", "index"} /\ (sync'[s].pc = "idle" <=> left = {})
       /\ (sync'[s].pc = "index" => sync'[s].op = sync[s].op /\ sync'[s].token = sync[s].token)
  BY <1>5 DEF Moves, NoSync
<1>14. SameMail'
  <2> SUFFICES ASSUME faults = 0
               PROVE  /\ mem'.msgs = disk'.msgs /\ mem'.atts = disk'.atts
                      /\ \/ sync'[s].pc = "index" /\ sync'[s].op = "pull"
                         \/ (mem'.cursor = disk'.cursor) \/ (mem'.cursor = 0 /\ disk'.cursor = 1)
    BY <1>1, <1>7, <1>13 DEF SameMail
  <2>1. mem.msgs = disk.msgs /\ mem.atts = disk.atts
    BY <1>1, <1>6, <1>7 DEF StoreInv, SameMail
  <2>2. sync[s].op = "label" =>
           (mem.cursor = disk.cursor) \/ (mem.cursor = 0 /\ disk.cursor = 1)
    BY <1>6, <1>7 DEF StoreInv, SameMail
  <2> QED BY <1>2, <1>5, <1>6, <1>13, <2>1, <2>2
<1>15. FreshMail'
  <2> SUFFICES ASSUME faults = 0 PROVE FreshMail'
    BY <1>1 DEF FreshMail
  <2>1. /\ FreshAt(mem, sync[s].token) /\ FreshAt(mem, mem.cursor)
        /\ \A m \in mem.atts : mem.msgs[m] # 0
        /\ FreshAt(disk, disk.cursor) /\ \A m \in disk.atts : disk.msgs[m] # 0
    BY <1>1, <1>6 DEF StoreInv, FreshMail, Late
  <2>2. FreshAt(disk, disk.cursor)'
    BY <1>1, <1>2, <2>1 DEF FreshAt, Between, Due
  <2>3. FreshAt(mem, mem.cursor)'
    BY <1>1, <1>5, <2>1 DEF FreshAt, Between, Due
  <2>4. sync'[s].pc \in Late => FreshAt(mem, sync[s].token)'
    BY <1>1, <1>5, <1>13, <2>1 DEF FreshAt, Between, Due, Late
  <2> QED BY <1>2, <1>5, <1>7, <2>1, <2>2, <2>3, <2>4 DEF FreshMail
<1>16. Indexed'
  <2> SUFFICES ASSUME faults = 0, crashes = 0 PROVE Indexed'
    BY <1>1 DEF Indexed
  <2>1. /\ \A m \in Messages : disk.msgs[m] # 0 =>
              (disk.index[m] = disk.msgs[m]) \/ m \in sync[s].ids
        /\ \A m \in sync[s].ids : disk.msgs[m] = sync[s].got[m]
    BY <1>1, <1>7 DEF StoreInv, Indexed
  <2>2. ASSUME NEW m \in Messages, disk'.msgs[m] # 0
        PROVE  (disk'.index[m] = disk'.msgs[m]) \/ (sync'[s].pc = "index" /\ m \in sync'[s].ids)
    <3>1. CASE m = x
      BY <1>2, <1>3, <2>1, <3>1
    <3>2. CASE m # x
      BY <1>2, <1>4, <1>5, <1>13, <2>1, <2>2, <3>2
    <3> QED BY <3>1, <3>2
  <2>3. ASSUME sync'[s].pc = "index", NEW m \in sync'[s].ids
        PROVE  disk'.msgs[m] = sync'[s].got[m]
    <3>1. left # {} /\ m \in left
      BY <1>5, <1>13, <2>3
    <3> QED BY <1>2, <1>3, <1>4, <1>5, <2>1, <3>1
  <2> QED BY <1>7, <2>2, <2>3 DEF Indexed
<1> QED BY <1>9, <1>11, <1>12, <1>14, <1>15, <1>16 DEF StoreInv

\* A change of the provider comes behind every cursor there is.
LEMMA ProviderKeeps ==
    ASSUME StoreInv, TypeOK', HasLast', NEW m \in Messages, ProviderChanges(m)
    PROVE  StoreInv'
<1>1. /\ UNCHANGED <<cut, mem, disk, sync, hydr, ready, ipc, crashes, faults>>
      /\ gone' \in {gone, gone \cup {m}}
  BY DEF ProviderChanges
<1>2. /\ Len(log') = Len(log) + 1 /\ \A i \in 1..Len(log) : log'[i] = log[i]
      /\ log'[Len(log) + 1] = m /\ Len(log) \in Nat /\ Now = Len(log) + 1
      /\ Now' = Now + 1
  BY AppendFacts, Numbers DEF Now
<1>3. ASSUME NEW x \in Messages, NEW c \in Nat, c <= Now
      PROVE  /\ Needed(x, c)' <=> Needed(x, c)
             /\ Due(x, c) => Due(x, c)'
             /\ x \in gone' /\ x \notin gone => Due(x, c)'
  <2>1. Needed(x, c)' <=> Needed(x, c)
    <3>1. cut[x] \in Nat /\ 1 <= cut[x] /\ cut'[x] = cut[x]
      BY <1>1, Numbers
    <3>2. \A i \in cut[x]..(c - 1) : i \in 1..Len(log) /\ log'[i] = log[i]
      BY <1>2, <1>3, <3>1
    <3> QED BY <3>1, <3>2 DEF Needed
  <2>2. Due(x, c) => Due(x, c)'
    <3>1. CASE c = 0
      BY <1>1, <3>1 DEF Due
    <3>2. CASE c # 0
      BY <1>1, <1>2, <3>2 DEF Due
    <3> QED BY <3>1, <3>2
  <2>3. x \in gone' /\ x \notin gone => Due(x, c)'
    <3>1. x \in gone' /\ x \notin gone => x = m
      BY <1>1
    <3>2. Len(log) + 1 \in c..Len(log')
      BY <1>2, <1>3
    <3> QED BY <1>2, <3>1, <3>2 DEF Due
  <2> QED BY <2>1, <2>2, <2>3
<1>4. ASSUME NEW x, NEW v \in Nat, NEW c \in Nat, c <= Now
      PROVE  Between(x, v, c)' <=> Between(x, v, c)
  <2>1. \A i \in (v + 1)..(c - 1) : i \in 1..Len(log) /\ log'[i] = log[i]
    BY <1>2, <1>4
  <2> QED BY <2>1 DEF Between
<1>5. gone \subseteq gone'
  BY <1>1
<1>6. ASSUME NEW c \in Nat, c <= Now
      PROVE  /\ FreshAt(mem, c) => FreshAt(mem, c)'
             /\ FreshAt(disk, c) => FreshAt(disk, c)'
             /\ CompleteAt(mem, c) => CompleteAt(mem, c)'
             /\ CompleteAt(disk, c) => CompleteAt(disk, c)'
  <2>1. \A x \in Messages : mem.msgs[x] \in Nat /\ disk.msgs[x] \in Nat
    BY Numbers
  <2>2. FreshAt(mem, c) => FreshAt(mem, c)'
    BY <1>1, <1>3, <1>4, <1>6, <2>1 DEF FreshAt
  <2>3. FreshAt(disk, c) => FreshAt(disk, c)'
    BY <1>1, <1>3, <1>4, <1>6, <2>1 DEF FreshAt
  <2>4. /\ CompleteAt(mem, c) => CompleteAt(mem, c)'
        /\ CompleteAt(disk, c) => CompleteAt(disk, c)'
    BY <1>1, <1>3, <1>5, <1>6, MailSyncAssumption DEF CompleteAt
  <2> QED BY <2>2, <2>3, <2>4
<1>7. mem.cursor \in Nat /\ mem.cursor <= Now /\ disk.cursor \in Nat /\ disk.cursor <= Now
  BY Numbers
<1>8. CursorShape'
  BY <1>1, <1>2, <1>6, <1>7, Numbers DEF StoreInv, CursorShape
<1>9. ASSUME NEW s \in Syncs
      PROVE  CallOK(sync[s])'
  <2>1. /\ CallOK(sync[s]) /\ sync[s].from \in Nat /\ sync[s].token \in Nat
        /\ sync[s].pc # "idle" => sync[s].from <= Now
        /\ \A x \in Messages : sync[s].got[x] \in Nat
        /\ Inbox \subseteq Messages /\ sync[s].op \in {"pull", "label"}
        /\ sync[s].ids \subseteq Messages
    BY <1>7, Numbers, MailSyncAssumption
  <2>2. sync[s].op = "pull" /\ sync[s].pc \notin {"idle", "asked"} => sync[s].token <= Now
    BY <2>1 DEF CallOK, CallTokens
  <2>3. CallShape(sync[s])' /\ CallTokens(sync[s])'
    BY <1>1, <1>2, <2>1 DEF CallOK, CallShape, CallTokens
  <2>4. GotFresh(sync[s])'
    <3> SUFFICES ASSUME NEW x \in Messages, sync[s].got[x] # 0
                 PROVE  /\ sync[s].got[x] <= Len(log')
                        /\ ~Between(x, sync[s].got[x],
                                    IF sync[s].op = "pull" THEN sync[s].token ELSE sync[s].from)'
      BY <1>1 DEF GotFresh
    <3>1. /\ sync[s].got[x] <= Len(log)
          /\ ~Between(x, sync[s].got[x],
                      IF sync[s].op = "pull" THEN sync[s].token ELSE sync[s].from)
      BY <2>1 DEF CallOK, GotFresh
    <3>2. sync[s].pc \notin {"idle", "asked"}
      <4>1. sync[s].got # NoMail
        BY DEF NoMail
      <4> QED BY <2>1, <4>1 DEF CallOK, CallShape
    <3> QED BY <1>1, <1>2, <1>4, <2>1, <2>2, <3>1, <3>2
  <2>5. WillBeComplete(sync[s])'
    <3> SUFFICES ASSUME sync[s].op = "pull", sync[s].pc \notin {"idle", "asked"}
                 PROVE  WillBeComplete(sync[s])'
      BY <1>1 DEF WillBeComplete, Loading, Late
    <3>1. \A x \in Messages :
              /\ Needed(x, sync[s].token)' <=> Needed(x, sync[s].token)
              /\ Needed(x, sync[s].from)' <=> Needed(x, sync[s].from)
      BY <1>1, <1>3, <2>1, <2>2
    <3>2. CompleteAt(mem, sync[s].token) => CompleteAt(mem, sync[s].token)'
      BY <1>1, <1>6, <2>1, <2>2
    <3> QED BY <1>1, <1>5, <2>1, <3>1, <3>2 DEF CallOK, WillBeComplete
  <2>6. SeesHistory(sync[s])'
    <3> SUFFICES ASSUME sync[s].op = "pull", ~sync[s].full, sync[s].pc \in Loading,
                        NEW x \in Messages
                 PROVE  /\ Between(x, sync[s].from - 1, sync[s].token)' =>
                             x \in sync[s].ids \cup sync[s].dels \/ sync[s].got[x] # 0
                             \/ Due(x, sync[s].token)'
                        /\ Between(x, sync[s].from - 1, sync[s].token)' /\ x \in gone'
                             /\ ~Due(x, sync[s].token)' => x \in sync[s].dels
                        /\ x \in sync[s].ids /\ x \in gone' => Due(x, sync[s].token)'
      BY <1>1 DEF SeesHistory
    <3>1. sync[s].token <= Now /\ sync[s].from # 0
      BY <2>1, <2>2 DEF CallOK, CallTokens, Loading
    <3>2. Between(x, sync[s].from - 1, sync[s].token)' <=>
             Between(x, sync[s].from - 1, sync[s].token)
      <4>1. sync[s].from - 1 \in Nat
        BY <2>1, <3>1
      <4> QED BY <1>1, <1>4, <2>1, <3>1, <4>1
    <3>3. /\ Due(x, sync[s].token) => Due(x, sync[s].token)'
          /\ x \in gone' /\ x \notin gone => Due(x, sync[s].token)'
      BY <1>1, <1>3, <2>1, <3>1
    <3> QED BY <2>1, <3>2, <3>3 DEF CallOK, SeesHistory
  <2> QED BY <2>3, <2>4, <2>5, <2>6 DEF CallOK
<1>10. StartShape' /\ SameMail' /\ Indexed'
  BY <1>1 DEF StoreInv, StartShape, SameMail, Behind, Upserted, Indexed
<1>11. FreshMail'
  <2> SUFFICES ASSUME faults = 0 PROVE FreshMail'
    BY <1>1 DEF FreshMail
  <2>1. FreshAt(disk, disk.cursor)' /\ (ready => FreshAt(mem, mem.cursor)')
    BY <1>1, <1>6, <1>7 DEF StoreInv, FreshMail
  <2>2. ASSUME NEW s \in Syncs, sync[s].pc \in Late
        PROVE  FreshAt(mem, sync[s].token)'
    <3>1. sync[s].token \in Nat /\ sync[s].token <= Now
      <4>1. CallOK(sync[s]) /\ sync[s].token \in Nat /\ sync[s].from <= Now /\ Now \in Nat
            /\ 1 <= Now /\ sync[s].op \in {"pull", "label"}
        BY <1>2, <1>7, <2>2, Numbers DEF Late
      <4>2. sync[s].op = "label" => sync[s].pc # "labels"
        BY <4>1 DEF CallOK, CallShape
      <4> QED BY <2>2, <4>1, <4>2 DEF CallOK, CallTokens, Late
    <3> QED BY <1>1, <1>6, <2>2, <3>1 DEF StoreInv, FreshMail
  <2> QED BY <1>1, <2>1, <2>2 DEF StoreInv, FreshMail
<1> QED BY <1>8, <1>9, <1>10, <1>11 DEF StoreInv

\* hydrateLocal runs before the first call and is alone with the shell.
LEMMA ListsKeep ==
    ASSUME StoreInv, ~Rehydrates, TypeOK', HydrateStart \/ ListsExecute \/ ListsRejected
    PROVE  StoreInv'
<1>1. /\ UNCHANGED <<log, gone, cut, mem, disk, sync, ready, crashes>>
      /\ faults' = 0 => faults = 0
  BY DEF HydrateStart, ListsExecute, ListsRejected, StoreInv, TypeOK
<1>2. ~ready
  <2>1. CASE HydrateStart
    BY <2>1 DEF HydrateStart
  <2>2. CASE ListsExecute \/ ListsRejected
    <3>1. ipc # <<>> /\ Head(ipc) = "hydrate" /\ ipc \in Seq(Syncs \cup {"hydrate"})
      BY <2>2 DEF ListsExecute, ListsRejected, StoreInv, TypeOK
    <3>2. 1 \in 1..Len(ipc) /\ ipc[1] = "hydrate"
      BY <3>1
    <3> QED BY <3>2 DEF StoreInv, StartShape
  <2> QED BY <2>1, <2>2
<1>3. StartShape'
  <2>1. /\ mem.msgs = NoMail /\ mem.atts = {} /\ mem.cursor = 0
        /\ \A s \in Syncs : sync[s] = NoSync
        /\ ipc = IF hydr.pc = "listing" THEN <<"hydrate">> ELSE <<>>
    BY <1>2 DEF StoreInv, StartShape
  <2>2. CASE HydrateStart
    <3>1. hydr \in Hydrate /\ hydr.pc = "idle" /\ hydr' = [hydr EXCEPT !.pc = "listing"]
          /\ ipc' = Append(ipc, "hydrate")
      BY <2>2 DEF HydrateStart, StoreInv, TypeOK
    <3>2. hydr'.pc = "listing"
      BY <3>1 DEF Hydrate
    <3>3. ipc' = <<"hydrate">>
      <4>1. ipc = <<>>
        BY <2>1, <3>1
      <4> QED BY <3>1, <4>1
    <3> QED BY <1>1, <1>2, <2>1, <3>2, <3>3 DEF StartShape
  <2>3. CASE ListsExecute
    <3>1. /\ hydr'.pc = "listed" /\ hydr'.read.msgs = disk.msgs /\ hydr'.read.atts = disk.atts
          /\ hydr'.read.cursor = disk.cursor
      BY <2>3 DEF ListsExecute
    <3>2. ipc' = <<>>
      <4>1. ipc = <<"hydrate">> /\ ipc' = Tail(ipc)
        BY <2>1, <2>3 DEF ListsExecute
      <4> QED BY <4>1
    <3> QED BY <1>1, <1>2, <2>1, <3>1, <3>2 DEF StartShape
  <2>4. CASE ListsRejected
    <3>1. hydr'.pc = "idle"
      BY <2>4 DEF ListsRejected, NoHydrate
    <3>2. ipc' = <<>>
      <4>1. ipc = <<"hydrate">> /\ ipc' = Tail(ipc)
        BY <2>1, <2>4 DEF ListsRejected
      <4> QED BY <4>1
    <3> QED BY <1>1, <1>2, <2>1, <3>1, <3>2 DEF StartShape
  <2> QED BY <2>2, <2>3, <2>4
<1>4. HasLast' /\ CursorShape'
  BY <1>1 DEF StoreInv, HasLast, CursorShape, CompleteAt, Needed, Now
<1>5. \A s \in Syncs : CallOK(sync[s])'
  BY <1>1 DEF StoreInv, CallOK, CallShape, CallTokens, GotFresh, WillBeComplete, SeesHistory,
     CompleteAt, Needed, Between, Due, Now
<1>6. SameMail' /\ Indexed'
  BY <1>1 DEF StoreInv, SameMail, Behind, Upserted, Indexed
<1>7. FreshMail'
  BY <1>1 DEF StoreInv, FreshMail, FreshAt, Between, Due
<1> QED BY <1>3, <1>4, <1>5, <1>6, <1>7 DEF StoreInv

\* The Maps become what is stored.
LEMMA HydrateSetsKeeps ==
    ASSUME StoreInv, TypeOK', HydrateSets
    PROVE  StoreInv'
<1>1. /\ UNCHANGED <<log, gone, cut, disk, sync, ipc, crashes, faults>>
      /\ ready' = TRUE /\ hydr' = NoHydrate /\ hydr.pc = "listed"
  BY DEF HydrateSets
<1>2. ~ready
  BY <1>1 DEF StoreInv, StartShape
<1>3. /\ mem.msgs = NoMail /\ mem.atts = {} /\ mem.cursor = 0 /\ ipc = <<>>
      /\ \A s \in Syncs : sync[s] = NoSync
      /\ hydr.read.msgs = disk.msgs /\ hydr.read.atts = disk.atts
      /\ hydr.read.cursor = disk.cursor
  BY <1>1, <1>2 DEF StoreInv, StartShape
<1>4. mem'.msgs = disk.msgs /\ mem'.atts = disk.atts /\ mem'.cursor = disk.cursor
  <2>1. /\ mem'.msgs = [m \in Messages |-> IF hydr.read.msgs[m] # 0 THEN hydr.read.msgs[m]
                                           ELSE mem.msgs[m]]
        /\ mem'.atts = mem.atts \cup hydr.read.atts
        /\ mem'.cursor = IF hydr.read.cursor # 0 THEN hydr.read.cursor ELSE mem.cursor
    BY DEF HydrateSets
  <2>2. disk.msgs \in [Messages -> Versions]
    BY Numbers, MailFacts
  <2>3. \A m \in Messages : mem.msgs[m] = 0
    BY <1>3 DEF NoMail
  <2>4. mem'.msgs = disk.msgs
    BY <1>3, <2>1, <2>2, <2>3
  <2> QED BY <1>3, <2>1, <2>4
<1>5. StartShape'
  <2>1. NoHydrate.pc = "idle" /\ \A i \in 1..Len(ipc) : ipc[i] # "hydrate"
    BY <1>3 DEF NoHydrate
  <2> QED BY <1>1, <2>1 DEF StartShape
<1>6. HasLast' /\ CursorShape'
  <2>1. disk.cursor \in Nat /\ disk.cursor <= Now
    BY Numbers
  <2>2. HasLast'
    BY <1>1 DEF StoreInv, HasLast
  <2>3. disk.cursor # 0 => CompleteAt(disk, disk.cursor)
    BY DEF StoreInv, CursorShape
  <2>4. disk.cursor # 0 => CompleteAt(disk, disk.cursor)' /\ CompleteAt(mem, mem.cursor)'
    BY <1>1, <1>4, <2>3 DEF CompleteAt, Needed
  <2>5. \A m \in Messages : 1 <= cut'[m] /\ cut'[m] <= Now'
    BY <1>1 DEF StoreInv, CursorShape, Now
  <2> QED BY <1>1, <1>4, <2>1, <2>2, <2>4, <2>5 DEF CursorShape, Now
<1>7. /\ NoSync.pc = "idle" /\ NoSync.op = "pull" /\ NoSync.dels = {} /\ ~NoSync.full
      /\ NoSync.got = NoMail /\ \A m \in Messages : NoSync.got[m] = 0
  BY DEF NoSync, NoMail
<1>8. \A s \in Syncs : CallOK(sync[s])'
  <2> SUFFICES ASSUME NEW s \in Syncs PROVE CallOK(sync[s])'
    OBVIOUS
  <2>1. sync'[s] = NoSync
    BY <1>1, <1>3
  <2> QED BY <1>7, <2>1 DEF CallOK, CallShape, CallTokens, GotFresh, WillBeComplete,
             SeesHistory, Loading, Late
<1>9. \A s \in Syncs : sync'[s].pc = "idle"
  BY <1>1, <1>3, <1>7
<1>10. SameMail' /\ Indexed'
  BY <1>1, <1>3, <1>4, <1>7, <1>9 DEF StoreInv, SameMail, Indexed
<1>11. FreshMail'
  <2> SUFFICES ASSUME faults = 0 PROVE FreshMail'
    BY <1>1 DEF FreshMail
  <2>1. FreshAt(disk, disk.cursor) /\ \A m \in disk.atts : disk.msgs[m] # 0
    BY DEF StoreInv, FreshMail
  <2>2. FreshAt(disk, disk.cursor)' /\ FreshAt(mem, mem.cursor)'
    BY <1>1, <1>4, <2>1 DEF FreshAt, Between, Due
  <2> QED BY <1>1, <1>4, <1>9, <2>1, <2>2 DEF FreshMail, Late
<1> QED BY <1>5, <1>6, <1>8, <1>10, <1>11 DEF StoreInv

\* A restart leaves the store.
LEMMA RestartKeeps ==
    ASSUME StoreInv, TypeOK', Restart
    PROVE  StoreInv'
<1>1. /\ UNCHANGED <<log, gone, cut, disk, faults>> /\ ~ready' /\ hydr' = NoHydrate /\ ipc' = <<>>
      /\ mem'.msgs = NoMail /\ mem'.atts = {} /\ mem'.cursor = 0
      /\ \A s \in Syncs : sync'[s] = NoSync
  BY DEF Restart
<1>2. crashes' # 0
  BY DEF Restart, StoreInv, TypeOK
<1>3. /\ NoSync.pc = "idle" /\ NoSync.op = "pull" /\ NoSync.dels = {} /\ ~NoSync.full
      /\ NoSync.got = NoMail /\ NoHydrate.pc = "idle" /\ \A m \in Messages : NoSync.got[m] = 0
  BY DEF NoSync, NoMail, NoHydrate
<1>4. StartShape'
  BY <1>1, <1>3 DEF StartShape
<1>5. HasLast' /\ CursorShape'
  <2>1. disk.cursor \in Nat
    BY Numbers
  <2> QED BY <1>1, <2>1 DEF StoreInv, HasLast, CursorShape, CompleteAt, Needed, Now
<1>6. \A s \in Syncs : CallOK(sync[s])'
  <2> SUFFICES ASSUME NEW s \in Syncs PROVE CallOK(sync[s])'
    OBVIOUS
  <2>1. sync'[s] = NoSync
    BY <1>1
  <2> QED BY <1>3, <2>1 DEF CallOK, CallShape, CallTokens, GotFresh, WillBeComplete,
             SeesHistory, Loading, Late
<1>7. SameMail' /\ Indexed'
  BY <1>1, <1>2 DEF SameMail, Indexed
<1>8. FreshMail'
  BY <1>1, <1>3 DEF StoreInv, FreshMail, FreshAt, Between, Due, Late
<1> QED BY <1>4, <1>5, <1>6, <1>7, <1>8 DEF StoreInv

-----------------------------------------------------------------------------
(* All steps.                                                                 *)

LEMMA StoreInit == Init => StoreInv
<1> SUFFICES ASSUME Init PROVE StoreInv
  OBVIOUS
<1>1. TypeOK
  <2>1. mem \in Mail /\ disk \in Store /\ hydr \in Hydrate
    BY NoSyncTyped DEF Init, Mail, Store, Hydrate, NoHydrate
  <2>2. sync \in [Syncs -> Sync] /\ log \in Seq(Messages) /\ ipc \in Seq(Syncs \cup {"hydrate"})
    BY NoSyncTyped DEF Init
  <2>3. Len(log) <= MaxLog /\ crashes \in 0..MaxCrashes /\ faults \in 0..MaxFaults
    BY MailSyncAssumption DEF Init
  <2>4. cut \in [Messages -> Cursors]
    BY MailSyncAssumption DEF Init, Cursors
  <2> QED BY <2>1, <2>2, <2>3, <2>4 DEF Init, TypeOK
<1>2. HasLast
  BY DEF Init, HasLast
<1>3. /\ NoSync.pc = "idle" /\ NoSync.op = "pull" /\ NoSync.dels = {} /\ ~NoSync.full
      /\ NoSync.got = NoMail /\ NoHydrate.pc = "idle"
      /\ \A m \in Messages : NoSync.got[m] = 0 /\ NoMail[m] = 0
  BY DEF NoSync, NoMail, NoHydrate
<1>4. StartShape /\ CursorShape
  BY <1>3 DEF Init, StartShape, CursorShape, Now
<1>5. \A s \in Syncs : CallOK(sync[s])
  BY <1>3 DEF Init, CallOK, CallShape, CallTokens, GotFresh, WillBeComplete, SeesHistory,
     Loading, Late
<1>6. SameMail /\ FreshMail /\ Indexed
  BY <1>3 DEF Init, SameMail, FreshMail, FreshAt, Indexed, Late
<1> QED BY <1>1, <1>2, <1>4, <1>5, <1>6 DEF StoreInv

LEMMA StoreNext ==
    ASSUME StoreInv, OneAtATime, ~Rehydrates, Next
    PROVE  StoreInv'
<1>1. TypeOK' /\ HasLast'
  BY MailTypesNext, HasLastNext DEF StoreInv
<1>2. ASSUME NEW s \in Syncs, SyncStep(s)
      PROVE  StoreInv'
  BY <1>1, <1>2, StartKeeps, ReadHistoryKeeps, ReadProfileKeeps, ListFoundKeeps,
     LoadMessageKeeps, LoadedKeeps, ApplyDeltasKeeps, ApplyFoundKeeps, LabelsArriveKeeps,
     DropsKeeps, BatchKeeps, IndexKeeps DEF SyncStep
<1> QED BY <1>1, <1>2, ProviderKeeps, ListsKeep, HydrateSetsKeeps, RestartKeeps DEF Next

LEMMA StoreStutters == StoreInv /\ UNCHANGED vars => StoreInv'
<1> SUFFICES ASSUME StoreInv, UNCHANGED vars PROVE StoreInv'
  OBVIOUS
<1>1. UNCHANGED <<log, gone, cut, mem, disk, sync, hydr, ready, ipc, crashes, faults>>
  BY DEF vars
<1>2. TypeOK' /\ HasLast' /\ StartShape' /\ CursorShape'
  BY <1>1 DEF StoreInv, TypeOK, HasLast, StartShape, CursorShape, CompleteAt, Needed, Now
<1>3. \A s \in Syncs : CallOK(sync[s])'
  BY <1>1 DEF StoreInv, CallOK, CallShape, CallTokens, GotFresh, WillBeComplete, SeesHistory,
     CompleteAt, Needed, Between, Due, Now
<1>4. SameMail' /\ Indexed' /\ FreshMail'
  BY <1>1 DEF StoreInv, SameMail, Behind, Upserted, Indexed, FreshMail, FreshAt, Between, Due
<1> QED BY <1>2, <1>3, <1>4 DEF StoreInv

-----------------------------------------------------------------------------
(* What the invariant says.                                                   *)

LEMMA StoreGives ==
    ASSUME StoreInv
    PROVE  StoreTracksProvider /\ ScreenTracksProvider /\ AtRestAsStored
<1>1. ASSUME NEW m \in Messages, NEW c \in Nat, Due(m, c)
      PROVE  m \in gone /\ LastChange(m, Len(log)) >= c
  <2>1. Len(log) \in Nat /\ Len(log) \in 0..Len(log)
    BY Numbers
  <2>2. /\ LastChange(m, Len(log)) \in 0..Len(log)
        /\ \A i \in 1..Len(log) : log[i] = m => i <= LastChange(m, Len(log))
    BY <2>1, LastFacts, Numbers
  <2>3. CASE c = 0
    BY <1>1, <2>1, <2>2, <2>3 DEF Due
  <2>4. CASE c # 0
    <3>1. PICK i \in c..Len(log) : log[i] = m
      BY <1>1, <2>4 DEF Due
    <3> QED BY <1>1, <2>1, <2>2, <2>4, <3>1 DEF Due
  <2> QED BY <2>3, <2>4
<1>2. ASSUME NEW m \in Messages, NEW c \in Nat, NEW i \in cut[m]..Len(log), i < c, log[i] = m
      PROVE  Needed(m, c)
  <2>1. i \in cut[m]..(c - 1)
    BY <1>2, Numbers
  <2> QED BY <1>2, <2>1 DEF Needed
<1>3. mem.cursor \in Nat /\ disk.cursor \in Nat /\ mem.cursor <= Now /\ disk.cursor <= Now
  BY Numbers
<1>4. Inbox \subseteq Messages
  BY MailSyncAssumption
<1>5. /\ FreshAt(disk, disk.cursor) => Fresh(disk)
      /\ FreshAt(mem, mem.cursor) => Fresh(mem)
  BY <1>1, <1>3 DEF FreshAt, Fresh, WillGo, Between
<1>6. /\ disk.cursor # 0 /\ CompleteAt(disk, disk.cursor) => Complete(disk)
      /\ mem.cursor # 0 /\ CompleteAt(mem, mem.cursor) => Complete(mem)
  BY <1>2, <1>3, <1>4 DEF CompleteAt, Complete
<1>7. StoreTracksProvider
  BY <1>5, <1>6 DEF StoreInv, FreshMail, CursorShape, StoreTracksProvider, DurableFresh,
     DurableComplete, NoOrphanAttachments
<1>8. ScreenTracksProvider
  BY <1>5, <1>6 DEF StoreInv, FreshMail, CursorShape, ScreenTracksProvider, MemoryFresh,
     MemoryComplete
<1>9. AtRestAsStored
  <2>1. MemoryIsStored
    BY DEF StoreInv, SameMail, MemoryIsStored, Quiet
  <2>2. IndexIsStored
    BY DEF StoreInv, Indexed, IndexIsStored, Quiet
  <2> QED BY <2>1, <2>2 DEF AtRestAsStored
<1> QED BY <1>7, <1>8, <1>9

\* Only a batch sets the stored cursor, to one that was given after that of the Map.
LEMMA CursorStep ==
    ASSUME StoreInv, OneAtATime, Next, faults = 0
    PROVE  disk'.cursor >= disk.cursor
<1>1. disk.cursor \in Nat
  BY Numbers
<1>2. ASSUME NEW s \in Syncs, BatchExecutes(s)
      PROVE  disk'.cursor >= disk.cursor
  <2>1. disk'.cursor = sync[s].token
    BY <1>2, BatchStored, Numbers
  <2>2. /\ sync[s].pc = "batch" /\ CallOK(sync[s]) /\ ready /\ sync[s].from = mem.cursor
        /\ mem.cursor \in Nat /\ sync[s].token \in Nat /\ sync[s].op \in {"pull", "label"}
    BY <1>2, Numbers DEF BatchExecutes
  <2>3. \A t \in Syncs : t = s
    BY DEF OneAtATime
  <2>4. (mem.cursor = disk.cursor) \/ (mem.cursor = 0 /\ disk.cursor = 1)
    BY <2>2, <2>3 DEF StoreInv, SameMail
  <2>5. sync[s].token >= mem.cursor /\ sync[s].token >= 1
    BY <2>2 DEF CallOK, CallTokens
  <2> QED BY <1>1, <2>1, <2>2, <2>4, <2>5
<1>3. ASSUME NEW s \in Syncs, IndexExecutes(s)
      PROVE  disk'.cursor >= disk.cursor
  <2>1. disk'.cursor = disk.cursor
    BY <1>3, IndexStored, Numbers
  <2> QED BY <1>1, <2>1
<1>4. UNCHANGED disk \/ \E s \in Syncs : BatchExecutes(s) \/ IndexExecutes(s)
  BY Frames
<1> QED BY <1>1, <1>2, <1>3, <1>4

-----------------------------------------------------------------------------
(* Theorems about a Gmail account.                                            *)

LEMMA StoreAlways ==
    ASSUME OneAtATime, ~Rehydrates
    PROVE  MailSpec => []StoreInv
<1>1. MailInit => StoreInv
  BY StoreInit DEF MailInit
<1>2. StoreInv /\ [MailNext]_<<part, vars, graphVars>> => StoreInv'
  BY StoreNext, StoreStutters DEF MailNext
<1> QED BY <1>1, <1>2, PTL DEF MailSpec

\* With one call at a time the store is a mailbox from which following its cursor leads to
\* that of the provider, and keeps no attachment of a message that is gone.
THEOREM StoreFollows ==
    ASSUME OneAtATime, ~Rehydrates
    PROVE  MailSpec => []StoreTracksProvider
<1> QED BY StoreAlways, StoreGives, PTL

\* The same for what is on the screen.
THEOREM ScreenFollows ==
    ASSUME OneAtATime, ~Rehydrates
    PROVE  MailSpec => []ScreenTracksProvider
<1> QED BY StoreAlways, StoreGives, PTL

\* At rest the screen and the search show what a restart would.
THEOREM RestIsStored ==
    ASSUME OneAtATime, ~Rehydrates
    PROVE  MailSpec => []AtRestAsStored
<1> QED BY StoreAlways, StoreGives, PTL

\* The stored cursor never goes back, as long as no command was rejected.
THEOREM CursorGoesForward ==
    ASSUME OneAtATime, ~Rehydrates
    PROVE  MailSpec => CursorForward
<1>1. StoreInv /\ [MailNext]_<<part, vars, graphVars>> =>
         [faults = 0 => disk'.cursor >= disk.cursor]_vars
  BY CursorStep DEF MailNext
<1> QED BY <1>1, StoreAlways, PTL DEF MailSpec, CursorForward

\* The types of the two modules, with any number of calls at a time.
THEOREM MailTypesHold == MailSpec => []MailTypeOK
<1> DEFINE Typed == TypeOK /\ HasLast /\ LinkInv
<1>1. MailInit => Typed
  BY StoreInit, LinksInit DEF MailInit, StoreInv
<1>2. Typed /\ [MailNext]_<<part, vars, graphVars>> => Typed'
  <2> SUFFICES ASSUME Typed, [MailNext]_<<part, vars, graphVars>> PROVE Typed'
    OBVIOUS
  <2>1. LinkInv'
    BY LinksNext
  <2>2. Next \/ UNCHANGED vars
    BY DEF MailNext
  <2>3. TypeOK'
    BY <2>2, MailTypesNext DEF vars, TypeOK
  <2>4. HasLast'
    BY <2>2, HasLastNext
  <2> QED BY <2>1, <2>3, <2>4
<1>3. Typed => MailTypeOK
  BY DEF LinkInv, MailTypeOK
<1> QED BY <1>1, <1>2, <1>3, PTL DEF MailSpec
=============================================================================
