---------------------------- MODULE OutboxProofs ----------------------------
(* Proofs about Outbox for every number of rows, every kind and bound, any   *)
(* number of rejected commands and, where a theorem does not say otherwise,  *)
(* of overlapping flushes, restarts and stale lists: the types, that "done"  *)
(* is never reported for what had no effect, that held rows wait, and that   *)
(* the record comes before the effect; without a second hydrateLocal, that   *)
(* an undo is final, that a failed row waits for the user, that mutations go *)
(* out in order, and that the outbox implements its contract; with one flush *)
(* and no stop, that a message goes out once and the newest draft is kept.   *)
EXTENDS Outbox, SequenceTheorems, WellFoundedInduction,
        TLAPS

Carrying == {"saving", "saved", "calling", "applied", "settling"}
Stored == Carrying \ {"saving"}

\* A flush that carries a row holds an object of it, took it when it was due,
\* stored it before going on, and has the answer only after the effect.
FlushShape ==
    \A f \in Flushers :
        flush[f].pc \in Carrying =>
            /\ flush[f].row \in Rows /\ flush[f].slot \in Slots
            /\ flush[f].row \in due
            /\ flush[f].pc \in Stored => disk[flush[f].row].status # "none"
            /\ flush[f].pc = "applied" => sent[flush[f].row] > 0

\* Every put names a row and a real object, done only after an effect.
IpcShape ==
    \A i \in 1..Len(ipc) :
        ipc[i].by # "list" =>
            /\ ipc[i].row \in Rows
            /\ ipc[i].obj.status # "none"
            /\ ipc[i].obj.status = "done" => sent[ipc[i].row] > 0

\* A flush waits for at most one command, and for the row it carries.
IpcOwned ==
    \A i \in 1..Len(ipc) : ipc[i].by \in Flushers =>
        /\ flush[ipc[i].by].pc \in {"saving", "settling"}
        /\ flush[ipc[i].by].row = ipc[i].row
        /\ \A j \in 1..Len(ipc) : ipc[j].by = ipc[i].by => j = i

\* Every copy of a row that says done is of a row that had an effect.
DoneCopies ==
    \A r \in Rows :
        \/ sent[r] > 0
        \/ /\ \A s \in Slots : heap[r][s].status # "done"
           /\ disk[r].status # "done"
           /\ hydr.rows[r].status # "done"
           /\ r \notin done

IInv == TypeOK /\ FlushShape /\ IpcShape /\ IpcOwned /\ DoneCopies

-----------------------------------------------------------------------------
(* What the helpers do *)

\* A command appended by a step that raises no objection keeps the queue well
\* formed.
LEMMA PutKeepsQueue ==
    ASSUME TypeOK, IpcShape, IpcOwned,
           NEW r \in Rows, NEW o \in Obj,
           NEW by \in Flushers \cup {"send", "undo", "user"},
           Put(r, o, by),
           o.status # "none",
           o.status = "done" => sent'[r] > 0,
           \A q \in Rows : sent[q] > 0 => sent'[q] > 0,
           \A f \in Flushers : f # by => flush'[f] = flush[f],
           by \in Flushers => /\ flush[by].pc \notin {"saving", "settling"}
                              /\ flush'[by].pc \in {"saving", "settling"}
                              /\ flush'[by].row = r
    PROVE  ipc' \in Seq(Command) /\ IpcShape' /\ IpcOwned'
<1> DEFINE c == [row |-> r, obj |-> o, by |-> by]
<1>1. ipc \in Seq(Command) /\ Len(ipc) \in Nat
  BY LenProperties DEF TypeOK
<1>2. c \in Command
  BY DEF Command, Rows
<1>3. /\ ipc' \in Seq(Command)
      /\ Len(ipc') = Len(ipc) + 1
      /\ \A i \in 1..Len(ipc) : ipc'[i] = ipc[i]
      /\ ipc'[Len(ipc) + 1] = c
  BY <1>1, <1>2, AppendProperties DEF Put
<1>4. c.row = r /\ c.obj = o /\ c.by = by
  OBVIOUS
<1> HIDE DEF c
<1>5. IpcShape'
  BY <1>1, <1>3, <1>4 DEF IpcShape
<1>6. IpcOwned'
  <2> SUFFICES ASSUME NEW i \in 1..Len(ipc'), ipc'[i].by \in Flushers
               PROVE  /\ flush'[ipc'[i].by].pc \in {"saving", "settling"}
                      /\ flush'[ipc'[i].by].row = ipc'[i].row
                      /\ \A j \in 1..Len(ipc') : ipc'[j].by = ipc'[i].by => j = i
    BY DEF IpcOwned
  <2>1. CASE i = Len(ipc) + 1
    BY <2>1, <1>1, <1>3, <1>4 DEF IpcOwned
  <2>2. CASE i \in 1..Len(ipc)
    <3>1. ipc[i].by # by
      BY <2>2, <1>1, <1>3 DEF IpcOwned
    <3> QED
      BY <3>1, <2>2, <1>1, <1>3, <1>4 DEF IpcOwned
  <2> QED
    BY <2>1, <2>2, <1>1, <1>3
<1> QED
  BY <1>3, <1>5, <1>6

\* Taking the first command off the queue keeps it well formed.
LEMMA TailKeepsQueue ==
    ASSUME TypeOK, IpcShape, IpcOwned, ipc # <<>>, ipc' = Tail(ipc),
           UNCHANGED sent,
           \A f \in Flushers : f # Head(ipc).by => flush'[f] = flush[f]
    PROVE  /\ ipc' \in Seq(Command) /\ IpcShape' /\ IpcOwned'
           /\ Head(ipc) \in Command
           /\ Head(ipc).by # "list" =>
                 /\ Head(ipc).row \in Rows
                 /\ Head(ipc).obj.status # "none"
                 /\ Head(ipc).obj.status = "done" => sent[Head(ipc).row] > 0
           /\ Head(ipc).by \in Flushers =>
                 /\ flush[Head(ipc).by].pc \in {"saving", "settling"}
                 /\ flush[Head(ipc).by].row = Head(ipc).row
<1>1. ipc \in Seq(Command) /\ Len(ipc) \in Nat \ {0}
  BY EmptySeq DEF TypeOK
<1>2. /\ ipc' \in Seq(Command) /\ Len(ipc') = Len(ipc) - 1
      /\ \A i \in 1..Len(ipc') : ipc'[i] = ipc[i + 1]
      /\ Head(ipc) \in Command
  BY <1>1, HeadTailProperties
<1>3. Head(ipc) = ipc[1] /\ 1 \in 1..Len(ipc)
  BY <1>1
<1>4. \A i \in 1..Len(ipc') : i + 1 \in 1..Len(ipc) /\ i + 1 # 1
  BY <1>1, <1>2
<1>5. IpcShape'
  BY <1>2, <1>4 DEF IpcShape
<1>6. IpcOwned'
  <2> SUFFICES ASSUME NEW i \in 1..Len(ipc'), ipc'[i].by \in Flushers
               PROVE  /\ flush'[ipc'[i].by].pc \in {"saving", "settling"}
                      /\ flush'[ipc'[i].by].row = ipc'[i].row
                      /\ \A j \in 1..Len(ipc') : ipc'[j].by = ipc'[i].by => j = i
    BY DEF IpcOwned
  <2>1. ipc[i + 1].by \in Flushers /\ ipc'[i] = ipc[i + 1] /\ i + 1 \in 1..Len(ipc)
    BY <1>2, <1>4
  <2>2. ipc[i + 1].by # Head(ipc).by
    BY <2>1, <1>3, <1>4 DEF IpcOwned
  <2>3. \A j \in 1..Len(ipc') : ipc'[j].by = ipc'[i].by => j = i
    BY <2>1, <1>1, <1>2, <1>4 DEF IpcOwned
  <2>4. /\ flush[ipc[i + 1].by].pc \in {"saving", "settling"}
        /\ flush[ipc[i + 1].by].row = ipc[i + 1].row
    BY <2>1 DEF IpcOwned
  <2>5. flush'[ipc[i + 1].by] = flush[ipc[i + 1].by]
    BY <2>1, <2>2
  <2> HIDE DEF IpcOwned
  <2> QED
    BY <2>1, <2>3, <2>4, <2>5
<1> QED
  BY <1>2, <1>3, <1>5, <1>6 DEF IpcShape, IpcOwned

\* Collecting objects invents none.
LEMMA GCKeepsObjects ==
    ASSUME NEW h \in [Rows -> [Slots -> Obj]], NEW c, NEW fl
    PROVE  /\ GC(h, c, fl) \in [Rows -> [Slots -> Obj]]
           /\ \A r \in Rows, s \in Slots :
                 GC(h, c, fl)[r][s].status = "done" => h[r][s].status = "done"
<1>1. NoObj \in Obj /\ NoObj.status # "done"
  <2>1. 0 \in 0..MaxEdits /\ 0 \in 0..MaxDrafts
    BY OutboxAssumption
  <2> QED
    BY <2>1 DEF NoObj, Obj
<1> QED
  BY <1>1 DEF GC

-----------------------------------------------------------------------------
(* The initial state, and one lemma for each group of actions *)

LEMMA BoundsAreNat ==
    /\ N \in Nat /\ MaxEdits \in Nat /\ MaxDrafts \in Nat
    /\ MaxCrashes \in Nat /\ MaxFaults \in Nat
    /\ NoObj \in Obj /\ NoObj.status = "none"
    /\ NoFlush \in Flush /\ NoFlush.pc = "idle"
<1>1. 0 \in 0..MaxEdits /\ 0 \in 0..MaxDrafts /\ 0 \in 0..N
  BY OutboxAssumption
<1> QED
  BY <1>1, OutboxAssumption DEF NoObj, Obj, NoFlush, Flush, FlushPc

LEMMA InitIInv == Init => IInv
<1> SUFFICES ASSUME Init PROVE IInv
  OBVIOUS
<1> USE BoundsAreNat
<1>1. ipc = <<>> /\ ipc \in Seq(Command) /\ Len(ipc) = 0
  BY EmptySeq DEF Init
<1>2. TypeOK
  BY <1>1 DEF Init, TypeOK, NoSend, NoHydrate, Rows
<1>3. IpcShape /\ IpcOwned
  BY <1>1 DEF IpcShape, IpcOwned
<1>4. FlushShape
  BY DEF Init, FlushShape, Carrying
<1>5. DoneCopies
  BY DEF Init, DoneCopies, NoHydrate
<1> QED
  BY <1>2, <1>3, <1>4, <1>5 DEF IInv

\* A step of the user, seen through what all of them have in common: objects
\* of status pending or cancelled enter the heap and the queue, no flush moves
\* and nothing happens in the store or at the provider.
LEMMA UserStepKeeps ==
    ASSUME IInv,
           NEW r \in Rows, NEW o \in Obj, NEW s \in Slots,
           NEW by \in {"send", "undo", "user"},
           o.status \in {"pending", "cancelled", "failed"},
           heap' = [heap EXCEPT ![r][s] = o],
           Put(r, o, by),
           UNCHANGED <<done, due, disk, flush, hydr, sent>>
    PROVE  /\ heap' \in [Rows -> [Slots -> Obj]]
           /\ ipc' \in Seq(Command)
           /\ FlushShape' /\ IpcShape' /\ IpcOwned' /\ DoneCopies'
<1> USE DEF IInv
<1>1. by \notin Flushers
  BY OutboxAssumption
<1>2. ipc' \in Seq(Command) /\ IpcShape' /\ IpcOwned'
  BY <1>1, PutKeepsQueue
<1>3. heap' \in [Rows -> [Slots -> Obj]]
  BY DEF TypeOK
<1>4. FlushShape'
  BY DEF FlushShape
<1>5. DoneCopies'
  BY DEF DoneCopies, TypeOK
<1> QED
  BY <1>2, <1>3, <1>4, <1>5

LEMMA AddKeeps ==
    ASSUME IInv,
           NEW r \in Rows, NEW k, NEW o \in Obj, o.status = "pending",
           Add(r, k, o),
           UNCHANGED <<done, due, disk, flush, hydr, sent>>
    PROVE  /\ heap' \in [Rows -> [Slots -> Obj]]
           /\ cur' \in [Rows -> Slots \cup {0}]
           /\ rank' \in [Rows -> Nat] /\ born' \in [Rows -> Nat]
           /\ tick' \in Nat
           /\ ipc' \in Seq(Command)
           /\ FlushShape' /\ IpcShape' /\ IpcOwned' /\ DoneCopies'
<1>1. 1 \in Slots
  BY OutboxAssumption
<1>2. /\ heap' = [heap EXCEPT ![r][1] = o]
      /\ cur' = [cur EXCEPT ![r] = 1]
      /\ rank' = [rank EXCEPT ![r] = tick]
      /\ born' = [born EXCEPT ![r] = tick]
      /\ tick' = tick + 1
      /\ Put(r, o, "user")
  BY DEF Add
<1>3. /\ heap' \in [Rows -> [Slots -> Obj]]
      /\ ipc' \in Seq(Command)
      /\ FlushShape' /\ IpcShape' /\ IpcOwned' /\ DoneCopies'
  BY <1>1, <1>2, UserStepKeeps
<1> QED
  BY <1>1, <1>2, <1>3 DEF IInv, TypeOK

LEMMA LiveObject ==
    ASSUME TypeOK, NEW r \in Rows, InMap(r)
    PROVE  Live(r) \in Obj /\ cur[r] \in Slots
BY DEF TypeOK, InMap, Live

LEMMA LeastNatural ==
    ASSUME NEW S, S \subseteq Nat, S # {}
    PROVE  \E m \in S : \A k \in S : m <= k
<1>1. PICK m \in S : \A k \in S : ~ (<<k, m>> \in OpToRel(<, Nat))
  BY NatLessThanWellFounded, WFMin
<1>2. \A k \in S : ~ (k < m)
  BY <1>1 DEF OpToRel
<1> QED
  BY <1>2

LEMMA PriorDraftIdType ==
    ASSUME TypeOK
    PROVE  PriorDraftId \in 0..MaxDrafts
<1> DEFINE known == {r \in Rows : /\ InMap(r) /\ Kind[r] = "save_draft"
                                  /\ Live(r).pid # 0}
           prior == CHOOSE r \in known : FirstOf(r, known)
<1>1. CASE known = {}
  BY <1>1, BoundsAreNat DEF PriorDraftId
<1>2. CASE known # {}
  <2>1. PICK r \in known : FirstOf(r, known)
    <3>1. \E i \in Rows : i \in known
      BY <1>2
    <3> DEFINE ranks == {rank[q] : q \in known}
    <3>2. ranks \subseteq Nat /\ ranks # {}
      BY <3>1 DEF TypeOK
    <3>3. PICK m \in ranks : \A k \in ranks : m <= k
      BY <3>2, LeastNatural
    <3>4. PICK q \in known : rank[q] = m
      OBVIOUS
    <3> QED
      BY <3>3, <3>4 DEF FirstOf
  <2>2. prior \in known
    BY <2>1
  <2>3. Live(prior) \in Obj
    BY <2>2, LiveObject
  <2> QED
    BY <2>3, <1>2 DEF PriorDraftId, Obj
<1> QED
  BY <1>1, <1>2

LEMMA EnqueueKeeps ==
    ASSUME IInv, NEW r \in Rows,
           CoalesceDraft(r) \/ NewDraft(r) \/ NewMutation(r)
             \/ SendCancelsDraft(r) \/ NewSend(r)
    PROVE  IInv'
<1> USE DEF worldVars, wishVars, envVars, userVars
<1>t. TypeOK
  BY DEF IInv
<1>0. /\ PriorDraftId \in 0..MaxDrafts
      /\ 0 \in 0..MaxDrafts /\ 0 \in 0..MaxEdits /\ edits \in 0..MaxEdits
  <2>1. PriorDraftId \in 0..MaxDrafts
    BY <1>t, PriorDraftIdType
  <2>2. edits \in 0..MaxEdits
    BY <1>t DEF TypeOK
  <2>3. 0 \in 0..MaxDrafts /\ 0 \in 0..MaxEdits
    BY OutboxAssumption
  <2> QED BY <2>1, <2>2, <2>3
<1>1. CASE CoalesceDraft(r)
  <2> DEFINE o == [Live(r) EXCEPT !.ver = edits + 1, !.pid = PriorDraftId]
  <2>1. /\ InMap(r) /\ Live(r).status \in {"pending", "failed"}
        /\ edits + 1 \in 0..MaxEdits
    BY <1>t, <1>1, <1>0, OutboxAssumption DEF CoalesceDraft, FirstOf, OpenDrafts
  <2>2. Live(r) \in Obj /\ cur[r] \in Slots
    BY <1>t, <2>1, LiveObject
  <2>3. o \in Obj /\ o.status \in {"pending", "cancelled", "failed"}
    BY <1>0, <2>1, <2>2 DEF Obj
  <2>4. heap' = [heap EXCEPT ![r][cur[r]] = o] /\ Put(r, o, "user")
    BY <1>1 DEF CoalesceDraft
  <2>5. UNCHANGED <<done, due, disk, flush, hydr, sent>>
    BY <1>1 DEF CoalesceDraft
  <2> HIDE DEF o
  <2>6. /\ heap' \in [Rows -> [Slots -> Obj]] /\ ipc' \in Seq(Command)
        /\ FlushShape' /\ IpcShape' /\ IpcOwned' /\ DoneCopies'
    BY <2>2, <2>3, <2>4, <2>5, UserStepKeeps
  <2>7. TypeOK'
    BY <1>t, <1>1, <2>1, <2>6 DEF CoalesceDraft, TypeOK
  <2> QED
    BY <2>6, <2>7 DEF IInv
<1>2. CASE NewDraft(r)
  <2> DEFINE o == [status |-> "pending", ver |-> edits + 1, pid |-> PriorDraftId]
  <2>1. edits + 1 \in 0..MaxEdits /\ edits' = edits + 1
    BY <1>2, <1>0, OutboxAssumption DEF NewDraft
  <2>2. o \in Obj /\ o.status = "pending"
    BY <1>0, <2>1 DEF Obj, Statuses
  <2>3. Add(r, "save_draft", o) /\ UNCHANGED <<done, due, disk, flush, hydr, sent>>
    BY <1>2 DEF NewDraft
  <2> HIDE DEF o
  <2>4. /\ heap' \in [Rows -> [Slots -> Obj]] /\ cur' \in [Rows -> Slots \cup {0}]
        /\ rank' \in [Rows -> Nat] /\ born' \in [Rows -> Nat] /\ tick' \in Nat
        /\ ipc' \in Seq(Command)
        /\ FlushShape' /\ IpcShape' /\ IpcOwned' /\ DoneCopies'
    BY <2>2, <2>3, AddKeeps
  <2>5. TypeOK'
    BY <1>t, <1>2, <2>1, <2>4 DEF NewDraft, TypeOK
  <2> QED
    BY <2>4, <2>5 DEF IInv
<1>3. CASE NewMutation(r)
  <2> DEFINE o == [status |-> "pending", ver |-> 0, pid |-> 0]
  <2>1. o \in Obj /\ o.status = "pending"
    BY <1>0 DEF Obj, Statuses
  <2>2. Add(r, "mutation", o) /\ UNCHANGED <<done, due, disk, flush, hydr, sent>>
    BY <1>3 DEF NewMutation
  <2> HIDE DEF o
  <2>3. /\ heap' \in [Rows -> [Slots -> Obj]] /\ cur' \in [Rows -> Slots \cup {0}]
        /\ rank' \in [Rows -> Nat] /\ born' \in [Rows -> Nat] /\ tick' \in Nat
        /\ ipc' \in Seq(Command)
        /\ FlushShape' /\ IpcShape' /\ IpcOwned' /\ DoneCopies'
    BY <2>1, <2>2, AddKeeps
  <2>4. TypeOK'
    BY <1>t, <1>3, <2>3 DEF NewMutation, TypeOK
  <2> QED
    BY <2>3, <2>4 DEF IInv
<1>4. CASE SendCancelsDraft(r)
  <2> DEFINE o == [Live(r) EXCEPT !.status = "cancelled"]
  <2>1. InMap(r)
    BY <1>4 DEF SendCancelsDraft, FirstOf, OpenDrafts
  <2>2. Live(r) \in Obj /\ cur[r] \in Slots
    BY <1>t, <2>1, LiveObject
  <2>3. o \in Obj /\ o.status \in {"pending", "cancelled", "failed"}
    BY <2>2 DEF Obj, Statuses
  <2>4. heap' = [heap EXCEPT ![r][cur[r]] = o] /\ Put(r, o, "send")
    BY <1>4 DEF SendCancelsDraft
  <2>5. UNCHANGED <<done, due, disk, flush, hydr, sent>>
    BY <1>4 DEF SendCancelsDraft
  <2> HIDE DEF o
  <2>6. /\ heap' \in [Rows -> [Slots -> Obj]] /\ ipc' \in Seq(Command)
        /\ FlushShape' /\ IpcShape' /\ IpcOwned' /\ DoneCopies'
    BY <2>2, <2>3, <2>4, <2>5, UserStepKeeps
  <2>7. TypeOK'
    BY <1>t, <1>4, <2>6 DEF SendCancelsDraft, TypeOK
  <2> QED
    BY <2>6, <2>7 DEF IInv
<1>5. CASE NewSend(r)
  <2> DEFINE o == [status |-> "pending", ver |-> edits, pid |-> 0]
  <2>1. o \in Obj /\ o.status = "pending"
    BY <1>0 DEF Obj, Statuses
  <2>2. Add(r, "send", o) /\ UNCHANGED <<done, due, disk, flush, hydr, sent>>
    BY <1>5 DEF NewSend
  <2> HIDE DEF o
  <2>3. /\ heap' \in [Rows -> [Slots -> Obj]] /\ cur' \in [Rows -> Slots \cup {0}]
        /\ rank' \in [Rows -> Nat] /\ born' \in [Rows -> Nat] /\ tick' \in Nat
        /\ ipc' \in Seq(Command)
        /\ FlushShape' /\ IpcShape' /\ IpcOwned' /\ DoneCopies'
    BY <2>1, <2>2, AddKeeps
  <2>4. TypeOK'
    BY <1>t, <1>5, <2>3 DEF NewSend, TypeOK, NoSend
  <2> QED
    BY <2>3, <2>4 DEF IInv
<1> QED
  BY <1>1, <1>2, <1>3, <1>4, <1>5

LEMMA CancelRetryKeeps ==
    ASSUME IInv, NEW r \in Rows, CancelOutbox(r) \/ RetryOutbox(r)
    PROVE  IInv'
<1> USE DEF worldVars, wishVars, envVars, userVars
<1>t. TypeOK
  BY DEF IInv
<1>o. Live(r) \in Obj /\ cur[r] \in Slots
  BY <1>t, LiveObject DEF CancelOutbox, RetryOutbox
<1>1. CASE CancelOutbox(r)
  <2> DEFINE o == [Live(r) EXCEPT !.status = "cancelled"]
  <2>1. o \in Obj /\ o.status \in {"pending", "cancelled", "failed"}
    BY <1>o DEF Obj, Statuses
  <2>2. PICK by \in {"undo", "user"} :
          heap' = [heap EXCEPT ![r][cur[r]] = o] /\ Put(r, o, by)
    BY <1>1 DEF CancelOutbox
  <2>3. UNCHANGED <<done, due, disk, flush, hydr, sent>>
    BY <1>1 DEF CancelOutbox
  <2> HIDE DEF o
  <2>4. /\ heap' \in [Rows -> [Slots -> Obj]] /\ ipc' \in Seq(Command)
        /\ FlushShape' /\ IpcShape' /\ IpcOwned' /\ DoneCopies'
    BY <1>o, <2>1, <2>2, <2>3, UserStepKeeps
  <2>5. TypeOK'
    BY <1>t, <1>1, <2>4 DEF CancelOutbox, TypeOK
  <2> QED
    BY <2>4, <2>5 DEF IInv
<1>2. CASE RetryOutbox(r)
  <2> DEFINE o == [Live(r) EXCEPT !.status = "pending"]
  <2>1. o \in Obj /\ o.status \in {"pending", "cancelled", "failed"}
    BY <1>o DEF Obj, Statuses
  <2>2. heap' = [heap EXCEPT ![r][cur[r]] = o] /\ Put(r, o, "user")
    BY <1>2 DEF RetryOutbox
  <2>3. UNCHANGED <<done, due, disk, flush, hydr, sent>>
    BY <1>2 DEF RetryOutbox
  <2> HIDE DEF o
  <2>4. /\ heap' \in [Rows -> [Slots -> Obj]] /\ ipc' \in Seq(Command)
        /\ FlushShape' /\ IpcShape' /\ IpcOwned' /\ DoneCopies'
    BY <1>o, <2>1, <2>2, <2>3, UserStepKeeps
  <2>5. TypeOK'
    BY <1>t, <1>2, <2>4 DEF RetryOutbox, TypeOK
  <2> QED
    BY <2>4, <2>5 DEF IInv
<1> QED
  BY <1>1, <1>2

\* A step of flush f that changes its own record and perhaps puts one object.
LEMMA FlushPutKeeps ==
    ASSUME IInv, NEW f \in Flushers, NEW r \in Rows, NEW s \in Slots,
           NEW o \in Obj, NEW fl \in Flush,
           o.status # "none", o.status = "done" => sent[r] > 0,
           heap' = [heap EXCEPT ![r][s] = o],
           Put(r, o, f),
           flush' = [flush EXCEPT ![f] = fl],
           flush[f].pc \notin {"saving", "settling"},
           fl.pc = "saving" \/ (fl.pc = "settling" /\ disk[r].status # "none"),
           fl.row = r, fl.slot = s, r \in due,
           UNCHANGED <<due, disk, hydr, sent>>,
           done' \subseteq Rows,
           \A q \in done' : q \in done \/ sent[q] > 0
    PROVE  /\ heap' \in [Rows -> [Slots -> Obj]]
           /\ ipc' \in Seq(Command)
           /\ flush' \in [Flushers -> Flush]
           /\ FlushShape' /\ IpcShape' /\ IpcOwned' /\ DoneCopies'
<1> USE DEF IInv
<1>1. flush' \in [Flushers -> Flush] /\ flush'[f] = fl
  BY DEF TypeOK
<1>2. heap' \in [Rows -> [Slots -> Obj]]
  BY DEF TypeOK
<1>3. ipc' \in Seq(Command) /\ IpcShape' /\ IpcOwned'
  <2>1. \A g \in Flushers : g # f => flush'[g] = flush[g]
    OBVIOUS
  <2> QED
    BY <1>1, <2>1, PutKeepsQueue
<1>4. FlushShape'
  BY <1>1 DEF FlushShape, Carrying, Stored, TypeOK
<1>5. DoneCopies'
  BY <1>1 DEF DoneCopies, TypeOK
<1> QED
  BY <1>1, <1>2, <1>3, <1>4, <1>5

LEMMA TakeRowKeeps ==
    ASSUME IInv, NEW f \in Flushers, NEW r \in Rows, TakeRow(f, r)
    PROVE  IInv'
<1> USE DEF worldVars, wishVars, envVars, userVars
<1>t. TypeOK
  BY DEF IInv
<1> DEFINE o == [Live(r) EXCEPT !.status = "inflight"]
           fl == [NoFlush EXCEPT !.pc = "saving", !.at = rank[r],
                                 !.row = r, !.slot = cur[r]]
<1>1. InMap(r) /\ r \in due
  BY DEF TakeRow, FirstOf, Ahead, Eligible
<1>2. Live(r) \in Obj /\ cur[r] \in Slots
  BY <1>t, <1>1, LiveObject
<1>3. o \in Obj /\ o.status = "inflight"
  BY <1>2 DEF Obj, Statuses
<1>4. fl \in Flush /\ fl.pc = "saving" /\ fl.row = r /\ fl.slot = cur[r]
  <2>1. NoFlush \in Flush /\ rank[r] \in Nat /\ r \in 0..N
    BY <1>t, BoundsAreNat DEF TypeOK, Rows
  <2> QED
    BY <2>1, <1>2 DEF Flush, FlushPc
<1>5. /\ flush' = [flush EXCEPT ![f] = fl] /\ heap' = [heap EXCEPT ![r][cur[r]] = o]
      /\ Put(r, o, f) /\ flush[f].pc \in {"idle", "scan"}
      /\ UNCHANGED <<due, disk, hydr, sent, done>>
  BY DEF TakeRow
<1>6. done' \subseteq Rows /\ \A q \in done' : q \in done \/ sent[q] > 0
  BY <1>t, <1>5 DEF TypeOK
<1> HIDE DEF o, fl
<1>7. /\ heap' \in [Rows -> [Slots -> Obj]]
      /\ ipc' \in Seq(Command)
      /\ flush' \in [Flushers -> Flush]
      /\ FlushShape' /\ IpcShape' /\ IpcOwned' /\ DoneCopies'
  BY <1>1, <1>2, <1>3, <1>4, <1>5, <1>6, FlushPutKeeps
<1>8. TypeOK'
  BY <1>t, <1>7 DEF TypeOK, TakeRow
<1> QED
  BY <1>7, <1>8 DEF IInv

LEMMA EndFlushKeeps ==
    ASSUME IInv, NEW f \in Flushers, EndFlush(f)
    PROVE  IInv'
<1> USE DEF worldVars, wishVars, envVars, userVars, memVars
<1>1. TypeOK'
  BY BoundsAreNat DEF IInv, TypeOK, EndFlush
<1>2. FlushShape'
  BY BoundsAreNat DEF IInv, TypeOK, FlushShape, EndFlush, Carrying
<1>3. IpcShape' /\ IpcOwned'
  BY DEF IInv, TypeOK, IpcShape, IpcOwned, EndFlush
<1>4. DoneCopies'
  BY DEF IInv, DoneCopies, EndFlush
<1> QED
  BY <1>1, <1>2, <1>3, <1>4 DEF IInv

\* Settle as it is called: with another status for the object the flush holds.
LEMMA SettleKeeps ==
    ASSUME IInv, NEW f \in Flushers, flush[f].pc \in {"saved", "calling", "applied"},
           NEW o \in Obj, Settle(f, o), o.status # "none",
           o.status = "done" => sent[flush[f].row] > 0,
           UNCHANGED <<due, disk, hydr, sent>>,
           done' \subseteq Rows,
           \A q \in done' : q \in done \/ sent[q] > 0
    PROVE  /\ heap' \in [Rows -> [Slots -> Obj]]
           /\ ipc' \in Seq(Command)
           /\ flush' \in [Flushers -> Flush]
           /\ FlushShape' /\ IpcShape' /\ IpcOwned' /\ DoneCopies'
<1> DEFINE r == flush[f].row
           s == flush[f].slot
           fl == [flush[f] EXCEPT !.pc = "settling", !.ver = 0, !.pid = 0]
<1>1. r \in Rows /\ s \in Slots /\ r \in due /\ disk[r].status # "none"
  BY DEF IInv, FlushShape, Carrying, Stored
<1>2. fl \in Flush /\ fl.pc = "settling" /\ fl.row = r /\ fl.slot = s
  <2>1. flush[f] \in Flush /\ 0 \in 0..MaxEdits /\ 0 \in 0..MaxDrafts
    BY BoundsAreNat DEF IInv, TypeOK
  <2> QED
    BY <2>1 DEF Flush, FlushPc
<1>3. /\ heap' = [heap EXCEPT ![r][s] = o] /\ Put(r, o, f)
      /\ flush' = [flush EXCEPT ![f] = fl]
  BY DEF Settle, IInv, TypeOK
<1> HIDE DEF r, s, fl
<1> QED
  BY <1>1, <1>2, <1>3, FlushPutKeeps DEF r

LEMMA HeldObject ==
    ASSUME IInv, NEW f \in Flushers, flush[f].pc \in Carrying
    PROVE  Held(f) \in Obj
BY DEF IInv, TypeOK, FlushShape, Held

LEMMA CallProviderKeeps ==
    ASSUME IInv, NEW f \in Flushers, CallProvider(f)
    PROVE  IInv'
<1> USE DEF worldVars, wishVars, envVars, userVars
<1>1. flush[f].pc = "saved" /\ Held(f) \in Obj
  BY HeldObject DEF CallProvider, Carrying
<1>2. CASE flush[f].row \in done
  <2> DEFINE o == [Held(f) EXCEPT !.status = "done"]
  <2>1. o \in Obj /\ o.status = "done" /\ sent[flush[f].row] > 0
    BY <1>1, <1>2 DEF Obj, Statuses, IInv, DoneCopies, TypeOK
  <2>2. Settle(f, o) /\ UNCHANGED <<due, disk, hydr, sent, done>>
    BY <1>2 DEF CallProvider
  <2>3. done' \subseteq Rows /\ \A q \in done' : q \in done \/ sent[q] > 0
    BY <2>2 DEF IInv, TypeOK
  <2> HIDE DEF o
  <2>4. /\ heap' \in [Rows -> [Slots -> Obj]] /\ ipc' \in Seq(Command)
        /\ flush' \in [Flushers -> Flush]
        /\ FlushShape' /\ IpcShape' /\ IpcOwned' /\ DoneCopies'
    BY <1>1, <2>1, <2>2, <2>3, SettleKeeps
  <2>5. TypeOK'
    BY <2>4 DEF IInv, TypeOK, CallProvider
  <2> QED
    BY <2>4, <2>5 DEF IInv
<1>3. CASE flush[f].row \notin done
  <2>1. /\ flush' = [flush EXCEPT ![f].pc = "calling",
                        ![f].ver = Held(f).ver, ![f].pid = Held(f).pid]
        /\ UNCHANGED <<heap, ipc, disk, due, hydr, sent, done>>
    BY <1>3 DEF CallProvider
  <2>2. /\ flush'[f].pc = "calling" /\ flush'[f].row = flush[f].row
        /\ flush'[f].slot = flush[f].slot
        /\ \A g \in Flushers : g # f => flush'[g] = flush[g]
    BY <2>1 DEF IInv, TypeOK, Flush
  <2>3. flush' \in [Flushers -> Flush]
    <3>1. flush \in [Flushers -> Flush] /\ flush[f] \in Flush
      BY DEF IInv, TypeOK
    <3>2. Held(f).ver \in 0..MaxEdits /\ Held(f).pid \in 0..MaxDrafts
      BY <1>1 DEF Obj
    <3>3. [flush[f] EXCEPT !.pc = "calling", !.ver = Held(f).ver,
                           !.pid = Held(f).pid] \in Flush
      BY <3>1, <3>2 DEF Flush, FlushPc
    <3>4. flush' = [flush EXCEPT ![f] = [flush[f] EXCEPT !.pc = "calling",
                        !.ver = Held(f).ver, !.pid = Held(f).pid]]
      BY <2>1, <3>1 DEF Flush
    <3> QED
      BY <3>1, <3>3, <3>4
  <2>4. TypeOK'
    BY <2>1, <2>3 DEF IInv, TypeOK, CallProvider
  <2>5. FlushShape'
    <3>1. UNCHANGED <<due, disk, sent>>
      BY <2>1
    <3> QED
      BY <1>1, <2>2, <3>1 DEF IInv, FlushShape, Carrying, Stored
  <2>6. IpcShape' /\ IpcOwned'
    <3>1. UNCHANGED <<ipc, sent>>
      BY <2>1
    <3> QED
      BY <1>1, <2>2, <3>1 DEF IInv, IpcShape, IpcOwned
  <2>7. DoneCopies'
    BY <2>1 DEF IInv, DoneCopies
  <2> QED
    BY <2>4, <2>5, <2>6, <2>7 DEF IInv
<1> QED
  BY <1>2, <1>3

LEMMA ProviderAppliesKeeps ==
    ASSUME IInv, NEW f \in Flushers, ProviderApplies(f)
    PROVE  IInv'
<1> DEFINE r == flush[f].row
<1>1. /\ flush[f].pc = "calling" /\ flush \in [Flushers -> Flush]
      /\ r \in Rows /\ r \in due /\ flush[f].slot \in Slots
      /\ disk[r].status # "none"
  BY DEF ProviderApplies, IInv, TypeOK, FlushShape, Carrying, Stored
<1>2. /\ sent' = [sent EXCEPT ![r] = IF @ = 2 THEN 2 ELSE @ + 1]
      /\ UNCHANGED <<heap, cur, rank, done, tick, due, edits, born, disk, ipc,
                     enq, hydr, undone, retried, crashes, faults>>
  BY DEF ProviderApplies, memVars, userVars, wishVars, envVars
<1>3. PICK p \in 0..MaxDrafts :
         /\ flush' = [flush EXCEPT ![f] = [flush[f] EXCEPT !.pc = "applied", !.pid = p]]
         /\ drafts' = drafts \/ drafts' = [drafts EXCEPT ![p] = flush[f].ver]
  <2>1. flush[f].pid \in 0..MaxDrafts
    BY <1>1 DEF Flush
  <2>2. CASE Kind[r] # "save_draft"
    <3>1. flush' = [flush EXCEPT ![f].pc = "applied"] /\ UNCHANGED drafts
      BY <2>2 DEF ProviderApplies
    <3>2. [flush[f] EXCEPT !.pc = "applied"]
            = [flush[f] EXCEPT !.pc = "applied", !.pid = flush[f].pid]
      BY <1>1 DEF Flush
    <3> QED
      BY <2>1, <3>1, <3>2
  <2>3. CASE Kind[r] = "save_draft"
    <3>1. PICK p \in 1..MaxDrafts :
            /\ drafts' = [drafts EXCEPT ![p] = flush[f].ver]
            /\ flush' = [flush EXCEPT ![f].pc = "applied", ![f].pid = p]
      BY <2>3 DEF ProviderApplies
    <3>2. p \in 0..MaxDrafts
      BY BoundsAreNat
    <3> QED
      BY <3>1, <3>2, <1>1 DEF Flush
  <2> QED
    BY <2>2, <2>3
<1>4. [flush[f] EXCEPT !.pc = "applied", !.pid = p] \in Flush
  BY <1>1 DEF Flush, FlushPc
<1>5. /\ flush' \in [Flushers -> Flush]
      /\ flush'[f].pc = "applied" /\ flush'[f].row = r
      /\ flush'[f].slot = flush[f].slot
      /\ \A g \in Flushers : g # f => flush'[g] = flush[g]
  BY <1>1, <1>3, <1>4 DEF Flush
<1>6. /\ sent' \in [Rows -> 0..2] /\ sent'[r] > 0
      /\ \A q \in Rows : sent[q] > 0 => sent'[q] > 0
  <2>1. sent \in [Rows -> 0..2]
    BY DEF IInv, TypeOK
  <2> QED
    BY <1>1, <1>2, <2>1
<1>7. drafts' \in [1..MaxDrafts -> 0..MaxEdits]
  <2>1. drafts \in [1..MaxDrafts -> 0..MaxEdits] /\ flush[f].ver \in 0..MaxEdits
    BY <1>1 DEF IInv, TypeOK, Flush
  <2> QED
    BY <1>3, <2>1
<1>8. TypeOK'
  BY <1>2, <1>5, <1>6, <1>7 DEF IInv, TypeOK
<1>9. FlushShape'
  <2>1. UNCHANGED <<due, disk>>
    BY <1>2
  <2> SUFFICES ASSUME NEW g \in Flushers, flush'[g].pc \in Carrying
               PROVE  /\ flush'[g].row \in Rows /\ flush'[g].slot \in Slots
                      /\ flush'[g].row \in due
                      /\ flush'[g].pc \in Stored => disk[flush'[g].row].status # "none"
                      /\ flush'[g].pc = "applied" => sent'[flush'[g].row] > 0
    BY <2>1 DEF FlushShape
  <2>2. CASE g = f
    BY <2>2, <1>1, <1>5, <1>6
  <2>3. CASE g # f
    BY <2>3, <1>5, <1>6 DEF IInv, FlushShape
  <2> QED
    BY <2>2, <2>3
<1>10. IpcShape' /\ IpcOwned'
  <2>1. UNCHANGED ipc
    BY <1>2
  <2>2. IpcShape'
    BY <1>6, <2>1 DEF IInv, IpcShape
  <2>3. IpcOwned'
    BY <1>1, <1>5, <2>1 DEF IInv, IpcOwned
  <2> QED
    BY <2>2, <2>3
<1>11. DoneCopies'
  <2>1. UNCHANGED <<heap, disk, hydr, done>>
    BY <1>2
  <2> QED
    BY <1>6, <2>1 DEF IInv, DoneCopies
<1> QED
  BY <1>8, <1>9, <1>10, <1>11 DEF IInv

LEMMA ProviderEndsKeeps ==
    ASSUME IInv, NEW f \in Flushers, ProviderAnswers(f) \/ ProviderThrows(f)
    PROVE  IInv'
<1> USE DEF worldVars, wishVars, envVars, userVars
<1>1. /\ flush[f].pc \in {"saved", "calling", "applied"}
      /\ Held(f) \in Obj /\ flush[f].row \in Rows
  BY HeldObject DEF ProviderAnswers, ProviderThrows, CatchSets, Carrying, IInv,
                    FlushShape
<1>2. CASE ProviderAnswers(f)
  <2> DEFINE o == [Held(f) EXCEPT !.status = "done",
                      !.pid = IF Kind[flush[f].row] = "save_draft"
                              THEN flush[f].pid ELSE @]
  <2>1. flush[f] \in Flush /\ sent[flush[f].row] > 0
    BY <1>2 DEF ProviderAnswers, IInv, TypeOK, FlushShape, Carrying
  <2>2. o \in Obj /\ o.status = "done"
    BY <1>1, <2>1 DEF Obj, Statuses, Flush
  <2>3. /\ Settle(f, o) /\ UNCHANGED <<due, disk, hydr, sent>>
        /\ done' = done \/ done' = done \cup {flush[f].row}
    BY <1>2 DEF ProviderAnswers
  <2>4. done' \subseteq Rows /\ \A q \in done' : q \in done \/ sent[q] > 0
    BY <1>1, <2>1, <2>3 DEF IInv, TypeOK
  <2> HIDE DEF o
  <2>5. /\ heap' \in [Rows -> [Slots -> Obj]] /\ ipc' \in Seq(Command)
        /\ flush' \in [Flushers -> Flush]
        /\ FlushShape' /\ IpcShape' /\ IpcOwned' /\ DoneCopies'
    BY <1>1, <2>1, <2>2, <2>3, <2>4, SettleKeeps
  <2>6. TypeOK'
    BY <1>2, <2>4, <2>5 DEF IInv, TypeOK, ProviderAnswers
  <2> QED
    BY <2>5, <2>6 DEF IInv
<1>3. CASE ProviderThrows(f)
  <2> DEFINE o == [Held(f) EXCEPT !.status = "failed"]
  <2>1. o \in Obj /\ o.status = "failed"
    BY <1>1 DEF Obj, Statuses
  <2>2. /\ Settle(f, o)
        /\ UNCHANGED <<cur, rank, done, tick, due, edits, born, disk, enq, hydr,
                       sent, drafts, undone, crashes, faults>>
        /\ retried' = retried \ {flush[f].row}
    BY <1>3 DEF ProviderThrows, CatchSets
  <2>3. done' \subseteq Rows /\ \A q \in done' : q \in done \/ sent[q] > 0
    BY <2>2 DEF IInv, TypeOK
  <2> HIDE DEF o
  <2>4. /\ heap' \in [Rows -> [Slots -> Obj]] /\ ipc' \in Seq(Command)
        /\ flush' \in [Flushers -> Flush]
        /\ FlushShape' /\ IpcShape' /\ IpcOwned' /\ DoneCopies'
    BY <1>1, <2>1, <2>2, <2>3, SettleKeeps
  <2>5. TypeOK'
    BY <2>2, <2>4 DEF IInv, TypeOK
  <2> QED
    BY <2>4, <2>5 DEF IInv
<1> QED
  BY <1>2, <1>3

\* Facts about the command at the head of the queue.
LEMMA HeadFacts ==
    ASSUME IInv, ipc # <<>>
    PROVE  /\ Head(ipc) \in Command
           /\ Head(ipc).obj \in Obj
           /\ Head(ipc).by \in Flushers \cup {"send", "undo", "user", "list"}
           /\ Head(ipc).by # "list" =>
                 /\ Head(ipc).row \in Rows
                 /\ Head(ipc).obj.status # "none"
                 /\ Head(ipc).obj.status = "done" => sent[Head(ipc).row] > 0
           /\ Head(ipc).by \in Flushers =>
                 /\ Head(ipc).by # "list"
                 /\ flush[Head(ipc).by].pc \in {"saving", "settling"}
                 /\ flush[Head(ipc).by].row = Head(ipc).row
<1>1. ipc \in Seq(Command) /\ Len(ipc) \in Nat \ {0}
  BY EmptySeq DEF IInv, TypeOK
<1>2. Head(ipc) \in Command /\ Head(ipc) = ipc[1] /\ 1 \in 1..Len(ipc)
  BY <1>1, HeadTailProperties
<1>3. /\ Head(ipc).obj \in Obj
      /\ Head(ipc).by \in Flushers \cup {"send", "undo", "user", "list"}
  BY <1>2 DEF Command
<1>4. Head(ipc).by \in Flushers => Head(ipc).by # "list"
  BY OutboxAssumption
<1> QED
  BY <1>2, <1>3, <1>4 DEF IInv, IpcShape, IpcOwned

\* What an executed or rejected command leaves of the disk and the flushes.
LEMMA StoreKeeps ==
    ASSUME IInv, ipc # <<>>, ipc' = Tail(ipc),
           disk' = disk \/ (Head(ipc).by # "list" /\
                            disk' = [disk EXCEPT ![Head(ipc).row] = Head(ipc).obj]),
           flush' \in [Flushers -> Flush],
           \A f \in Flushers : f # Head(ipc).by => flush'[f] = flush[f],
           Head(ipc).by \in Flushers =>
              \/ flush'[Head(ipc).by].pc \notin Carrying
              \/ /\ flush'[Head(ipc).by] = [flush[Head(ipc).by] EXCEPT !.pc = "saved"]
                 /\ disk' = [disk EXCEPT ![Head(ipc).row] = Head(ipc).obj],
           heap' = GC(heap, cur, flush'),
           hydr' \in [pc : {"idle", "listing", "listed"}, rows : [Rows -> Obj]],
           hydr'.rows = hydr.rows \/ hydr'.rows = disk \/ hydr' = NoHydrate,
           UNCHANGED <<cur, done, due, sent>>
    PROVE  /\ heap' \in [Rows -> [Slots -> Obj]] /\ ipc' \in Seq(Command)
           /\ disk' \in [Rows -> Obj]
           /\ FlushShape' /\ IpcShape' /\ IpcOwned' /\ DoneCopies'
<1> DEFINE c == Head(ipc)
<1>1. ipc' \in Seq(Command) /\ IpcShape' /\ IpcOwned'
  BY TailKeepsQueue DEF IInv
<1>2. /\ heap \in [Rows -> [Slots -> Obj]] /\ disk \in [Rows -> Obj]
      /\ flush \in [Flushers -> Flush] /\ due \subseteq Rows
      /\ sent \in [Rows -> 0..2]
  BY DEF IInv, TypeOK
<1>3. /\ heap' \in [Rows -> [Slots -> Obj]]
      /\ \A r \in Rows, s \in Slots :
            heap'[r][s].status = "done" => heap[r][s].status = "done"
  BY <1>2, GCKeepsObjects
<1>4. /\ disk' \in [Rows -> Obj]
      /\ \A r \in Rows : disk[r].status # "none" => disk'[r].status # "none"
      /\ \A r \in Rows : disk'[r].status = "done" =>
            disk[r].status = "done" \/ sent[r] > 0
  BY <1>2, HeadFacts
<1>5. FlushShape'
  <2> SUFFICES ASSUME NEW g \in Flushers, flush'[g].pc \in Carrying
               PROVE  /\ flush'[g].row \in Rows /\ flush'[g].slot \in Slots
                      /\ flush'[g].row \in due
                      /\ flush'[g].pc \in Stored => disk'[flush'[g].row].status # "none"
                      /\ flush'[g].pc = "applied" => sent[flush'[g].row] > 0
    BY DEF FlushShape
  <2>1. CASE g # c.by
    BY <2>1, <1>4 DEF IInv, FlushShape
  <2>2. CASE g = c.by
    <3>1. /\ flush'[g] = [flush[g] EXCEPT !.pc = "saved"]
          /\ disk' = [disk EXCEPT ![c.row] = c.obj]
      BY <2>2
    <3>2. /\ flush[g].pc \in Carrying /\ flush[g].row = c.row
          /\ c.row \in Rows /\ c.obj.status # "none"
      BY <2>2, HeadFacts DEF Carrying
    <3>3. /\ flush'[g].row = flush[g].row /\ flush'[g].slot = flush[g].slot
          /\ flush'[g].pc = "saved"
      BY <3>1, <1>2 DEF Flush
    <3>4. /\ flush[g].row \in Rows /\ flush[g].slot \in Slots
          /\ flush[g].row \in due
      BY <3>2 DEF IInv, FlushShape
    <3> QED
      BY <3>1, <3>2, <3>3, <3>4, <1>2
  <2> QED
    BY <2>1, <2>2
<1>6. DoneCopies'
  <2> SUFFICES ASSUME NEW r \in Rows, ~(sent[r] > 0)
               PROVE  /\ \A s \in Slots : heap'[r][s].status # "done"
                      /\ disk'[r].status # "done"
                      /\ hydr'.rows[r].status # "done"
                      /\ r \notin done
    BY DEF DoneCopies
  <2>1. /\ \A s \in Slots : heap[r][s].status # "done"
        /\ disk[r].status # "done" /\ hydr.rows[r].status # "done"
        /\ r \notin done
    BY DEF IInv, DoneCopies
  <2>2. hydr'.rows[r].status # "done"
    BY <2>1, BoundsAreNat DEF NoHydrate
  <2> QED
    BY <2>1, <2>2, <1>3, <1>4
<1> QED
  BY <1>1, <1>3, <1>4, <1>5, <1>6

LEMMA StoreExecutesKeeps ==
    ASSUME IInv, StoreExecutes
    PROVE  IInv'
<1> DEFINE c == Head(ipc)
<1> USE DEF worldVars, envVars, userVars
<1>1. /\ ipc # <<>> /\ ipc' = Tail(ipc)
      /\ disk' = IF c.by = "list" THEN disk ELSE [disk EXCEPT ![c.row] = c.obj]
      /\ flush' = Resumed(c)
      /\ enq' = IF c.by = "send" THEN [enq EXCEPT !.pc = "resume"] ELSE enq
      /\ hydr' = IF c.by = "list" THEN [pc |-> "listed", rows |-> disk] ELSE hydr
      /\ undone' = IF c.by = "undo" /\ sent[c.row] = 0
                   THEN undone \cup {c.row} ELSE undone
      /\ heap' = GC(heap, cur, flush')
      /\ UNCHANGED <<cur, rank, done, tick, due, edits, born, sent, drafts,
                     retried, crashes, faults>>
  BY DEF StoreExecutes
<1>2. /\ flush \in [Flushers -> Flush] /\ disk \in [Rows -> Obj]
      /\ hydr \in [pc : {"idle", "listing", "listed"}, rows : [Rows -> Obj]]
      /\ enq \in [pc : {"idle", "waiting", "resume"}, at : Nat]
      /\ undone \subseteq Rows
  BY DEF IInv, TypeOK
<1>3. \A f \in Flushers :
         /\ f # c.by => flush'[f] = flush[f]
         /\ f = c.by /\ flush[f].pc = "saving" =>
               flush'[f] = [flush[f] EXCEPT !.pc = "saved"]
         /\ f = c.by /\ flush[f].pc # "saving" =>
               flush'[f] = [NoFlush EXCEPT !.pc = "scan", !.at = flush[f].at]
  BY <1>1 DEF Resumed
<1>4. \A f \in Flushers :
         /\ [flush[f] EXCEPT !.pc = "saved"] \in Flush
         /\ [NoFlush EXCEPT !.pc = "scan", !.at = flush[f].at] \in Flush
         /\ [NoFlush EXCEPT !.pc = "scan", !.at = flush[f].at].pc \notin Carrying
  <2>1. NoFlush \in Flush
    BY BoundsAreNat
  <2> QED
    BY <1>2, <2>1 DEF Flush, FlushPc, Carrying
<1>5. flush' \in [Flushers -> Flush]
  BY <1>1, <1>2, <1>3, <1>4 DEF Resumed
<1>6. /\ hydr' \in [pc : {"idle", "listing", "listed"}, rows : [Rows -> Obj]]
      /\ hydr'.rows = hydr.rows \/ hydr'.rows = disk
  BY <1>1, <1>2
<1>7. c.by \in Flushers =>
         \/ flush'[c.by].pc \notin Carrying
         \/ /\ flush'[c.by] = [flush[c.by] EXCEPT !.pc = "saved"]
            /\ disk' = [disk EXCEPT ![c.row] = c.obj]
  BY <1>1, <1>3, <1>4, HeadFacts
<1>8. /\ heap' \in [Rows -> [Slots -> Obj]] /\ ipc' \in Seq(Command)
      /\ disk' \in [Rows -> Obj]
      /\ FlushShape' /\ IpcShape' /\ IpcOwned' /\ DoneCopies'
  BY <1>1, <1>3, <1>5, <1>6, <1>7, StoreKeeps
<1>9. undone' \subseteq Rows /\ enq' \in [pc : {"idle", "waiting", "resume"}, at : Nat]
  BY <1>1, <1>2, HeadFacts
<1>10. TypeOK'
  BY <1>1, <1>5, <1>6, <1>8, <1>9 DEF IInv, TypeOK
<1> QED
  BY <1>8, <1>10 DEF IInv

LEMMA StoreRejectsKeeps ==
    ASSUME IInv, StoreRejects
    PROVE  IInv'
<1> DEFINE c == Head(ipc)
<1> USE DEF worldVars, wishVars, userVars
<1>1. /\ ipc # <<>> /\ ipc' = Tail(ipc)
      /\ faults < MaxFaults /\ faults' = faults + 1
      /\ disk' \in {disk, IF c.by = "list" THEN disk
                          ELSE [disk EXCEPT ![c.row] = c.obj]}
      /\ flush' = [f \in Flushers |-> IF f = c.by THEN NoFlush ELSE flush[f]]
      /\ enq' = IF c.by = "send" THEN NoSend ELSE enq
      /\ hydr' = IF c.by = "list" THEN NoHydrate ELSE hydr
      /\ heap' = GC(heap, cur, flush')
      /\ UNCHANGED <<cur, rank, done, tick, due, edits, born, sent, drafts,
                     undone, retried, crashes>>
  BY DEF StoreRejects
<1>2. /\ flush \in [Flushers -> Flush]
      /\ hydr \in [pc : {"idle", "listing", "listed"}, rows : [Rows -> Obj]]
      /\ NoHydrate \in [pc : {"idle", "listing", "listed"}, rows : [Rows -> Obj]]
      /\ enq \in [pc : {"idle", "waiting", "resume"}, at : Nat]
      /\ faults \in 0..MaxFaults /\ MaxFaults \in Nat
      /\ NoFlush \in Flush /\ NoFlush.pc \notin Carrying
  BY BoundsAreNat DEF IInv, TypeOK, NoHydrate, Carrying
<1>3. /\ flush' \in [Flushers -> Flush]
      /\ \A f \in Flushers : f # c.by => flush'[f] = flush[f]
      /\ c.by \in Flushers => flush'[c.by].pc \notin Carrying
  BY <1>1, <1>2
<1>4. /\ hydr' \in [pc : {"idle", "listing", "listed"}, rows : [Rows -> Obj]]
      /\ hydr'.rows = hydr.rows \/ hydr' = NoHydrate
  BY <1>1, <1>2
<1>5. /\ heap' \in [Rows -> [Slots -> Obj]] /\ ipc' \in Seq(Command)
      /\ disk' \in [Rows -> Obj]
      /\ FlushShape' /\ IpcShape' /\ IpcOwned' /\ DoneCopies'
  BY <1>1, <1>3, <1>4, StoreKeeps
<1>6. faults' \in 0..MaxFaults /\ enq' \in [pc : {"idle", "waiting", "resume"}, at : Nat]
  BY <1>1, <1>2 DEF NoSend
<1>7. TypeOK'
  BY <1>1, <1>3, <1>4, <1>5, <1>6 DEF IInv, TypeOK
<1> QED
  BY <1>5, <1>7 DEF IInv

LEMMA HydrateStartKeeps ==
    ASSUME IInv, HydrateStart
    PROVE  IInv'
<1> DEFINE c == [row |-> 0, obj |-> NoObj, by |-> "list"]
<1>1. /\ hydr' = [hydr EXCEPT !.pc = "listing"] /\ ipc' = Append(ipc, c)
      /\ UNCHANGED <<heap, cur, rank, done, tick, due, edits, born, disk, flush,
                     enq, sent, drafts, undone, retried, crashes, faults>>
  BY DEF HydrateStart, memVars, userVars, worldVars, wishVars, envVars
<1>2. c \in Command /\ c.by = "list" /\ c.by \notin Flushers
  <2>1. NoObj \in Obj /\ 0 \in 0..N
    BY BoundsAreNat
  <2> QED
    BY <2>1, OutboxAssumption DEF Command
<1>3. ipc \in Seq(Command) /\ Len(ipc) \in Nat
  BY LenProperties DEF IInv, TypeOK
<1> HIDE DEF c
<1>4. /\ ipc' \in Seq(Command) /\ Len(ipc') = Len(ipc) + 1
      /\ \A i \in 1..Len(ipc) : ipc'[i] = ipc[i]
      /\ ipc'[Len(ipc) + 1] = c
  BY <1>1, <1>2, <1>3, AppendProperties
<1>5. IpcShape'
  BY <1>1, <1>2, <1>3, <1>4 DEF IInv, IpcShape
<1>6. IpcOwned'
  <2> SUFFICES ASSUME NEW i \in 1..Len(ipc'), ipc'[i].by \in Flushers
               PROVE  /\ flush[ipc'[i].by].pc \in {"saving", "settling"}
                      /\ flush[ipc'[i].by].row = ipc'[i].row
                      /\ \A j \in 1..Len(ipc') : ipc'[j].by = ipc'[i].by => j = i
    BY <1>1 DEF IpcOwned
  <2>1. i \in 1..Len(ipc) /\ ipc'[i] = ipc[i]
    BY <1>2, <1>3, <1>4
  <2>2. \A j \in 1..Len(ipc') : ipc'[j].by = ipc'[i].by =>
            j \in 1..Len(ipc) /\ ipc[j].by = ipc[i].by
    BY <2>1, <1>2, <1>3, <1>4
  <2> QED
    BY <2>1, <2>2 DEF IInv, IpcOwned
<1>7. hydr' \in [pc : {"idle", "listing", "listed"}, rows : [Rows -> Obj]]
      /\ hydr'.rows = hydr.rows
  BY <1>1 DEF IInv, TypeOK
<1>8. TypeOK'
  BY <1>1, <1>4, <1>7 DEF IInv, TypeOK
<1>9. FlushShape' /\ DoneCopies'
  BY <1>1, <1>7 DEF IInv, FlushShape, DoneCopies
<1> QED
  BY <1>5, <1>6, <1>8, <1>9 DEF IInv

LEMMA HydrateSetsKeeps ==
    ASSUME IInv, HydrateSets
    PROVE  IInv'
<1> DEFINE listed == {r \in Rows : hydr.rows[r].status # "none"}
<1>1. PICK new \in [listed -> Slots] :
         /\ cur' = [r \in Rows |-> IF r \in listed THEN new[r] ELSE cur[r]]
         /\ heap' = GC([r \in Rows |-> IF r \in listed
                          THEN [heap[r] EXCEPT ![new[r]] = hydr.rows[r]]
                          ELSE heap[r]], cur', flush)
  BY DEF HydrateSets
<1> DEFINE h == [r \in Rows |-> IF r \in listed
                    THEN [heap[r] EXCEPT ![new[r]] = hydr.rows[r]]
                    ELSE heap[r]]
<1>2. /\ hydr' = NoHydrate
      /\ UNCHANGED <<rank, done, tick, due, edits, born, disk, ipc, flush, enq,
                     sent, drafts, undone, retried, crashes, faults>>
  BY DEF HydrateSets, userVars, worldVars, wishVars, envVars
<1>3. /\ heap \in [Rows -> [Slots -> Obj]] /\ cur \in [Rows -> Slots \cup {0}]
      /\ hydr.rows \in [Rows -> Obj]
  BY DEF IInv, TypeOK
<1>4. h \in [Rows -> [Slots -> Obj]] /\ heap' = GC(h, cur', flush)
  BY <1>1, <1>3
<1>5. \A r \in Rows, s \in Slots :
         h[r][s].status = "done" =>
             heap[r][s].status = "done" \/ hydr.rows[r].status = "done"
  BY <1>3
<1> HIDE DEF h
<1>6. /\ heap' \in [Rows -> [Slots -> Obj]]
      /\ \A r \in Rows, s \in Slots :
            heap'[r][s].status = "done" => h[r][s].status = "done"
  BY <1>4, GCKeepsObjects
<1>7. cur' \in [Rows -> Slots \cup {0}]
  BY <1>1, <1>3
<1>8. hydr' \in [pc : {"idle", "listing", "listed"}, rows : [Rows -> Obj]]
      /\ \A r \in Rows : hydr'.rows[r].status # "done"
  BY <1>2, BoundsAreNat DEF NoHydrate
<1>9. TypeOK'
  BY <1>2, <1>6, <1>7, <1>8 DEF IInv, TypeOK
<1>10. FlushShape' /\ IpcShape' /\ IpcOwned'
  BY <1>2 DEF IInv, FlushShape, IpcShape, IpcOwned
<1>11. DoneCopies'
  BY <1>2, <1>5, <1>6, <1>8 DEF IInv, DoneCopies
<1> QED
  BY <1>9, <1>10, <1>11 DEF IInv

LEMMA RestartKeeps ==
    ASSUME IInv, Restart
    PROVE  IInv'
<1>1. /\ crashes < MaxCrashes /\ crashes' = crashes + 1
      /\ cur' = [r \in Rows |-> IF disk[r].status = "none" THEN 0 ELSE 1]
      /\ heap' = [r \in Rows |-> [s \in Slots |->
                     IF s = 1 THEN disk[r] ELSE NoObj]]
      /\ rank' = [r \in Rows |-> r] /\ done' = {} /\ ipc' = <<>>
      /\ flush' = [f \in Flushers |-> NoFlush]
      /\ enq' = NoSend /\ hydr' = NoHydrate
      /\ UNCHANGED <<tick, due, edits, born, disk, sent, drafts, undone, retried,
                     faults>>
  BY DEF Restart, userVars, worldVars, wishVars
<1>2. /\ NoObj \in Obj /\ NoObj.status = "none" /\ NoFlush \in Flush
      /\ NoFlush.pc = "idle" /\ 1 \in Slots /\ MaxCrashes \in Nat
      /\ disk \in [Rows -> Obj] /\ crashes \in 0..MaxCrashes
  BY BoundsAreNat, OutboxAssumption DEF IInv, TypeOK
<1>3. ipc' \in Seq(Command) /\ Len(ipc') = 0
  BY <1>1, EmptySeq
<1>4. /\ heap' \in [Rows -> [Slots -> Obj]] /\ cur' \in [Rows -> Slots \cup {0}]
      /\ rank' \in [Rows -> Nat] /\ crashes' \in 0..MaxCrashes
      /\ flush' \in [Flushers -> Flush]
  BY <1>1, <1>2 DEF Rows
<1>5. /\ enq' \in [pc : {"idle", "waiting", "resume"}, at : Nat]
      /\ hydr' \in [pc : {"idle", "listing", "listed"}, rows : [Rows -> Obj]]
      /\ \A r \in Rows : hydr'.rows[r].status # "done"
  BY <1>1, <1>2 DEF NoSend, NoHydrate
<1>6. TypeOK'
  BY <1>1, <1>3, <1>4, <1>5 DEF IInv, TypeOK
<1>7. FlushShape' /\ IpcShape' /\ IpcOwned'
  BY <1>1, <1>2, <1>3 DEF FlushShape, IpcShape, IpcOwned, Carrying
<1>8. DoneCopies'
  <2>1. \A r \in Rows, s \in Slots :
            heap'[r][s].status = "done" => disk[r].status = "done"
    BY <1>1, <1>2
  <2> QED
    BY <2>1, <1>1, <1>5 DEF IInv, DoneCopies
<1> QED
  BY <1>6, <1>7, <1>8 DEF IInv

LEMMA AvailableAtKeeps ==
    ASSUME IInv, NEW r \in Rows, AvailableAt(r)
    PROVE  IInv'
<1>1. /\ due' = due \cup {r}
      /\ UNCHANGED <<heap, cur, rank, done, tick, edits, born, disk, ipc, flush,
                     enq, hydr, sent, drafts, undone, retried, crashes, faults>>
  BY DEF AvailableAt, memVars, worldVars, wishVars, envVars
<1>2. TypeOK'
  BY <1>1 DEF IInv, TypeOK
<1>3. FlushShape' /\ IpcShape' /\ IpcOwned' /\ DoneCopies'
  BY <1>1 DEF IInv, FlushShape, IpcShape, IpcOwned, DoneCopies
<1> QED
  BY <1>2, <1>3 DEF IInv

-----------------------------------------------------------------------------
(* The theorems *)

LEMMA NextKeepsIInv == IInv /\ [Next]_vars => IInv'
<1> SUFFICES ASSUME IInv, [Next]_vars PROVE IInv'
  OBVIOUS
<1>1. CASE \E f \in Flushers : FlushStep(f)
  <2> PICK f \in Flushers : FlushStep(f)
    BY <1>1
  <2>1. CASE \E r \in Rows : TakeRow(f, r)
    BY <2>1, TakeRowKeeps
  <2>2. CASE EndFlush(f)
    BY <2>2, EndFlushKeeps
  <2>3. CASE CallProvider(f)
    BY <2>3, CallProviderKeeps
  <2>4. CASE ProviderApplies(f)
    BY <2>4, ProviderAppliesKeeps
  <2>5. CASE ProviderAnswers(f) \/ ProviderThrows(f)
    BY <2>5, ProviderEndsKeeps
  <2> QED
    BY <2>1, <2>2, <2>3, <2>4, <2>5 DEF FlushStep
<1>2. CASE \E r \in Rows : UserStep(r) \/ AvailableAt(r)
  <2> PICK r \in Rows : UserStep(r) \/ AvailableAt(r)
    BY <1>2
  <2>1. CASE AvailableAt(r)
    BY <2>1, AvailableAtKeeps
  <2>2. CASE UserStep(r)
    <3>1. CASE CancelOutbox(r) \/ RetryOutbox(r)
      BY <3>1, CancelRetryKeeps
    <3>2. CASE CoalesceDraft(r) \/ NewDraft(r) \/ NewMutation(r)
                 \/ SendCancelsDraft(r) \/ NewSend(r)
      BY <3>2, EnqueueKeeps
    <3> QED
      BY <2>2, <3>1, <3>2 DEF UserStep
  <2> QED
    BY <2>1, <2>2
<1>3. CASE StoreExecutes
  BY <1>3, StoreExecutesKeeps
<1>4. CASE StoreRejects
  BY <1>4, StoreRejectsKeeps
<1>5. CASE HydrateStart
  BY <1>5, HydrateStartKeeps
<1>6. CASE HydrateSets
  BY <1>6, HydrateSetsKeeps
<1>7. CASE Restart
  BY <1>7, RestartKeeps
<1>8. CASE UNCHANGED vars
  <2>1. TypeOK'
    BY <1>8 DEF vars, IInv, TypeOK
  <2>2. FlushShape' /\ IpcShape' /\ IpcOwned' /\ DoneCopies'
    BY <1>8 DEF vars, IInv, FlushShape, IpcShape, IpcOwned, DoneCopies
  <2> QED
    BY <2>1, <2>2 DEF IInv
<1> QED
  BY <1>1, <1>2, <1>3, <1>4, <1>5, <1>6, <1>7, <1>8 DEF Next

\* The outbox keeps its inductive invariant: every interleaving of flushes,
\* user calls, store commands, stale lists and restarts.
THEOREM InvariantHolds == Spec => []IInv
  BY InitIInv, NextKeepsIInv, PTL DEF Spec

\* Every variable stays within its type.
THEOREM TypesHold == Spec => []TypeOK
<1>1. IInv => TypeOK
  BY DEF IInv
<1> QED
  BY <1>1, InvariantHolds, PTL

\* Done is never shown or stored for a row without an effect, whatever is
\* overlapped, lost, rejected, read back stale or restarted.
THEOREM DoneIsDelivered == Spec => []DoneMeansDelivered
<1>1. ASSUME IInv PROVE DoneMeansDelivered
  <2> SUFFICES ASSUME NEW r \in Rows,
                      (InMap(r) /\ Live(r).status = "done") \/ disk[r].status = "done"
               PROVE  sent[r] > 0
    BY DEF DoneMeansDelivered
  <2>1. CASE disk[r].status = "done"
    BY <1>1, <2>1 DEF IInv, DoneCopies
  <2>2. CASE InMap(r) /\ Live(r).status = "done"
    <3>1. cur[r] \in Slots
      BY <1>1, <2>2 DEF IInv, TypeOK, InMap
    <3> QED
      BY <1>1, <2>2, <3>1 DEF IInv, DoneCopies, Live
  <2> QED
    BY <2>1, <2>2
<1> QED
  BY <1>1, InvariantHolds, PTL

\* Only the step in which the provider applies a request changes what was
\* sent, and for the row of that flush alone.
LEMMA OnlyApplySends ==
    ASSUME IInv, [Next]_vars, NEW r \in Rows, sent'[r] # sent[r]
    PROVE  r \in due /\ disk[r].status # "none"
<1>1. sent' # sent
  OBVIOUS
<1>2. PICK f \in Flushers : ProviderApplies(f)
  BY <1>1 DEF Next, vars, FlushStep, UserStep, AvailableAt, TakeRow, EndFlush,
       CallProvider, ProviderAnswers, ProviderThrows, CatchSets, CoalesceDraft,
       NewDraft, NewMutation, NewSend, SendCancelsDraft, CancelOutbox,
       RetryOutbox, StoreExecutes, StoreRejects, HydrateStart, HydrateSets,
       Restart, worldVars
<1>3. /\ flush[f].pc = "calling"
      /\ sent' = [sent EXCEPT ![flush[f].row] = IF @ = 2 THEN 2 ELSE @ + 1]
  BY <1>2 DEF ProviderApplies
<1>4. flush[f].row = r
  BY <1>3 DEF IInv, TypeOK
<1> QED
  BY <1>3, <1>4 DEF IInv, FlushShape, Carrying, Stored

\* A held row has no effect before its time, for any number of flushes.
THEOREM HeldRowsDoWait == Spec => HeldRowsWait
<1>1. IInv /\ [Next]_vars => [\A r \in Rows : sent'[r] # sent[r] => r \in due]_vars
  BY OnlyApplySends
<1> QED
  BY <1>1, InvariantHolds, PTL DEF Spec, HeldRowsWait

\* The stored record comes before the effect.
THEOREM RecordComesFirst == Spec => RecordBeforeEffect
<1>1. IInv /\ [Next]_vars =>
        [\A r \in Rows : sent'[r] # sent[r] => disk[r].status # "none"]_vars
  BY OnlyApplySends
<1> QED
  BY <1>1, InvariantHolds, PTL DEF Spec, RecordBeforeEffect

-----------------------------------------------------------------------------
(* A confirmed undo is final, as long as hydrateLocal does not run again     *)
(* while the engine is in use: a list that was taken before the undo brings  *)
(* the row back (then the property is false).                                *)

\* The store command of an undo of r is on its way.
Undoing(r) == \E i \in 1..Len(ipc) : ipc[i].by = "undo" /\ ipc[i].row = r

\* Without that call, the Map has the only object of a row.
OneObject ==
    /\ hydr.pc = "idle"
    /\ \A i \in 1..Len(ipc) : ipc[i].by # "list"
    /\ \A r \in Rows : cur[r] \in {0, 1}

\* An id that was not handed out is in no place.
UnusedRows ==
    /\ tick \in Nat \ {0}
    /\ \A r \in Rows : born[r] = 0 =>
          /\ cur[r] = 0 /\ disk[r].status = "none"
          /\ \A i \in 1..Len(ipc) : ipc[i].row # r

\* A row whose undo is on its way or done is cancelled, nothing was sent of it, and
\* no flush is about to.
UndoneHeld ==
    \A r \in Rows : r \in undone \/ Undoing(r) =>
        /\ born[r] # 0 /\ cur[r] = 1 /\ heap[r][1].status = "cancelled"
        /\ sent[r] = 0 /\ \A f \in Flushers : ~AboutToSend(f, r)

\* The store has the cancellation, and nothing that would replace it is on its way.
UndoneStored ==
    \A r \in undone : /\ disk[r].status = "cancelled"
                      /\ \A i \in 1..Len(ipc) : ipc[i].row # r

\* The command of an undo is the last one of its row.
UndoneLast ==
    \A i \in 1..Len(ipc) : ipc[i].by = "undo" =>
        /\ ipc[i].row \in Rows /\ ipc[i].obj.status = "cancelled"
        /\ \A j \in 1..Len(ipc) : i < j => ipc[j].row # ipc[i].row

UndoInv == OneObject /\ UnusedRows /\ UndoneHeld /\ UndoneStored /\ UndoneLast

LEMMA UndoInit == Init => UndoInv
<1> SUFFICES ASSUME Init PROVE UndoInv
  OBVIOUS
<1>1. ipc = <<>> /\ Len(ipc) = 0 /\ N \in Nat
  BY BoundsAreNat, EmptySeq DEF Init
<1>2. OneObject /\ UnusedRows
  BY <1>1, BoundsAreNat DEF Init, OneObject, UnusedRows, NoHydrate
<1>3. UndoneHeld /\ UndoneStored /\ UndoneLast
  BY <1>1 DEF Init, UndoneHeld, UndoneStored, UndoneLast, Undoing
<1> QED BY <1>2, <1>3 DEF UndoInv

\* The row of a pending or failed object, of a flush before its answer or of an unused
\* id is not being undone.
LEMMA NotUndone ==
    ASSUME UndoInv, NEW r \in Rows,
           \/ InMap(r) /\ Live(r).status # "cancelled"
           \/ sent[r] > 0 \/ \E f \in Flushers : AboutToSend(f, r)
           \/ born[r] = 0
    PROVE  r \notin undone /\ ~Undoing(r)
BY DEF UndoInv, UndoneHeld, InMap, Live

LEMMA InMapIsUsed == ASSUME UndoInv, NEW r \in Rows, InMap(r) PROVE born[r] # 0 /\ cur[r] = 1
BY DEF UndoInv, UnusedRows, OneObject, InMap

\* A step that sends the store a command of a row that is not being undone.
LEMMA UndoPut ==
    ASSUME IInv, UndoInv, NEW r \in Rows, NEW o,
           NEW by \in Flushers \cup {"send", "undo", "user"}, Put(r, o, by),
           r \notin undone /\ ~Undoing(r),
           by = "undo" =>
               /\ o.status = "cancelled" /\ cur'[r] = 1 /\ heap'[r][1].status = "cancelled"
               /\ sent'[r] = 0 /\ \A f \in Flushers : ~AboutToSend(f, r)',
           cur'[r] \in {0, 1}, born'[r] # 0, tick' \in Nat \ {0},
           \A q \in Rows : q # r =>
               /\ cur'[q] = cur[q] /\ heap'[q] = heap[q] /\ born'[q] = born[q]
               /\ \A f \in Flushers : AboutToSend(f, q)' => AboutToSend(f, q),
           UNCHANGED <<hydr, disk, sent, undone>>
    PROVE  UndoInv'
<1> DEFINE c == [row |-> r, obj |-> o, by |-> by]
<1>1. ipc \in Seq(Command) /\ Len(ipc) \in Nat
  BY LenProperties DEF IInv, TypeOK
<1>2. ipc' = Append(ipc, c) /\ c.row = r /\ c.obj = o /\ c.by = by
  BY DEF Put
<1> HIDE DEF c
<1>3. /\ Len(ipc') = Len(ipc) + 1
      /\ \A i \in 1..Len(ipc) : ipc'[i] = ipc[i]
      /\ ipc'[Len(ipc) + 1] = c
  BY <1>1, <1>2
<1>4. \A i \in 1..Len(ipc') : i \in 1..Len(ipc) \/ i = Len(ipc) + 1
  BY <1>1, <1>3
<1>5. by # "list"
  BY OutboxAssumption
<1>6. OneObject'
  BY <1>2, <1>3, <1>4, <1>5 DEF UndoInv, OneObject
<1>7. UnusedRows'
  BY <1>2, <1>3, <1>4 DEF UndoInv, UnusedRows
<1>8. \A q \in Rows : Undoing(q)' => Undoing(q) \/ (q = r /\ by = "undo")
  BY <1>2, <1>3, <1>4 DEF Undoing
<1>9. UndoneHeld'
  <2> SUFFICES ASSUME NEW q \in Rows, q \in undone \/ Undoing(q)'
               PROVE  /\ born'[q] # 0 /\ cur'[q] = 1 /\ heap'[q][1].status = "cancelled"
                      /\ sent'[q] = 0 /\ \A f \in Flushers : ~AboutToSend(f, q)'
    BY DEF UndoneHeld
  <2>1. CASE q = r
    BY <1>8, <2>1
  <2>2. CASE q # r
    BY <1>8, <2>2 DEF UndoInv, UndoneHeld
  <2> QED BY <2>1, <2>2
<1>10. UndoneStored'
  BY <1>2, <1>3, <1>4 DEF UndoInv, UndoneStored
<1>11. UndoneLast'
  <2> SUFFICES ASSUME NEW i \in 1..Len(ipc'), ipc'[i].by = "undo"
               PROVE  /\ ipc'[i].row \in Rows /\ ipc'[i].obj.status = "cancelled"
                      /\ \A j \in 1..Len(ipc') : i < j => ipc'[j].row # ipc'[i].row
    BY DEF UndoneLast
  <2>1. CASE i = Len(ipc) + 1
    BY <1>1, <1>2, <1>3, <2>1
  <2>2. CASE i \in 1..Len(ipc)
    <3>1. ipc[i].row # r
      BY <1>3, <2>2 DEF Undoing
    <3> QED BY <1>2, <1>3, <1>4, <2>2, <3>1 DEF UndoInv, UndoneLast
  <2> QED BY <1>4, <2>1, <2>2
<1> QED BY <1>6, <1>7, <1>9, <1>10, <1>11 DEF UndoInv

\* The steps of the user: each is about a row that is open or new.
LEMMA UndoUserStep ==
    ASSUME IInv, UndoInv, NEW r \in Rows,
           \/ CoalesceDraft(r) \/ NewDraft(r) \/ NewMutation(r) \/ NewSend(r)
           \/ SendCancelsDraft(r) \/ CancelOutbox(r) \/ RetryOutbox(r)
    PROVE  UndoInv'
<1> USE DEF worldVars, wishVars, envVars, userVars
<1>0. /\ heap \in [Rows -> [Slots -> Obj]] /\ cur \in [Rows -> Slots \cup {0}]
      /\ born \in [Rows -> Nat] /\ 1 \in Slots /\ tick \in Nat \ {0}
      /\ \A q \in Rows : cur[q] \in {0, 1}
  BY OutboxAssumption DEF IInv, TypeOK, UndoInv, UnusedRows, OneObject
<1>1. ASSUME NEW k, NEW o, Add(r, k, o), UNCHANGED <<flush, hydr, disk, sent, undone>>
      PROVE  UndoInv'
  <2>1. /\ born[r] = 0 /\ Put(r, o, "user") /\ tick' = tick + 1
        /\ heap' = [heap EXCEPT ![r][1] = o] /\ cur' = [cur EXCEPT ![r] = 1]
        /\ born' = [born EXCEPT ![r] = tick]
    BY <1>1 DEF Add, Unused
  <2>2. r \notin undone /\ ~Undoing(r)
    BY <2>1, NotUndone
  <2> QED BY <1>0, <1>1, <2>1, <2>2, UndoPut DEF AboutToSend
<1>2. CASE NewDraft(r) \/ NewMutation(r) \/ NewSend(r)
  BY <1>1, <1>2 DEF NewDraft, NewMutation, NewSend
<1>3. ASSUME NEW o, NEW by \in {"send", "user"}, InMap(r), Live(r).status # "cancelled",
             heap' = [heap EXCEPT ![r][cur[r]] = o], Put(r, o, by),
             UNCHANGED <<cur, born, tick, flush, hydr, disk, sent, undone>>
      PROVE  UndoInv'
  <2>1. r \notin undone /\ ~Undoing(r) /\ born[r] # 0
    BY <1>3, NotUndone, InMapIsUsed
  <2> QED BY <1>0, <1>3, <2>1, UndoPut DEF AboutToSend
<1>4. CASE CoalesceDraft(r) \/ SendCancelsDraft(r)
  <2>1. InMap(r) /\ Live(r).status # "cancelled"
    BY <1>4 DEF CoalesceDraft, SendCancelsDraft, FirstOf, OpenDrafts
  <2>2. CASE CoalesceDraft(r)
    BY <1>3, <2>1, <2>2 DEF CoalesceDraft
  <2>3. CASE SendCancelsDraft(r)
    BY <1>3, <2>1, <2>3 DEF SendCancelsDraft
  <2> QED BY <1>4, <2>2, <2>3
<1>5. CASE RetryOutbox(r)
  BY <1>3, <1>5 DEF RetryOutbox
<1>6. CASE CancelOutbox(r)
  <2> DEFINE o == [Live(r) EXCEPT !.status = "cancelled"]
             final == sent[r] = 0 /\ \A f \in Flushers : ~AboutToSend(f, r)
  <2>1. /\ InMap(r) /\ Live(r).status = "pending"
        /\ heap' = [heap EXCEPT ![r][cur[r]] = o]
        /\ Put(r, o, IF final THEN "undo" ELSE "user")
        /\ UNCHANGED <<cur, born, tick, flush, hydr, disk, sent, undone>>
    BY <1>6 DEF CancelOutbox
  <2>2. o.status = "cancelled"
    BY <2>1, LiveObject DEF IInv, Obj
  <2> HIDE DEF o
  <2>3. r \notin undone /\ ~Undoing(r) /\ born[r] # 0 /\ cur[r] = 1
    BY <2>1, NotUndone, InMapIsUsed
  <2>4. heap'[r][1] = o
    BY <1>0, <2>1, <2>3
  <2>5. CASE final
    <3>1. Put(r, o, "undo")
      BY <2>1, <2>5
    <3> QED BY <1>0, <2>1, <2>2, <2>3, <2>4, <2>5, <3>1, UndoPut DEF AboutToSend
  <2>6. CASE ~final
    <3>1. Put(r, o, "user")
      BY <2>1, <2>6
    <3> QED BY <1>3, <2>1, <3>1
  <2> QED BY <2>5, <2>6
<1> QED BY <1>2, <1>4, <1>5, <1>6

\* The steps of a flush: it carries a row that is not being undone.
LEMMA UndoFlushStep ==
    ASSUME IInv, UndoInv, NEW f \in Flushers, FlushStep(f)
    PROVE  UndoInv'
<1> USE DEF memVars, worldVars, wishVars, envVars, userVars
<1>0. /\ heap \in [Rows -> [Slots -> Obj]] /\ cur \in [Rows -> Slots \cup {0}]
      /\ flush \in [Flushers -> Flush] /\ tick \in Nat \ {0} /\ sent \in [Rows -> 0..2]
      /\ f \notin {"undo"} /\ NoFlush.row = 0 /\ 0 \notin Rows
      /\ \A q \in Rows : cur[q] \in {0, 1}
  BY OutboxAssumption DEF IInv, TypeOK, UndoInv, UnusedRows, OneObject, NoFlush, Rows
<1>1. ASSUME NEW r \in Rows, NEW o, NEW s, Put(r, o, f),
             heap' = [heap EXCEPT ![r][s] = o],
             \A g \in Flushers : flush'[g].row = r \/ flush'[g].pc = "settling"
                                   \/ flush'[g] = flush[g],
             r \notin undone /\ ~Undoing(r) /\ born[r] # 0,
             UNCHANGED <<cur, born, tick, hydr, disk, sent, undone>>
      PROVE  UndoInv'
  <2>1. \A q \in Rows : q # r => \A g \in Flushers : AboutToSend(g, q)' => AboutToSend(g, q)
    BY <1>1 DEF AboutToSend
  <2> QED BY <1>0, <1>1, <2>1, UndoPut
<1>2. ASSUME NEW r \in Rows, TakeRow(f, r) PROVE UndoInv'
  <2> DEFINE o == [Live(r) EXCEPT !.status = "inflight"]
             fl == [NoFlush EXCEPT !.pc = "saving", !.at = rank[r], !.row = r, !.slot = cur[r]]
  <2>1. /\ InMap(r) /\ Live(r).status # "cancelled"
        /\ flush' = [flush EXCEPT ![f] = fl]
        /\ heap' = [heap EXCEPT ![r][cur[r]] = o] /\ Put(r, o, f)
        /\ UNCHANGED <<cur, born, tick, hydr, disk, sent, undone>>
    BY <1>2 DEF TakeRow, FirstOf, Ahead, Eligible, Settled
  <2>2. fl.row = r
    BY DEF NoFlush
  <2> HIDE DEF o, fl
  <2>3. r \notin undone /\ ~Undoing(r) /\ born[r] # 0
    BY <2>1, NotUndone, InMapIsUsed
  <2> QED BY <1>0, <1>1, <2>1, <2>2, <2>3
<1>3. ASSUME NEW o, Settle(f, o), flush[f].pc \in {"saved", "calling", "applied"},
             UNCHANGED <<cur, born, tick, hydr, disk, sent, undone>>
      PROVE  UndoInv'
  <2> DEFINE r == flush[f].row
  <2>1. r \in Rows /\ disk[r].status # "none"
    BY <1>3 DEF IInv, FlushShape, Carrying, Stored
  <2>2. r \notin undone /\ ~Undoing(r) /\ born[r] # 0
    <3>1. CASE flush[f].pc = "applied"
      <4>1. sent[r] > 0
        BY <3>1 DEF IInv, FlushShape, Carrying
      <4> QED BY <2>1, <4>1, NotUndone DEF UndoInv, UnusedRows
    <3>2. CASE flush[f].pc \in {"saved", "calling"}
      <4>1. AboutToSend(f, r)
        BY <3>2 DEF AboutToSend
      <4> QED BY <2>1, <4>1, NotUndone DEF UndoInv, UnusedRows
    <3> QED BY <1>3, <3>1, <3>2
  <2>3. /\ heap' = [heap EXCEPT ![r][flush[f].slot] = o] /\ Put(r, o, f)
        /\ flush' = [flush EXCEPT ![f].pc = "settling", ![f].ver = 0, ![f].pid = 0]
    BY <1>3 DEF Settle
  <2>4. flush'[f].pc = "settling" /\ \A g \in Flushers : g # f => flush'[g] = flush[g]
    BY <1>0, <2>3 DEF Flush
  <2> QED BY <1>1, <1>3, <2>1, <2>2, <2>3, <2>4
<1>4. CASE ProviderAnswers(f) \/ ProviderThrows(f)
  BY <1>3, <1>4 DEF ProviderAnswers, ProviderThrows, CatchSets, Stored, Carrying
<1>5. ASSUME \A q \in Rows, g \in Flushers : AboutToSend(g, q)' => AboutToSend(g, q),
             \A q \in Rows : sent'[q] = sent[q] \/ \E g \in Flushers : AboutToSend(g, q),
             UNCHANGED <<heap, cur, born, tick, ipc, hydr, disk, undone>>
      PROVE  UndoInv'
  BY <1>0, <1>5 DEF UndoInv, OneObject, UnusedRows, UndoneHeld, UndoneStored, UndoneLast,
     Undoing
<1>6. CASE EndFlush(f)
  <2>1. /\ flush' = [flush EXCEPT ![f] = NoFlush] /\ NoFlush.pc = "idle"
        /\ UNCHANGED <<heap, cur, born, tick, ipc, hydr, disk, sent, undone>>
    BY <1>6 DEF EndFlush, NoFlush
  <2>2. \A q \in Rows, g \in Flushers : AboutToSend(g, q)' => AboutToSend(g, q)
    BY <1>0, <2>1 DEF AboutToSend
  <2> QED BY <1>5, <2>1, <2>2
<1>7. CASE CallProvider(f)
  <2>1. CASE flush[f].row \in done
    BY <1>3, <1>7, <2>1 DEF CallProvider, Stored, Carrying
  <2>2. CASE flush[f].row \notin done
    <3>1. /\ flush' = [flush EXCEPT ![f].pc = "calling",
                          ![f].ver = Held(f).ver, ![f].pid = Held(f).pid]
          /\ UNCHANGED <<heap, cur, born, tick, ipc, hydr, disk, sent, undone>>
      BY <1>7, <2>2 DEF CallProvider
    <3>2. /\ flush'[f].row = flush[f].row /\ flush[f].pc = "saved"
          /\ \A g \in Flushers : g # f => flush'[g] = flush[g]
      BY <1>0, <1>7, <3>1 DEF Flush, CallProvider
    <3>3. \A q \in Rows, g \in Flushers : AboutToSend(g, q)' => AboutToSend(g, q)
      BY <3>2 DEF AboutToSend
    <3> QED BY <1>5, <3>1, <3>3
  <2> QED BY <2>1, <2>2
<1>8. CASE ProviderApplies(f)
  <2>1. /\ sent' = [sent EXCEPT ![flush[f].row] = IF @ = 2 THEN 2 ELSE @ + 1]
        /\ UNCHANGED <<heap, cur, born, tick, ipc, hydr, disk, undone>>
    BY <1>8 DEF ProviderApplies
  <2>2. /\ flush[f].pc = "calling" /\ flush'[f].pc = "applied"
        /\ \A g \in Flushers : g # f => flush'[g] = flush[g]
    <3>1. \/ flush' = [flush EXCEPT ![f].pc = "applied"]
          \/ \E p \in 1..MaxDrafts : flush' = [flush EXCEPT ![f].pc = "applied", ![f].pid = p]
      BY <1>8 DEF ProviderApplies
    <3>0. flush[f].pc = "calling"
      BY <1>8 DEF ProviderApplies
    <3>2. CASE flush' = [flush EXCEPT ![f].pc = "applied"]
      BY <1>0, <3>0, <3>2 DEF Flush
    <3>3. ASSUME NEW p, flush' = [flush EXCEPT ![f].pc = "applied", ![f].pid = p]
          PROVE  /\ flush'[f].pc = "applied"
                 /\ \A g \in Flushers : g # f => flush'[g] = flush[g]
      BY <1>0, <3>3 DEF Flush
    <3> QED BY <3>0, <3>1, <3>2, <3>3
  <2>3. \A q \in Rows : sent'[q] = sent[q] \/ AboutToSend(f, q)
    BY <1>0, <2>1, <2>2 DEF AboutToSend
  <2>4. \A q \in Rows, g \in Flushers : AboutToSend(g, q)' => AboutToSend(g, q)
    BY <2>2 DEF AboutToSend
  <2> QED BY <1>5, <2>1, <2>3, <2>4
<1> QED BY <1>2, <1>4, <1>6, <1>7, <1>8 DEF FlushStep

\* The first command of the queue is taken off, carried out or not.
LEMMA UndoTail ==
    ASSUME IInv, UndoInv, ipc # <<>>, ipc' = Tail(ipc), hydr' = hydr,
           disk' = disk \/ disk' = [disk EXCEPT ![Head(ipc).row] = Head(ipc).obj],
           \/ undone' = undone
           \/ /\ Head(ipc).by = "undo" /\ sent[Head(ipc).row] = 0
              /\ undone' = undone \cup {Head(ipc).row}
              /\ disk' = [disk EXCEPT ![Head(ipc).row] = Head(ipc).obj],
           \A q \in Rows, f \in Flushers : AboutToSend(f, q)' => AboutToSend(f, q),
           heap' = GC(heap, cur, flush'),
           UNCHANGED <<cur, tick, born, sent>>
    PROVE  UndoInv'
<1> DEFINE c == Head(ipc)
<1>1. ipc \in Seq(Command) /\ Len(ipc) \in Nat \ {0}
  BY EmptySeq DEF IInv, TypeOK
<1>2. /\ Len(ipc') = Len(ipc) - 1
      /\ \A i \in 1..Len(ipc') : ipc'[i] = ipc[i + 1]
      /\ c = ipc[1] /\ 1 \in 1..Len(ipc)
  BY <1>1
<1>3. \A i \in 1..Len(ipc') : i + 1 \in 1..Len(ipc) /\ 1 < i + 1
  BY <1>1, <1>2
<1>4. /\ c.by # "list" /\ c.row \in Rows
      /\ disk \in [Rows -> Obj] /\ heap \in [Rows -> [Slots -> Obj]]
      /\ undone \subseteq Rows /\ 0 \notin Rows /\ 1 \in Slots
  <2>1. c.by # "list"
    BY <1>2 DEF UndoInv, OneObject
  <2>2. c.row \in Rows
    BY <2>1, HeadFacts
  <2>3. 0 \notin Rows /\ 1 \in Slots
    BY OutboxAssumption DEF Rows
  <2> QED BY <2>1, <2>2, <2>3 DEF IInv, TypeOK
<1>5. \A r \in Rows, s \in Slots : s = cur[r] => heap'[r][s] = heap[r][s]
  BY <1>4 DEF GC
<1>6. OneObject'
  BY <1>2, <1>3 DEF UndoInv, OneObject
<1>7. UnusedRows'
  BY <1>2, <1>3, <1>4 DEF UndoInv, UnusedRows
<1>8. \A r \in Rows : Undoing(r)' => Undoing(r)
  BY <1>2, <1>3 DEF Undoing
<1>9. \A r \in undone' : r \in undone \/ Undoing(r)
  BY <1>2 DEF Undoing
<1>10. UndoneHeld'
  <2> SUFFICES ASSUME NEW r \in Rows, r \in undone \/ Undoing(r)
               PROVE  /\ born'[r] # 0 /\ cur'[r] = 1 /\ heap'[r][1].status = "cancelled"
                      /\ sent'[r] = 0 /\ \A f \in Flushers : ~AboutToSend(f, r)'
    BY <1>8, <1>9 DEF UndoneHeld
  <2> QED BY <1>4, <1>5 DEF UndoInv, UndoneHeld
<1>11. UndoneStored'
  <2> SUFFICES ASSUME NEW r \in undone'
               PROVE  /\ disk'[r].status = "cancelled"
                      /\ \A i \in 1..Len(ipc') : ipc'[i].row # r
    BY DEF UndoneStored
  <2>1. CASE r \in undone
    <3>1. c.row # r /\ disk[r].status = "cancelled"
      BY <1>2, <2>1 DEF UndoInv, UndoneStored
    <3>2. disk'[r] = disk[r]
      <4>1. r \in Rows
        BY <1>4, <2>1
      <4>2. disk' = disk \/ disk' = [disk EXCEPT ![c.row] = c.obj]
        OBVIOUS
      <4> QED BY <1>4, <3>1, <4>1, <4>2
    <3> QED BY <1>2, <1>3, <2>1, <3>1, <3>2 DEF UndoInv, UndoneStored
  <2>2. CASE r \notin undone
    <3>1. /\ c.by = "undo" /\ r = c.row
          /\ disk' = [disk EXCEPT ![r] = c.obj]
      BY <2>2
    <3>2. c.obj.status = "cancelled" /\ \A j \in 1..Len(ipc) : 1 < j => ipc[j].row # r
      BY <1>2, <3>1 DEF UndoInv, UndoneLast
    <3> QED BY <1>2, <1>3, <1>4, <3>1, <3>2
  <2> QED BY <2>1, <2>2
<1>12. UndoneLast'
  <2> SUFFICES ASSUME NEW i \in 1..Len(ipc'), ipc'[i].by = "undo"
               PROVE  /\ ipc'[i].row \in Rows /\ ipc'[i].obj.status = "cancelled"
                      /\ \A j \in 1..Len(ipc') : i < j => ipc'[j].row # ipc'[i].row
    BY DEF UndoneLast
  <2>1. \A j \in 1..Len(ipc') : i < j => i + 1 < j + 1
    BY <1>1, <1>2
  <2> QED BY <1>2, <1>3, <2>1 DEF UndoInv, UndoneLast
<1> QED BY <1>6, <1>7, <1>10, <1>11, <1>12 DEF UndoInv

\* The flush that goes on is not nearer to an effect than before.
LEMMA ResumedRows ==
    ASSUME IInv, StoreExecutes
    PROVE  \A q \in Rows, f \in Flushers : AboutToSend(f, q)' => AboutToSend(f, q)
<1> DEFINE c == Head(ipc)
<1>0. flush' = Resumed(c)
  BY DEF StoreExecutes
<1>1. \A f \in Flushers :
         /\ f # c.by => flush'[f] = flush[f]
         /\ f = c.by /\ flush[f].pc = "saving" =>
               flush'[f] = [flush[f] EXCEPT !.pc = "saved"]
         /\ f = c.by /\ flush[f].pc # "saving" =>
               flush'[f] = [NoFlush EXCEPT !.pc = "scan", !.at = flush[f].at]
  BY <1>0 DEF Resumed
<1> SUFFICES ASSUME NEW q \in Rows, NEW f \in Flushers, AboutToSend(f, q)'
             PROVE  AboutToSend(f, q)
  OBVIOUS
<1> DEFINE a == [flush[f] EXCEPT !.pc = "saved"]
           b == [NoFlush EXCEPT !.pc = "scan", !.at = flush[f].at]
<1>2. a.row = flush[f].row
  BY DEF IInv, TypeOK, Flush
<1>3. b.pc = "scan"
  BY DEF NoFlush
<1>4. \/ flush'[f] = flush[f] \/ flush'[f] = b
      \/ flush'[f] = a /\ flush[f].pc = "saving"
  BY <1>1
<1> HIDE DEF a, b
<1> QED BY <1>2, <1>3, <1>4 DEF AboutToSend

LEMMA UndoStoreStep ==
    ASSUME IInv, UndoInv, StoreExecutes \/ StoreRejects
    PROVE  UndoInv'
<1> USE DEF worldVars, wishVars, envVars, userVars
<1>0. ipc # <<>> /\ Len(ipc) \in Nat \ {0} /\ Head(ipc) = ipc[1]
  BY EmptySeq DEF StoreExecutes, StoreRejects, IInv, TypeOK
<1>1. Head(ipc).by # "list"
  BY <1>0 DEF UndoInv, OneObject
<1>2. flush \in [Flushers -> Flush] /\ NoFlush.pc = "idle"
  BY DEF IInv, TypeOK, NoFlush
<1>3. CASE StoreExecutes
  <2>1. /\ ipc' = Tail(ipc) /\ hydr' = hydr
        /\ disk' = [disk EXCEPT ![Head(ipc).row] = Head(ipc).obj]
        /\ flush' = Resumed(Head(ipc))
        /\ undone' = IF Head(ipc).by = "undo" /\ sent[Head(ipc).row] = 0
                     THEN undone \cup {Head(ipc).row} ELSE undone
        /\ heap' = GC(heap, cur, flush')
        /\ UNCHANGED <<cur, tick, born, sent>>
    BY <1>1, <1>3 DEF StoreExecutes
  <2>2. \A q \in Rows, f \in Flushers : AboutToSend(f, q)' => AboutToSend(f, q)
    BY <1>3, ResumedRows
  <2> QED BY <1>0, <2>1, <2>2, UndoTail
<1>4. CASE StoreRejects
  <2>1. /\ ipc' = Tail(ipc) /\ hydr' = hydr
        /\ disk' = disk \/ disk' = [disk EXCEPT ![Head(ipc).row] = Head(ipc).obj]
        /\ flush' = [f \in Flushers |-> IF f = Head(ipc).by THEN NoFlush ELSE flush[f]]
        /\ heap' = GC(heap, cur, flush')
        /\ UNCHANGED <<cur, tick, born, sent, undone>>
    BY <1>1, <1>4 DEF StoreRejects
  <2>2. \A q \in Rows, f \in Flushers : AboutToSend(f, q)' => AboutToSend(f, q)
    BY <1>2, <2>1 DEF AboutToSend
  <2> QED BY <1>0, <2>1, <2>2, UndoTail
<1> QED BY <1>3, <1>4

\* What is left of an undo after a restart is what the store has.
LEMMA UndoRestart ==
    ASSUME IInv, UndoInv, Restart
    PROVE  UndoInv'
<1>1. /\ cur' = [r \in Rows |-> IF disk[r].status = "none" THEN 0 ELSE 1]
      /\ heap' = [r \in Rows |-> [s \in Slots |-> IF s = 1 THEN disk[r] ELSE NoObj]]
      /\ ipc' = <<>> /\ flush' = [f \in Flushers |-> NoFlush] /\ hydr' = NoHydrate
      /\ UNCHANGED <<tick, born, disk, sent, undone>>
  BY DEF Restart, userVars, worldVars, wishVars
<1>2. /\ Len(ipc') = 0 /\ NoFlush.pc = "idle" /\ 0 \notin Rows /\ 1 \in Slots
      /\ NoHydrate.pc = "idle"
  BY <1>1, OutboxAssumption DEF NoFlush, Rows, NoHydrate
<1>3. OneObject' /\ UnusedRows' /\ UndoneLast'
  BY <1>1, <1>2 DEF UndoInv, OneObject, UnusedRows, UndoneLast
<1>4. \A r \in Rows : ~Undoing(r)'
  BY <1>2 DEF Undoing
<1>5. UndoneHeld' /\ UndoneStored'
  BY <1>1, <1>2, <1>4 DEF UndoInv, UndoneHeld, UndoneStored, AboutToSend
<1> QED BY <1>3, <1>5 DEF UndoInv

LEMMA UndoNext == ~Rehydrates /\ IInv /\ UndoInv /\ [Next]_vars => UndoInv'
<1> SUFFICES ASSUME ~Rehydrates, IInv, UndoInv, [Next]_vars PROVE UndoInv'
  OBVIOUS
<1>1. ~HydrateStart /\ ~HydrateSets
  BY DEF HydrateStart, HydrateSets, UndoInv, OneObject
<1>2. ASSUME NEW r \in Rows, AvailableAt(r) PROVE UndoInv'
  BY <1>2 DEF AvailableAt, memVars, worldVars, wishVars, UndoInv, OneObject, UnusedRows,
     UndoneHeld, UndoneStored, UndoneLast, Undoing, AboutToSend
<1>3. CASE UNCHANGED vars
  BY <1>3 DEF vars, UndoInv, OneObject, UnusedRows, UndoneHeld, UndoneStored, UndoneLast,
     Undoing, AboutToSend
<1>4. ASSUME NEW r \in Rows, UserStep(r) PROVE UndoInv'
  BY <1>4, UndoUserStep DEF UserStep
<1> QED BY <1>1, <1>2, <1>3, <1>4, UndoFlushStep, UndoStoreStep, UndoRestart DEF Next

-----------------------------------------------------------------------------
(* Without a second hydrateLocal, every step of the outbox is of one of these *)
(* kinds, whatever the row, the payload and the caller.                       *)

Status(r) == heap[r][1].status

\* A running flush holds the object that the Map has.
CarriedRows == \A f \in Flushers : flush[f].pc \in Carrying =>
                  flush[f].slot = 1 /\ cur[flush[f].row] = 1

RealObjects == \A r \in Rows : cur[r] = 1 => Status(r) # "none"

\* Row r gets status t in memory, and the command that stores it is sent.
Appends(r, t) ==
    /\ Len(ipc') = Len(ipc) + 1
    /\ \A i \in 1..Len(ipc) : ipc'[i] = ipc[i]
    /\ ipc'[Len(ipc) + 1].row = r /\ ipc'[Len(ipc) + 1].obj.status = t
    /\ cur'[r] = 1 /\ heap'[r][1].status = t
    /\ \A q \in Rows : q # r => cur'[q] = cur[q] /\ heap'[q][1] = heap[q][1]
    /\ disk' = disk

\* The row keeps its payload.
Keeps(r) == heap'[r][1].ver = heap[r][1].ver /\ UNCHANGED <<edits, drafts>>

\* The row has the newest version of the draft.
IsEdited(r) == /\ edits' = edits + 1 /\ heap'[r][1].ver = edits + 1 /\ drafts' = drafts

\* Whether a flush awaits the command that a step sends.
Awaited == ipc'[Len(ipc) + 1].by \in Flushers

Enters(r) ==
    /\ born[r] = 0 /\ Appends(r, "pending") /\ ~Awaited
    /\ IF Kind[r] = "save_draft" THEN OpenDrafts = {} /\ IsEdited(r)
                                 ELSE UNCHANGED <<edits, drafts>>
    /\ born' = [born EXCEPT ![r] = tick] /\ rank' = [rank EXCEPT ![r] = tick]
    /\ tick' = tick + 1
    /\ UNCHANGED <<flush, due, sent, retried>>

Edits(r, t) ==
    /\ cur[r] = 1 /\ Appends(r, t) /\ ~Awaited
    /\ Status(r) \in {"pending", "failed"}
    /\ \/ t = Status(r) /\ IsEdited(r) /\ FirstOf(r, OpenDrafts)
       \/ t = "cancelled" /\ Keeps(r)
    /\ UNCHANGED <<born, rank, tick, flush, due, sent, retried>>

Retries(r) ==
    /\ cur[r] = 1 /\ Appends(r, "pending") /\ ~Awaited
    /\ Status(r) = "failed" /\ Keeps(r)
    /\ retried' = retried \cup {r}
    /\ UNCHANGED <<born, rank, tick, flush, due, sent>>

OthersKeep(f) == \A g \in Flushers : g # f => flush'[g] = flush[g]
SameRow(f) == /\ flush'[f].at = flush[f].at /\ flush'[f].row = flush[f].row
              /\ flush'[f].slot = flush[f].slot

Takes(f, r) ==
    /\ flush[f].pc \in {"idle", "scan"} /\ FirstOf(r, Ahead(f))
    /\ cur[r] = 1 /\ Status(r) \in {"pending", "inflight"} /\ Appends(r, "inflight")
    /\ ipc'[Len(ipc) + 1].by = f /\ Keeps(r) /\ flush'[f].pc = "saving" /\ flush'[f].at = rank[r] /\ flush'[f].row = r
    /\ flush'[f].slot = 1 /\ OthersKeep(f)
    /\ UNCHANGED <<born, rank, tick, due, sent, retried>>

Finishes(f, t) ==
    /\ flush[f].pc \in {"saved", "calling", "applied"} /\ Appends(flush[f].row, t)
    /\ ipc'[Len(ipc) + 1].by = f /\ Keeps(flush[f].row)
    /\ \/ /\ t = "done" /\ sent[flush[f].row] > 0 /\ retried' = retried
          /\ flush[f].pc = "applied" \/ flush[f].row \in done
       \/ t = "failed" /\ retried' = retried \ {flush[f].row}
    /\ flush'[f].pc = "settling" /\ SameRow(f) /\ OthersKeep(f)
    /\ UNCHANGED <<born, rank, tick, due, sent>>

\* A step of one flush that no store command goes with.
Moves(f) ==
    /\ \/ /\ flush[f].pc = "scan" /\ flush' = [flush EXCEPT ![f] = NoFlush]
          /\ UNCHANGED <<sent, drafts>>
       \/ /\ flush[f].pc = "saved" /\ flush'[f].pc = "calling" /\ SameRow(f)
          /\ flush'[f].ver = Held(f).ver
          /\ UNCHANGED <<sent, drafts>>
       \/ /\ flush[f].pc = "calling" /\ flush'[f].pc = "applied" /\ SameRow(f)
          /\ sent' = [sent EXCEPT ![flush[f].row] = IF @ = 2 THEN 2 ELSE @ + 1]
          /\ sent'[flush[f].row] > 0
          /\ \A q \in Rows : q # flush[f].row => sent'[q] = sent[q]
          /\ flush'[f].ver = flush[f].ver
          /\ IF Kind[flush[f].row] = "save_draft"
             THEN /\ flush'[f].pid \in 1..MaxDrafts
                  /\ drafts' = [drafts EXCEPT ![flush'[f].pid] = flush[f].ver]
             ELSE drafts' = drafts
    /\ OthersKeep(f)
    /\ UNCHANGED <<heap, cur, born, rank, tick, ipc, disk, due, retried, edits>>

Waits ==
    /\ due \subseteq due'
    /\ UNCHANGED <<heap, cur, born, rank, tick, ipc, disk, flush, sent, retried, edits,
                   drafts>>

\* The flush that waited for the command goes on or, when it is rejected, ends.
Resumes(f) ==
    IF f # ipc[1].by THEN flush'[f] = flush[f]
    ELSE \/ flush'[f] = NoFlush /\ flush[f].pc \in {"saving", "settling"} /\ MaxFaults > 0
         \/ flush[f].pc = "saving" /\ flush'[f].pc = "saved" /\ SameRow(f)
         \/ /\ flush[f].pc = "settling" /\ flush'[f].pc = "scan"
            /\ flush'[f].at = flush[f].at /\ flush'[f].row = 0

Pops ==
    /\ Len(ipc') = Len(ipc) - 1 /\ Len(ipc) > 0
    /\ \A i \in 1..Len(ipc') : ipc'[i] = ipc[i + 1]
    /\ \/ disk' = [disk EXCEPT ![ipc[1].row] = ipc[1].obj]
       \/ disk' = disk /\ MaxFaults > 0
    /\ \A f \in Flushers : Resumes(f)
    /\ \A q \in Rows : cur[q] = 1 => heap'[q][1] = heap[q][1]
    /\ UNCHANGED <<cur, born, rank, tick, due, sent, retried, edits, drafts>>

Restarts ==
    /\ cur' = [r \in Rows |-> IF disk[r].status = "none" THEN 0 ELSE 1]
    /\ \A r \in Rows : heap'[r][1] = disk[r] /\ rank'[r] = r
    /\ flush' = [f \in Flushers |-> NoFlush] /\ ipc' = <<>>
    /\ MaxCrashes > 0
    /\ UNCHANGED <<born, tick, disk, due, sent, retried>>

StepKind ==
    \/ \E r \in Rows : Enters(r) \/ Retries(r) \/ \E t \in Statuses : Edits(r, t)
    \/ \E f \in Flushers : \/ \E r \in Rows : Takes(f, r)
                           \/ Finishes(f, "done") \/ Finishes(f, "failed")
                           \/ Moves(f)
    \/ Waits \/ Pops \/ Restarts

LEMMA PutAppends ==
    ASSUME IInv, NEW r \in Rows, NEW o, NEW by, Put(r, o, by),
           heap' = [heap EXCEPT ![r][1] = o],
           cur' = [cur EXCEPT ![r] = 1] \/ (cur' = cur /\ cur[r] = 1),
           UNCHANGED disk
    PROVE  Appends(r, o.status) /\ ipc'[Len(ipc) + 1].by = by
<1> DEFINE c == [row |-> r, obj |-> o, by |-> by]
<1>1. ipc \in Seq(Command) /\ Len(ipc) \in Nat
  BY LenProperties DEF IInv, TypeOK
<1>2. ipc' = Append(ipc, c) /\ c.row = r /\ c.obj = o /\ c.by = by
  BY DEF Put
<1> HIDE DEF c
<1>3. /\ Len(ipc') = Len(ipc) + 1
      /\ \A i \in 1..Len(ipc) : ipc'[i] = ipc[i]
      /\ ipc'[Len(ipc) + 1] = c
  BY <1>1, <1>2
<1>4. /\ heap \in [Rows -> [Slots -> Obj]] /\ cur \in [Rows -> Slots \cup {0}]
      /\ 1 \in Slots
  BY OutboxAssumption DEF IInv, TypeOK
<1>5. heap'[r][1] = o /\ cur'[r] = 1
  BY <1>4
<1>6. \A q \in Rows : q # r => cur'[q] = cur[q] /\ heap'[q][1] = heap[q][1]
  BY <1>4
<1> QED BY <1>2, <1>3, <1>5, <1>6 DEF Appends

\* The object of the row that the Map has is the first one.
LEMMA LiveIsFirst ==
    ASSUME UndoInv, NEW r \in Rows, InMap(r)
    PROVE  cur[r] = 1 /\ Live(r) = heap[r][1] /\ Live(r).status = Status(r)
BY DEF UndoInv, OneObject, InMap, Live, Status

LEMMA UserKind ==
    ASSUME IInv, UndoInv, NEW r \in Rows, UserStep(r)
    PROVE  StepKind
<1> USE DEF worldVars, wishVars, envVars, userVars
<1>0. /\ heap \in [Rows -> [Slots -> Obj]] /\ 1 \in Slots
      /\ \A by \in {"send", "undo", "user"} : by \notin Flushers
  BY OutboxAssumption DEF IInv, TypeOK
<1>1. ASSUME NEW k, NEW o, Add(r, k, o), o.status = "pending",
             UNCHANGED <<flush, due, disk, sent, retried, drafts>>,
             IF k = "save_draft" THEN OpenDrafts = {} /\ edits' = edits + 1 /\ o.ver = edits + 1
                                 ELSE edits' = edits
      PROVE  Enters(r)
  <2>1. Appends(r, "pending") /\ ~Awaited /\ heap'[r][1] = o /\ Kind[r] = k
    BY <1>0, <1>1, PutAppends DEF Add, Awaited
  <2> QED BY <1>1, <2>1 DEF Add, Unused, Enters, IsEdited
<1>2. CASE NewDraft(r)
  <2>1. Enters(r)
    BY <1>1, <1>2 DEF NewDraft
  <2> QED BY <2>1 DEF StepKind
<1>3. CASE NewMutation(r) \/ NewSend(r)
  <2>1. Enters(r)
    BY <1>1, <1>3 DEF NewMutation, NewSend
  <2> QED BY <2>1 DEF StepKind
<1>4. ASSUME NEW o, NEW by \in {"send", "undo", "user"}, InMap(r), Put(r, o, by),
             heap' = [heap EXCEPT ![r][cur[r]] = o], cur' = cur, UNCHANGED disk
      PROVE  /\ cur[r] = 1 /\ Appends(r, o.status) /\ ~Awaited /\ Live(r) = heap[r][1]
             /\ Live(r).status = Status(r) /\ heap'[r][1] = o
  BY <1>0, <1>4, LiveIsFirst, PutAppends DEF Awaited
<1>5. CASE CoalesceDraft(r)
  <2> DEFINE o == [Live(r) EXCEPT !.ver = edits + 1, !.pid = PriorDraftId]
  <2>1. /\ InMap(r) /\ Live(r).status \in {"pending", "failed"} /\ FirstOf(r, OpenDrafts)
        /\ heap' = [heap EXCEPT ![r][cur[r]] = o] /\ Put(r, o, "user")
        /\ edits' = edits + 1
        /\ UNCHANGED <<cur, born, rank, tick, flush, due, sent, retried, disk, drafts>>
    BY <1>5 DEF CoalesceDraft, FirstOf, OpenDrafts
  <2>2. o.status = Live(r).status /\ o.ver = edits + 1
    BY <2>1, LiveObject DEF IInv, Obj
  <2> HIDE DEF o
  <2>3. Edits(r, Status(r)) /\ Status(r) \in Statuses
    BY <1>4, <2>1, <2>2 DEF Edits, Statuses, IsEdited
  <2> QED BY <2>3 DEF StepKind
<1>6. CASE SendCancelsDraft(r) \/ CancelOutbox(r)
  <2> DEFINE o == [Live(r) EXCEPT !.status = "cancelled"]
  <2>1. /\ InMap(r) /\ Live(r).status \in {"pending", "failed"}
        /\ heap' = [heap EXCEPT ![r][cur[r]] = o] /\ \E by \in {"send", "undo", "user"} : Put(r, o, by)
        /\ UNCHANGED <<cur, born, rank, tick, flush, due, sent, retried, disk, edits, drafts>>
    BY <1>6 DEF SendCancelsDraft, CancelOutbox, FirstOf, OpenDrafts
  <2>2. o.status = "cancelled" /\ o.ver = Live(r).ver
    BY <2>1, LiveObject DEF IInv, Obj
  <2> HIDE DEF o
  <2>3. Edits(r, "cancelled") /\ "cancelled" \in Statuses
    BY <1>4, <2>1, <2>2 DEF Edits, Statuses, Keeps
  <2> QED BY <2>3 DEF StepKind
<1>7. CASE RetryOutbox(r)
  <2> DEFINE o == [Live(r) EXCEPT !.status = "pending"]
  <2>1. /\ InMap(r) /\ Live(r).status = "failed"
        /\ heap' = [heap EXCEPT ![r][cur[r]] = o] /\ Put(r, o, "user")
        /\ retried' = retried \cup {r}
        /\ UNCHANGED <<cur, born, rank, tick, flush, due, sent, disk, edits, drafts>>
    BY <1>7 DEF RetryOutbox
  <2>2. o.status = "pending" /\ o.ver = Live(r).ver
    BY <2>1, LiveObject DEF IInv, Obj
  <2> HIDE DEF o
  <2>3. Retries(r)
    BY <1>4, <2>1, <2>2 DEF Retries, Keeps
  <2> QED BY <2>3 DEF StepKind
<1> QED BY <1>2, <1>3, <1>5, <1>6, <1>7 DEF UserStep

LEMMA FlushKind ==
    ASSUME IInv, UndoInv, CarriedRows, RealObjects, NEW f \in Flushers, FlushStep(f)
    PROVE  StepKind
<1> USE DEF memVars, worldVars, wishVars, envVars, userVars
<1>0. /\ flush \in [Flushers -> Flush] /\ sent \in [Rows -> 0..2]
      /\ heap \in [Rows -> [Slots -> Obj]] /\ 1 \in Slots
  BY OutboxAssumption DEF IInv, TypeOK
<1>1. ASSUME NEW r \in Rows, TakeRow(f, r) PROVE Takes(f, r)
  <2> DEFINE o == [Live(r) EXCEPT !.status = "inflight"]
             fl == [NoFlush EXCEPT !.pc = "saving", !.at = rank[r], !.row = r, !.slot = cur[r]]
  <2>1. /\ flush[f].pc \in {"idle", "scan"} /\ FirstOf(r, Ahead(f))
        /\ flush' = [flush EXCEPT ![f] = fl]
        /\ heap' = [heap EXCEPT ![r][cur[r]] = o] /\ Put(r, o, f)
        /\ UNCHANGED <<cur, born, rank, tick, due, disk, sent, retried, edits, drafts>>
    BY <1>1 DEF TakeRow
  <2>2. InMap(r) /\ Live(r).status \notin Settled
    BY <2>1 DEF FirstOf, Ahead, Eligible
  <2>3. fl.pc = "saving" /\ fl.at = rank[r] /\ fl.row = r /\ fl.slot = cur[r]
    BY DEF NoFlush
  <2>4. o.status = "inflight" /\ o.ver = Live(r).ver
    BY <2>2, LiveObject DEF IInv, Obj
  <2> HIDE DEF o, fl
  <2>5. /\ cur[r] = 1 /\ Live(r).status = Status(r) /\ Live(r) = heap[r][1]
        /\ born[r] # 0 /\ heap'[r][1] = o
    BY <1>0, <2>1, <2>2, LiveIsFirst, InMapIsUsed
  <2>6. Appends(r, "inflight") /\ ipc'[Len(ipc) + 1].by = f /\ Keeps(r)
    BY <2>1, <2>4, <2>5, PutAppends DEF Keeps
  <2>7. Status(r) \in {"pending", "inflight"}
    BY <2>2, <2>5, LiveObject DEF IInv, Obj, Settled, Statuses, RealObjects
  <2>8. flush'[f] = fl /\ OthersKeep(f)
    BY <1>0, <2>1 DEF OthersKeep
  <2> QED BY <2>1, <2>3, <2>5, <2>6, <2>7, <2>8 DEF Takes
<1>2. ASSUME NEW o, Settle(f, o), flush[f].pc \in {"saved", "calling", "applied"},
             UNCHANGED <<cur, born, rank, tick, due, disk, sent, edits, drafts>>,
             o.ver = Held(f).ver,
             \/ /\ o.status = "done" /\ sent[flush[f].row] > 0 /\ retried' = retried
                /\ flush[f].pc = "applied" \/ flush[f].row \in done
             \/ o.status = "failed" /\ retried' = retried \ {flush[f].row}
      PROVE  Finishes(f, o.status)
  <2>1. flush[f].row \in Rows /\ flush[f].slot = 1 /\ cur[flush[f].row] = 1
    BY <1>2 DEF IInv, FlushShape, CarriedRows, Carrying
  <2>2. /\ heap' = [heap EXCEPT ![flush[f].row][1] = o] /\ Put(flush[f].row, o, f)
        /\ flush' = [flush EXCEPT ![f].pc = "settling", ![f].ver = 0, ![f].pid = 0]
    BY <1>2, <2>1 DEF Settle
  <2>3. /\ Appends(flush[f].row, o.status) /\ ipc'[Len(ipc) + 1].by = f
        /\ Keeps(flush[f].row)
    BY <1>0, <1>2, <2>1, <2>2, PutAppends DEF Keeps, Held
  <2>4. flush'[f].pc = "settling" /\ SameRow(f) /\ OthersKeep(f)
    BY <1>0, <2>2 DEF Flush, SameRow, OthersKeep
  <2> QED BY <1>2, <2>3, <2>4 DEF Finishes
<1>3. ASSUME flush[f].pc \in Carrying, NEW p
      PROVE  /\ [Held(f) EXCEPT !.status = "done"].status = "done"
             /\ [Held(f) EXCEPT !.status = "done"].ver = Held(f).ver
             /\ [Held(f) EXCEPT !.status = "failed"].status = "failed"
             /\ [Held(f) EXCEPT !.status = "failed"].ver = Held(f).ver
             /\ [Held(f) EXCEPT !.status = "done", !.pid = p].status = "done"
             /\ [Held(f) EXCEPT !.status = "done", !.pid = p].ver = Held(f).ver
  BY <1>3, HeldObject DEF IInv, Obj
<1>4. CASE CallProvider(f)
  <2>1. CASE flush[f].row \in done
    <3>1. flush[f].pc \in Carrying /\ flush[f].row \in Rows
      BY <1>4 DEF CallProvider, Carrying, IInv, FlushShape
    <3>2. sent[flush[f].row] > 0
      BY <2>1, <3>1 DEF IInv, DoneCopies
    <3> DEFINE o == [Held(f) EXCEPT !.status = "done"]
    <3>3. o.status = "done" /\ o.ver = Held(f).ver
      BY <1>3, <3>1
    <3>4. Settle(f, o)
      BY <1>4, <2>1 DEF CallProvider
    <3> HIDE DEF o
    <3>5. Finishes(f, "done")
      BY <1>2, <1>4, <2>1, <3>2, <3>3, <3>4 DEF CallProvider
    <3> QED BY <3>5 DEF StepKind
  <2>2. CASE flush[f].row \notin done
    <3>1. /\ flush[f].pc = "saved"
          /\ flush' = [flush EXCEPT ![f].pc = "calling",
                          ![f].ver = Held(f).ver, ![f].pid = Held(f).pid]
          /\ UNCHANGED <<heap, cur, born, rank, tick, ipc, disk, due, retried, sent, edits,
                         drafts>>
      BY <1>4, <2>2 DEF CallProvider
    <3>2. /\ flush'[f].pc = "calling" /\ SameRow(f) /\ OthersKeep(f)
          /\ flush'[f].ver = Held(f).ver
      BY <1>0, <3>1 DEF Flush, SameRow, OthersKeep
    <3> QED BY <3>1, <3>2 DEF Moves, StepKind
  <2> QED BY <2>1, <2>2
<1>5. CASE ProviderApplies(f)
  <2>1. /\ flush[f].pc = "calling"
        /\ sent' = [sent EXCEPT ![flush[f].row] = IF @ = 2 THEN 2 ELSE @ + 1]
        /\ UNCHANGED <<heap, cur, born, rank, tick, ipc, disk, due, retried, edits>>
    BY <1>5 DEF ProviderApplies
  <2>2. flush[f].row \in Rows
    BY <2>1 DEF IInv, FlushShape, Carrying
  <2>3. sent'[flush[f].row] > 0 /\ \A q \in Rows : q # flush[f].row => sent'[q] = sent[q]
    BY <1>0, <2>1, <2>2
  <2>4. /\ flush'[f].pc = "applied" /\ SameRow(f) /\ OthersKeep(f)
        /\ flush'[f].ver = flush[f].ver
        /\ IF Kind[flush[f].row] = "save_draft"
           THEN /\ flush'[f].pid \in 1..MaxDrafts
                /\ drafts' = [drafts EXCEPT ![flush'[f].pid] = flush[f].ver]
           ELSE drafts' = drafts
    <3>1. CASE Kind[flush[f].row] # "save_draft"
      <4>1. flush' = [flush EXCEPT ![f].pc = "applied"] /\ drafts' = drafts
        BY <1>5, <3>1 DEF ProviderApplies
      <4> QED BY <1>0, <3>1, <4>1 DEF Flush, SameRow, OthersKeep
    <3>2. CASE Kind[flush[f].row] = "save_draft"
      <4>1. PICK p \in 1..MaxDrafts :
              /\ drafts' = [drafts EXCEPT ![p] = flush[f].ver]
              /\ flush' = [flush EXCEPT ![f].pc = "applied", ![f].pid = p]
        BY <1>5, <3>2 DEF ProviderApplies
      <4>2. /\ flush'[f].pc = "applied" /\ SameRow(f) /\ OthersKeep(f)
            /\ flush'[f].ver = flush[f].ver /\ flush'[f].pid = p
        BY <1>0, <4>1 DEF Flush, SameRow, OthersKeep
      <4> QED BY <3>2, <4>1, <4>2
    <3> QED BY <3>1, <3>2
  <2> QED BY <2>1, <2>3, <2>4 DEF Moves, StepKind
<1>6. CASE ProviderAnswers(f)
  <2> DEFINE p == IF Kind[flush[f].row] = "save_draft" THEN flush[f].pid ELSE Held(f).pid
             o == [Held(f) EXCEPT !.status = "done", !.pid = p]
  <2>1. /\ flush[f].pc = "applied"
        /\ Settle(f, [Held(f) EXCEPT !.status = "done",
                        !.pid = IF Kind[flush[f].row] = "save_draft"
                                THEN flush[f].pid ELSE @])
        /\ UNCHANGED <<cur, born, rank, tick, due, disk, sent, retried, edits, drafts>>
    BY <1>6 DEF ProviderAnswers
  <2>2. Settle(f, o) /\ o.status = "done" /\ o.ver = Held(f).ver
    BY <1>3, <2>1 DEF Carrying
  <2> HIDE DEF o
  <2>3. sent[flush[f].row] > 0
    BY <2>1 DEF IInv, FlushShape, Carrying
  <2>4. Finishes(f, "done")
    BY <1>2, <2>1, <2>2, <2>3
  <2> QED BY <2>4 DEF StepKind
<1>7. CASE ProviderThrows(f)
  <2> DEFINE o == [Held(f) EXCEPT !.status = "failed"]
  <2>1. /\ flush[f].pc \in {"calling", "applied"} /\ Settle(f, o)
        /\ retried' = retried \ {flush[f].row}
        /\ UNCHANGED <<cur, born, rank, tick, due, disk, sent, edits, drafts>>
    BY <1>7 DEF ProviderThrows, CatchSets
  <2>2. o.status = "failed" /\ o.ver = Held(f).ver
    BY <1>3, <2>1 DEF Carrying
  <2> HIDE DEF o
  <2>3. Finishes(f, "failed")
    BY <1>2, <2>1, <2>2
  <2> QED BY <2>3 DEF StepKind
<1>8. CASE EndFlush(f)
  <2>1. /\ flush[f].pc = "scan" /\ flush' = [flush EXCEPT ![f] = NoFlush]
        /\ UNCHANGED <<heap, cur, born, rank, tick, ipc, disk, due, retried, sent, edits,
                       drafts>>
    BY <1>8 DEF EndFlush
  <2>2. OthersKeep(f)
    BY <1>0, <2>1 DEF OthersKeep
  <2> QED BY <2>1, <2>2 DEF Moves, StepKind
<1> QED BY <1>1, <1>4, <1>5, <1>6, <1>7, <1>8 DEF FlushStep, StepKind

LEMMA StoreKind ==
    ASSUME IInv, UndoInv, StoreExecutes \/ StoreRejects
    PROVE  Pops
<1> USE DEF worldVars, wishVars, envVars, userVars
<1>0. ipc # <<>> /\ ipc \in Seq(Command) /\ Len(ipc) \in Nat \ {0} /\ ipc' = Tail(ipc)
  BY EmptySeq DEF StoreExecutes, StoreRejects, IInv, TypeOK
<1>1. /\ Head(ipc) = ipc[1] /\ 1 \in 1..Len(ipc)
      /\ Len(ipc') = Len(ipc) - 1 /\ \A i \in 1..Len(ipc') : ipc'[i] = ipc[i + 1]
  BY <1>0
<1>2. Head(ipc).by # "list"
  BY <1>1 DEF UndoInv, OneObject
<1>3. \A f \in Flushers : f = Head(ipc).by => flush[f].pc \in {"saving", "settling"}
  BY <1>1 DEF IInv, IpcOwned
<1>4. /\ disk' = [disk EXCEPT ![ipc[1].row] = ipc[1].obj] \/ (disk' = disk /\ MaxFaults > 0)
      /\ heap' = GC(heap, cur, flush')
      /\ UNCHANGED <<cur, born, rank, tick, due, sent, retried, edits, drafts>>
  <2>1. faults \in 0..MaxFaults /\ MaxFaults \in Nat
    BY OutboxAssumption DEF IInv, TypeOK
  <2>2. CASE StoreExecutes
    BY <1>1, <1>2, <2>2 DEF StoreExecutes
  <2>3. CASE StoreRejects
    BY <1>1, <1>2, <2>1, <2>3 DEF StoreRejects
  <2> QED BY <2>2, <2>3
<1>5. \A q \in Rows : cur[q] = 1 => heap'[q][1] = heap[q][1]
  <2>1. heap \in [Rows -> [Slots -> Obj]] /\ 1 \in Slots
    BY OutboxAssumption DEF IInv, TypeOK
  <2> QED BY <1>4, <2>1 DEF GC
<1>6. \A f \in Flushers : Resumes(f)
  <2> SUFFICES ASSUME NEW f \in Flushers PROVE Resumes(f)
    OBVIOUS
  <2> DEFINE a == [flush[f] EXCEPT !.pc = "saved"]
             b == [NoFlush EXCEPT !.pc = "scan", !.at = flush[f].at]
  <2>1. /\ a.pc = "saved" /\ a.at = flush[f].at /\ a.row = flush[f].row
        /\ a.slot = flush[f].slot
    BY DEF IInv, TypeOK, Flush
  <2>2. b.pc = "scan" /\ b.at = flush[f].at /\ b.row = 0
    BY DEF NoFlush
  <2>3. CASE StoreExecutes
    <3>1. flush' = Resumed(Head(ipc))
      BY <2>3 DEF StoreExecutes
    <3>2. /\ f # Head(ipc).by => flush'[f] = flush[f]
          /\ f = Head(ipc).by /\ flush[f].pc = "saving" => flush'[f] = a
          /\ f = Head(ipc).by /\ flush[f].pc # "saving" => flush'[f] = b
      BY <3>1 DEF Resumed
    <3> HIDE DEF a, b
    <3> QED BY <1>1, <1>3, <2>1, <2>2, <3>2 DEF Resumes, SameRow
  <2>4. CASE StoreRejects
    <3>1. /\ flush' = [g \in Flushers |-> IF g = Head(ipc).by THEN NoFlush ELSE flush[g]]
          /\ faults < MaxFaults /\ faults \in Nat /\ MaxFaults \in Nat
      BY <2>4, OutboxAssumption DEF StoreRejects, IInv, TypeOK
    <3> QED BY <1>1, <1>3, <3>1 DEF Resumes
  <2> QED BY <2>3, <2>4
<1> QED BY <1>0, <1>1, <1>4, <1>5, <1>6 DEF Pops

LEMMA RestartKind == ASSUME IInv, Restart PROVE Restarts
<1>1. crashes \in 0..MaxCrashes /\ MaxCrashes \in Nat /\ 1 \in Slots
  BY OutboxAssumption DEF IInv, TypeOK
<1> QED BY <1>1 DEF Restart, Restarts, userVars, worldVars, wishVars

\* The inductive invariant of the outbox without a second hydrateLocal.
EngineInv == IInv /\ UndoInv /\ CarriedRows /\ RealObjects

LEMMA StepKinds == ASSUME ~Rehydrates, EngineInv, [Next]_vars PROVE StepKind
<1> USE DEF EngineInv
<1>1. ~HydrateStart /\ ~HydrateSets
  BY DEF HydrateStart, HydrateSets, UndoInv, OneObject
<1>2. ASSUME NEW r \in Rows, UserStep(r) \/ AvailableAt(r) PROVE StepKind
  <2>1. AvailableAt(r) => Waits
    BY DEF AvailableAt, Waits, memVars, worldVars, wishVars
  <2> QED BY <1>2, <2>1, UserKind DEF StepKind
<1>3. CASE UNCHANGED vars
  BY <1>3 DEF vars, Waits, StepKind
<1>4. CASE StoreExecutes \/ StoreRejects \/ Restart
  BY <1>4, StoreKind, RestartKind DEF StepKind
<1> QED BY <1>1, <1>2, <1>3, <1>4, FlushKind DEF Next

LEMMA EngineInit == Init => EngineInv
<1> SUFFICES ASSUME Init PROVE EngineInv
  OBVIOUS
<1>1. CarriedRows /\ RealObjects
  BY BoundsAreNat DEF Init, CarriedRows, RealObjects, Carrying, NoFlush
<1> QED BY <1>1, InitIInv, UndoInit DEF EngineInv

LEMMA EngineNext == ~Rehydrates /\ EngineInv /\ [Next]_vars => EngineInv'
<1> SUFFICES ASSUME ~Rehydrates, EngineInv, [Next]_vars PROVE EngineInv'
  OBVIOUS
<1> USE DEF EngineInv
<1>1. IInv' /\ UndoInv'
  BY NextKeepsIInv, UndoNext
<1>2. /\ NoFlush.pc = "idle" /\ flush \in [Flushers -> Flush]
      /\ \A f \in Flushers : flush[f].pc \in Carrying => flush[f].row \in Rows
  BY DEF NoFlush, IInv, TypeOK, FlushShape
<1>3. ASSUME NEW r \in Rows, NEW t, t # "none", Appends(r, t), flush' = flush
      PROVE  CarriedRows' /\ RealObjects'
  BY <1>2, <1>3 DEF CarriedRows, RealObjects, Appends, Status
<1>4. ASSUME NEW r \in Rows, Enters(r) \/ Retries(r) \/ \E t \in Statuses : Edits(r, t)
      PROVE  CarriedRows' /\ RealObjects'
  BY <1>3, <1>4 DEF Enters, Retries, Edits, Statuses
<1>5. ASSUME NEW f \in Flushers, NEW r \in Rows, Takes(f, r)
      PROVE  CarriedRows' /\ RealObjects'
  BY <1>2, <1>5 DEF CarriedRows, RealObjects, Takes, OthersKeep, Appends, Status, Carrying
<1>6. ASSUME NEW f \in Flushers, NEW t \in {"done", "failed"}, Finishes(f, t)
      PROVE  CarriedRows' /\ RealObjects'
  BY <1>2, <1>6 DEF CarriedRows, RealObjects, Finishes, OthersKeep, SameRow, Appends, Status,
     Carrying
<1>7. ASSUME NEW f \in Flushers, Moves(f) PROVE CarriedRows' /\ RealObjects'
  <2>1. flush[f].pc = "scan" /\ flush' = [flush EXCEPT ![f] = NoFlush] =>
           flush'[f].pc \notin Carrying
    BY <1>2 DEF Carrying
  <2> QED BY <1>2, <1>7, <2>1
      DEF Moves, CarriedRows, RealObjects, Status, SameRow, OthersKeep, Carrying
<1>8. CASE Waits
  BY <1>1, <1>8 DEF Waits, CarriedRows, RealObjects, Status, Carrying
<1>9. CASE Pops
  <2>1. CarriedRows'
    <3> SUFFICES ASSUME NEW f \in Flushers, flush'[f].pc \in Carrying
                 PROVE  flush'[f].slot = 1 /\ cur[flush'[f].row] = 1
      BY <1>9 DEF CarriedRows, Carrying, Pops
    <3>1. Resumes(f)
      BY <1>9 DEF Pops
    <3>2. flush[f].pc \in Carrying /\ flush'[f].row = flush[f].row /\ flush'[f].slot = flush[f].slot
      BY <1>2, <3>1 DEF Resumes, SameRow, Carrying
    <3> QED BY <3>2 DEF CarriedRows
  <2>2. RealObjects'
    BY <1>9 DEF Pops, RealObjects, Status
  <2> QED BY <1>1, <2>1, <2>2
<1>10. CASE Restarts
  <2>1. CarriedRows'
    BY <1>2, <1>10 DEF Restarts, CarriedRows, Carrying
  <2>2. RealObjects'
    BY <1>10 DEF Restarts, RealObjects, Status
  <2> QED BY <1>1, <2>1, <2>2
<1> QED BY <1>1, <1>4, <1>5, <1>6, <1>7, <1>8, <1>9, <1>10, StepKinds DEF StepKind

-----------------------------------------------------------------------------
(* A pending row that a flush is about to send was put back by the user.     *)

PendingRetried == \A r \in Rows, f \in Flushers :
                     AboutToSend(f, r) /\ Status(r) = "pending" => r \in retried

LEMMA PendingRetriedNext ==
    ASSUME ~Rehydrates, EngineInv, PendingRetried, [Next]_vars
    PROVE  PendingRetried'
<1>0. /\ NoFlush.pc = "idle" /\ flush \in [Flushers -> Flush]
      /\ \A r \in Rows, f \in Flushers : AboutToSend(f, r) => cur[r] = 1 /\ born[r] # 0
  <2>1. \A r \in Rows, f \in Flushers : AboutToSend(f, r) => cur[r] = 1
    BY DEF EngineInv, CarriedRows, AboutToSend, Carrying
  <2> QED BY <2>1 DEF NoFlush, EngineInv, IInv, TypeOK, UndoInv, UnusedRows
<1>1. ASSUME NEW r \in Rows, NEW t, Appends(r, t), flush' = flush,
             \A q \in Rows : q # r => (q \in retried' <=> q \in retried),
             \/ t # "pending" \/ r \in retried' \/ born[r] = 0
             \/ t = Status(r) /\ (r \in retried => r \in retried')
      PROVE  PendingRetried'
  <2> SUFFICES ASSUME NEW q \in Rows, NEW f \in Flushers, AboutToSend(f, q)',
                      Status(q)' = "pending"
               PROVE  q \in retried'
    BY DEF PendingRetried
  <2>1. AboutToSend(f, q)
    BY <1>1 DEF AboutToSend
  <2> QED BY <1>0, <1>1, <2>1 DEF PendingRetried, Appends, Status
<1>2. ASSUME NEW r \in Rows, Enters(r) \/ Retries(r) \/ \E t \in Statuses : Edits(r, t)
      PROVE  PendingRetried'
  <2>1. CASE Enters(r)
    BY <1>1, <2>1 DEF Enters
  <2>2. CASE Retries(r)
    BY <1>1, <2>2 DEF Retries
  <2>3. ASSUME NEW t \in Statuses, Edits(r, t) PROVE PendingRetried'
    BY <1>1, <2>3 DEF Edits
  <2> QED BY <1>2, <2>1, <2>2, <2>3
<1>3. ASSUME NEW f \in Flushers, NEW r \in Rows, Takes(f, r) PROVE PendingRetried'
  <2>1. Status(r)' = "inflight" /\ \A q \in Rows : q # r => Status(q)' = Status(q)
    BY <1>3 DEF Takes, Appends, Status
  <2>2. \A q \in Rows, g \in Flushers : q # r => (AboutToSend(g, q)' => AboutToSend(g, q))
    BY <1>3 DEF Takes, OthersKeep, AboutToSend
  <2>3. retried' = retried
    BY <1>3 DEF Takes
  <2> QED BY <2>1, <2>2, <2>3 DEF PendingRetried
<1>4. ASSUME NEW f \in Flushers, NEW t \in {"done", "failed"}, Finishes(f, t)
      PROVE  PendingRetried'
  <2>0. PICK r : r = flush[f].row
    OBVIOUS
  <2>1. Status(r)' = t /\ \A q \in Rows : q # r => Status(q)' = Status(q)
    BY <1>4, <2>0 DEF Finishes, Appends, Status
  <2>2. \A q \in Rows, g \in Flushers : AboutToSend(g, q)' => AboutToSend(g, q)
    BY <1>4 DEF Finishes, OthersKeep, AboutToSend
  <2>3. retried' = retried \/ retried' = retried \ {r}
    BY <1>4, <2>0 DEF Finishes
  <2> QED BY <2>1, <2>2, <2>3 DEF PendingRetried
<1>5. ASSUME NEW f \in Flushers, Moves(f) PROVE PendingRetried'
  <2>1. \A q \in Rows, g \in Flushers : AboutToSend(g, q)' => AboutToSend(g, q)
    BY <1>0, <1>5 DEF Moves, SameRow, OthersKeep, AboutToSend
  <2> QED BY <1>5, <2>1 DEF Moves, PendingRetried, Status
<1>6. CASE Waits
  BY <1>6 DEF Waits, PendingRetried, AboutToSend, Status
<1>7. CASE Pops
  <2>1. \A q \in Rows, g \in Flushers : AboutToSend(g, q)' => AboutToSend(g, q)
    BY <1>0, <1>7 DEF Pops, Resumes, SameRow, AboutToSend
  <2> QED BY <1>0, <1>7, <2>1 DEF Pops, PendingRetried, Status
<1>8. CASE Restarts
  BY <1>0, <1>8 DEF Restarts, PendingRetried, AboutToSend
<1> QED BY <1>2, <1>3, <1>4, <1>5, <1>6, <1>7, <1>8, StepKinds DEF StepKind

\* UndoneNeverSent (cancelOutbox, retryOutbox, flushOutbox): for any number of rows,
\* flushes, rejected commands and restarts, if hydrateLocal is not called again while the
\* engine is in use: a confirmed cancellation of a row that had no effect and that no
\* flush was about to send is final, and the only rows that can be cancelled while a
\* flush is about to send them are the ones the user has retried.
THEOREM UndoIsFinal == ASSUME ~Rehydrates PROVE Spec => []UndoneNeverSent
<1>1. EngineInv /\ PendingRetried => UndoneNeverSent
  <2> SUFFICES ASSUME EngineInv, PendingRetried PROVE UndoneNeverSent
    OBVIOUS
  <2>1. \A r \in undone : sent[r] = 0
    BY DEF EngineInv, IInv, TypeOK, UndoInv, UndoneHeld
  <2>2. ASSUME NEW r \in Rows, NEW f \in Flushers, AboutToSend(f, r), InMap(r),
               Live(r).status = "pending"
        PROVE  r \in retried
    <3>1. cur[r] = 1
      BY <2>2 DEF EngineInv, UndoInv, OneObject, InMap
    <3> QED BY <2>2, <3>1 DEF PendingRetried, Status, Live
  <2> QED BY <2>1, <2>2 DEF UndoneNeverSent
<1>2. Init => EngineInv /\ PendingRetried
  BY EngineInit DEF Init, PendingRetried, AboutToSend, NoFlush
<1>3. EngineInv /\ PendingRetried /\ [Next]_vars => (EngineInv /\ PendingRetried)'
  BY EngineNext, PendingRetriedNext
<1> QED BY <1>1, <1>2, <1>3, PTL DEF Spec

-----------------------------------------------------------------------------
(* A failed row waits for the user.                                          *)

FailedBefore(r) ==
    \/ disk[r].status = "failed"
    \/ \E i \in 1..Len(ipc) : ipc[i].row = r /\ ipc[i].obj.status = "failed"

\* A row that failed and is open again was put back by the user.
FailedKept ==
    \A r \in Rows : /\ cur[r] = 1 /\ Status(r) \in {"pending", "inflight"}
                    /\ FailedBefore(r)
                    => r \in retried

LEMMA FailedNext ==
    ASSUME ~Rehydrates, EngineInv, FailedKept, [Next]_vars
    PROVE  FailedKept'
<1> USE DEF EngineInv
<1>0. Len(ipc) \in Nat
  BY LenProperties DEF IInv, TypeOK
<1>1. ASSUME NEW r \in Rows, NEW t, Appends(r, t)
      PROVE  /\ \A q \in Rows : FailedBefore(q)' =>
                   FailedBefore(q) \/ (q = r /\ t = "failed")
             /\ \A q \in Rows : q # r => cur'[q] = cur[q] /\ Status(q)' = Status(q)
             /\ cur'[r] = 1 /\ Status(r)' = t
  <2>1. \A i \in 1..Len(ipc') : i \in 1..Len(ipc) \/ i = Len(ipc) + 1
    BY <1>0, <1>1 DEF Appends
  <2> QED BY <1>1, <2>1 DEF Appends, FailedBefore, Status
<1>2. ASSUME NEW r \in Rows, Enters(r) PROVE FailedKept'
  <2>1. ~FailedBefore(r)
    BY <1>2 DEF Enters, UndoInv, UnusedRows, FailedBefore
  <2> QED BY <1>1, <1>2, <2>1 DEF Enters, FailedKept
<1>3. ASSUME NEW r \in Rows, NEW t \in Statuses, Edits(r, t) PROVE FailedKept'
  BY <1>1, <1>3 DEF Edits, FailedKept
<1>4. ASSUME NEW r \in Rows, Retries(r) PROVE FailedKept'
  BY <1>1, <1>4 DEF Retries, FailedKept
<1>5. ASSUME NEW f \in Flushers, NEW r \in Rows, Takes(f, r) PROVE FailedKept'
  BY <1>1, <1>5 DEF Takes, FailedKept
<1>6. ASSUME NEW f \in Flushers, NEW t \in {"done", "failed"}, Finishes(f, t)
      PROVE  FailedKept'
  <2>1. flush[f].row \in Rows
    BY <1>6 DEF Finishes, IInv, FlushShape, Carrying
  <2> QED BY <1>1, <1>6, <2>1 DEF Finishes, FailedKept
<1>7. ASSUME NEW f \in Flushers, Moves(f) PROVE FailedKept'
  BY <1>7 DEF Moves, FailedKept, FailedBefore, Status
<1>8. CASE Waits
  BY <1>8 DEF Waits, FailedKept, FailedBefore, Status
<1>9. CASE Pops
  <2>1. \A i \in 1..Len(ipc') : i + 1 \in 1..Len(ipc) /\ 1 \in 1..Len(ipc)
    BY <1>0, <1>9 DEF Pops
  <2>2. disk \in [Rows -> Obj] /\ 1 \in 1..Len(ipc)
    BY <1>0, <1>9 DEF Pops, IInv, TypeOK
  <2>3. \A r \in Rows : FailedBefore(r)' => FailedBefore(r)
    BY <1>9, <2>1, <2>2 DEF Pops, FailedBefore
  <2> QED BY <1>9, <2>3 DEF Pops, FailedKept, Status
<1>10. CASE Restarts
  BY <1>0, <1>10 DEF Restarts, FailedKept, FailedBefore, Status
<1> QED BY <1>2, <1>3, <1>4, <1>5, <1>6, <1>7, <1>8, <1>9, <1>10, StepKinds DEF StepKind

\* FailedWaitsForUser (flushOutbox, retryOutbox): no flush takes a row that is stored as
\* failed unless the user asked for it, for any number of overlapping flushes, restarts
\* and rejected commands, if hydrateLocal is not called again while the engine is in use.
THEOREM FailedWaits == ASSUME ~Rehydrates PROVE Spec => FailedWaitsForUser
<1>1. Init => EngineInv /\ FailedKept
  <2>1. Init => FailedKept
    BY DEF Init, FailedKept
  <2> QED BY <2>1, EngineInit
<1>2. EngineInv /\ FailedKept /\ [Next]_vars => (EngineInv /\ FailedKept)'
  BY EngineNext, FailedNext
<1>3. EngineInv /\ FailedKept /\ [Next]_vars =>
        [\A f \in Flushers : \A r \in Rows :
            TakeRow(f, r) /\ disk[r].status = "failed" => r \in retried]_vars
  <2> SUFFICES ASSUME EngineInv, FailedKept, NEW f \in Flushers, NEW r \in Rows,
                      TakeRow(f, r), disk[r].status = "failed"
               PROVE  r \in retried
    OBVIOUS
  <2>1. InMap(r) /\ Live(r).status \notin Settled
    BY DEF TakeRow, FirstOf, Ahead, Eligible
  <2>2. cur[r] = 1 /\ Status(r) \in {"pending", "inflight"}
    BY <2>1, LiveIsFirst, LiveObject
       DEF EngineInv, IInv, Obj, Settled, Statuses, RealObjects
  <2> QED BY <2>2 DEF FailedKept, FailedBefore
<1> QED BY <1>1, <1>2, <1>3, PTL DEF Spec, FailedWaitsForUser

-----------------------------------------------------------------------------
(* Mutations take effect in the order in which the user made them.           *)

\* Positions are handed out in order.
RowRanks ==
    /\ tick > N /\ Rows \ HeldRows \subseteq due
    /\ \A r \in Rows : born[r] < tick
    /\ \A r \in Rows : rank[r] > N => rank[r] = born[r] /\ cur[r] = 1
    /\ \A q, r \in Rows : rank[q] > N /\ rank[q] = rank[r] => q = r

\* A flush stands at the row it carries.
Standing(f) ==
    /\ flush[f].pc = "idle" => flush[f].at = 0
    /\ flush[f].at < tick
    /\ flush[f].pc \in Carrying => flush[f].at = rank[flush[f].row]

Ranks == RowRanks /\ \A f \in Flushers : Standing(f)

\* A row enqueued since the start that is not held back.
Prompt(q) == q \notin HeldRows /\ rank[q] > N

\* The row is settled, or was put back in the queue by the user.
Over(q) == Status(q) \in Settled \/ q \in retried

Behind(q, f) == \/ rank[q] < flush[f].at
                \/ rank[q] = flush[f].at /\ flush[f].pc \in {"scan", "settling"}

\* What a flush leaves behind is over.
Passed == \A f \in Flushers, q \in Rows : Prompt(q) /\ Behind(q, f) => Over(q)

LEMMA RankTypes ==
    ASSUME EngineInv
    PROVE  /\ N \in Nat /\ tick \in Nat /\ born \in [Rows -> Nat] /\ rank \in [Rows -> Nat]
           /\ \A f \in Flushers : flush[f].at \in Nat
           /\ \A f \in Flushers : flush[f].pc \in Carrying => flush[f].row \in Rows
           /\ sent \in [Rows -> 0..2] /\ NoFlush.pc = "idle" /\ NoFlush.at = 0
           /\ \A r \in Rows : r \in Nat /\ r <= N
<1>1. TypeOK /\ FlushShape
  BY DEF EngineInv, IInv
<1>2. /\ N \in Nat /\ tick \in Nat /\ born \in [Rows -> Nat] /\ rank \in [Rows -> Nat]
      /\ sent \in [Rows -> 0..2] /\ flush \in [Flushers -> Flush]
  BY <1>1, OutboxAssumption DEF TypeOK
<1>3. \A r \in Rows : r \in Nat /\ r <= N
  BY <1>2 DEF Rows
<1>4. \A f \in Flushers : flush[f].at \in Nat
  BY <1>2 DEF Flush
<1>5. \A f \in Flushers : flush[f].pc \in Carrying => flush[f].row \in Rows
  BY <1>1 DEF FlushShape, Carrying
<1> QED BY <1>2, <1>3, <1>4, <1>5 DEF NoFlush

LEMMA RanksNext == ASSUME ~Rehydrates, EngineInv, Ranks, [Next]_vars PROVE Ranks'
<1> USE RankTypes DEF Ranks, Carrying
<1>1. ASSUME NEW r \in Rows, NEW t, Appends(r, t), UNCHANGED <<born, rank, tick, due>>
      PROVE  RowRanks'
  BY <1>1 DEF Appends, RowRanks
<1>2. ASSUME NEW f \in Flushers, UNCHANGED <<rank, tick>>, Standing(f),
             \/ flush'[f] = flush[f] \/ flush'[f] = NoFlush
             \/ flush'[f].pc = "scan" /\ flush'[f].at = flush[f].at
             \/ /\ flush[f].pc \in Carrying /\ flush'[f].pc \in Carrying
                /\ SameRow(f)
      PROVE  Standing(f)'
  BY <1>2 DEF Standing, SameRow, RowRanks
<1>3. ASSUME NEW r \in Rows, Enters(r) PROVE Ranks'
  <2>1. \A f \in Flushers : flush[f].pc \in Carrying => flush[f].row # r
    <3>1. born[r] = 0 /\ UnusedRows /\ CarriedRows
      BY <1>3 DEF Enters, EngineInv, UndoInv
    <3>2. cur[r] = 0
      BY <3>1 DEF UnusedRows
    <3> QED BY <3>1, <3>2 DEF CarriedRows
  <2>2. \A q \in Rows : rank[q] < tick
    BY DEF RowRanks
  <2>3. /\ born'[r] = tick /\ rank'[r] = tick /\ cur'[r] = 1 /\ tick' = tick + 1
        /\ \A q \in Rows : q # r => born'[q] = born[q] /\ rank'[q] = rank[q] /\ cur'[q] = cur[q]
        /\ UNCHANGED <<flush, due>>
    BY <1>3 DEF Enters, Appends
  <2>4. RowRanks'
    BY <2>2, <2>3 DEF RowRanks
  <2>5. \A f \in Flushers : Standing(f)'
    BY <2>1, <2>3 DEF Standing
  <2> QED BY <2>4, <2>5
<1>4. ASSUME NEW r \in Rows, Retries(r) \/ \E t \in Statuses : Edits(r, t) PROVE Ranks'
  BY <1>1, <1>2, <1>4 DEF Retries, Edits
<1>5. ASSUME NEW f \in Flushers, NEW r \in Rows, Takes(f, r) PROVE Ranks'
  <2>1. rank[r] < tick
    BY DEF RowRanks
  <2>2. Standing(f)'
    BY <1>5, <2>1 DEF Takes, Standing
  <2> QED BY <1>1, <1>2, <1>5, <2>2 DEF Takes, OthersKeep
<1>6. ASSUME NEW f \in Flushers, NEW t \in {"done", "failed"}, Finishes(f, t) PROVE Ranks'
  <2>1. \A g \in Flushers : Standing(g)'
    BY <1>2, <1>6 DEF Finishes, OthersKeep
  <2> QED BY <1>1, <1>6, <2>1 DEF Finishes
<1>7. ASSUME NEW f \in Flushers, Moves(f) PROVE Ranks'
  <2>1. \A g \in Flushers : Standing(g)'
    <3>1. flush' = [flush EXCEPT ![f] = NoFlush] => flush'[f] = NoFlush
      BY DEF EngineInv, IInv, TypeOK
    <3> QED BY <1>2, <1>7, <3>1 DEF Moves, OthersKeep
  <2>2. RowRanks'
    BY <1>7 DEF Moves, RowRanks
  <2> QED BY <2>1, <2>2
<1>8. CASE Waits
  <2>1. RowRanks'
    BY <1>8 DEF Waits, RowRanks
  <2> QED BY <1>2, <1>8, <2>1 DEF Waits
<1>9. CASE Pops
  <2>1. \A g \in Flushers : Standing(g)'
    BY <1>2, <1>9 DEF Pops, Resumes
  <2>2. RowRanks'
    BY <1>9 DEF Pops, RowRanks
  <2> QED BY <2>1, <2>2
<1>10. CASE Restarts
  <2>1. RowRanks'
    BY <1>10 DEF Restarts, RowRanks
  <2>2. \A g \in Flushers : Standing(g)'
    BY <1>10 DEF Restarts, RowRanks, Standing
  <2> QED BY <2>1, <2>2
<1> QED BY <1>3, <1>4, <1>5, <1>6, <1>7, <1>8, <1>9, <1>10, StepKinds DEF StepKind

\* A row stays over, and no row enters behind a flush.
LEMMA PassedNext == ASSUME ~Rehydrates, EngineInv, Ranks, Passed, [Next]_vars PROVE Passed'
<1> USE RankTypes
<1>1. ASSUME NEW q \in Rows, cur[q] = 1, Over(q), ~Restarts PROVE Over(q)'
  <2>1. ASSUME NEW r \in Rows, Enters(r) \/ Retries(r) \/ \E t \in Statuses : Edits(r, t)
        PROVE  Over(q)'
    BY <1>1, <2>1 DEF Enters, Retries, Edits, Appends, Over, Status, Settled, EngineInv,
       UndoInv, UnusedRows
  <2>2. ASSUME NEW f \in Flushers, NEW r \in Rows, Takes(f, r) PROVE Over(q)'
    BY <1>1, <2>2 DEF Takes, Appends, Over, Status, Settled
  <2>3. ASSUME NEW f \in Flushers, NEW t \in {"done", "failed"}, Finishes(f, t)
        PROVE  Over(q)'
    BY <1>1, <2>3 DEF Finishes, Appends, Over, Status, Settled
  <2>4. ASSUME NEW f \in Flushers, Moves(f) PROVE Over(q)'
    BY <1>1, <2>4 DEF Moves, Over, Status, Settled
  <2>5. CASE Waits \/ Pops
    BY <1>1, <2>5 DEF Waits, Pops, Over, Status, Settled
  <2> QED BY <1>1, <2>1, <2>2, <2>3, <2>4, <2>5, StepKinds DEF StepKind
<1>2. ASSUME NEW f \in Flushers, NEW q \in Rows, Prompt(q)', Behind(q, f)', ~Restarts
      PROVE  Prompt(q) /\ cur[q] = 1 /\ (Behind(q, f) \/ Over(q) \/ Over(q)')
  <2>1. ASSUME NEW r \in Rows, Enters(r)
        PROVE  Prompt(q) /\ cur[q] = 1 /\ Behind(q, f)
    <3>1. q # r
      BY <1>2, <2>1 DEF Enters, Behind, Ranks, RowRanks, Standing
    <3> QED BY <1>2, <2>1, <3>1 DEF Enters, Behind, Ranks, RowRanks, Standing, Prompt
  <2>2. CASE UNCHANGED <<rank, flush>>
    BY <1>2, <2>2 DEF Behind, Ranks, RowRanks, Standing, Prompt
  <2>3. ASSUME NEW g \in Flushers, NEW r \in Rows, Takes(g, r)
        PROVE  Prompt(q) /\ cur[q] = 1 /\ (Behind(q, f) \/ Over(q))
    <3>1. Prompt(q) /\ cur[q] = 1 /\ q \in due
      BY <1>2, <2>3 DEF Takes, Prompt, Ranks, RowRanks, Standing
    <3>2. CASE f # g
      BY <1>2, <2>3, <3>1, <3>2 DEF Takes, OthersKeep, Behind
    <3>3. CASE f = g /\ rank[q] > flush[f].at
      <4>1. rank[q] < rank[r]
        BY <1>2, <2>3, <3>3 DEF Takes, Behind
      <4>2. ~Eligible(q)
        BY <2>3, <3>3, <4>1 DEF Takes, FirstOf, Ahead
      <4> QED BY <3>1, <4>2, LiveIsFirst
          DEF Eligible, InMap, Over, EngineInv
    <3>4. CASE f = g /\ ~(rank[q] > flush[f].at)
      BY <2>3, <3>1, <3>4 DEF Takes, Behind, Ranks, RowRanks, Standing, Prompt
    <3> QED BY <3>1, <3>2, <3>3, <3>4
  <2>4. ASSUME NEW g \in Flushers, NEW t \in {"done", "failed"}, Finishes(g, t)
        PROVE  Prompt(q) /\ cur[q] = 1 /\ (Behind(q, f) \/ Over(q)')
    <3>1. Prompt(q) /\ cur[q] = 1 /\ rank'[q] = rank[q]
      BY <1>2, <2>4 DEF Finishes, Prompt, Ranks, RowRanks, Standing
    <3>2. CASE f # g \/ rank[q] < flush[f].at
      BY <1>2, <2>4, <3>1, <3>2 DEF Finishes, OthersKeep, Behind
    <3>3. CASE f = g /\ ~(rank[q] < flush[f].at)
      <4>1. flush[f].row \in Rows /\ rank[q] = rank[flush[f].row]
        BY <1>2, <2>4, <3>1, <3>3 DEF Finishes, SameRow, Behind, Ranks, RowRanks, Standing, Carrying
      <4>2. q = flush[f].row
        BY <3>1, <4>1 DEF Ranks, RowRanks, RowRanks, Prompt
      <4> QED BY <2>4, <3>1, <3>3, <4>2 DEF Finishes, Appends, Over, Status, Settled
    <3> QED BY <3>1, <3>2, <3>3
  <2>5. ASSUME NEW g \in Flushers, Moves(g)
        PROVE  Prompt(q) /\ cur[q] = 1 /\ Behind(q, f)
    <3>1. Prompt(q) /\ cur[q] = 1 /\ rank'[q] = rank[q]
      BY <1>2, <2>5 DEF Moves, Prompt, Ranks, RowRanks
    <3>2. flush' = [flush EXCEPT ![g] = NoFlush] => flush'[g] = NoFlush
      BY DEF EngineInv, IInv, TypeOK
    <3>3. flush'[f] # NoFlush
      BY <1>2, <3>1 DEF Behind, Prompt
    <3> QED BY <1>2, <2>5, <3>1, <3>2, <3>3 DEF Moves, OthersKeep, SameRow, Behind
  <2>6. CASE Pops
    BY <1>2, <2>6 DEF Pops, Resumes, SameRow, Behind, Ranks, RowRanks, Standing, Prompt
  <2> QED BY <1>2, <2>1, <2>2, <2>3, <2>4, <2>5, <2>6, StepKinds
      DEF StepKind, Retries, Edits, Waits
<1>3. CASE Restarts
  BY <1>3 DEF Restarts, Passed, Behind, Prompt
<1> QED BY <1>1, <1>2, <1>3 DEF Passed

LEMMA RanksInit == Init => Ranks /\ Passed
<1> SUFFICES ASSUME Init PROVE Ranks /\ Passed
  OBVIOUS
<1>1. EngineInv
  BY EngineInit
<1>2. RowRanks
  BY <1>1, RankTypes DEF Init, RowRanks
<1>3. \A f \in Flushers : Standing(f)
  BY <1>1, RankTypes DEF Init, Standing, Carrying
<1>4. Passed
  BY <1>1, RankTypes DEF Init, Passed, Prompt
<1> QED BY <1>2, <1>3, <1>4 DEF Ranks

\* MutationsInOrder (flushOutbox): mutations enqueued since the start take effect in that
\* order, for any number of rows, overlapping flushes, restarts and rejected commands, if
\* hydrateLocal is not called again while the engine is in use.
THEOREM InOrder == ASSUME ~Rehydrates PROVE Spec => MutationsInOrder
<1>1. Init => EngineInv /\ Ranks /\ Passed
  BY EngineInit, RanksInit
<1>2. EngineInv /\ Ranks /\ Passed /\ [Next]_vars => (EngineInv /\ Ranks /\ Passed)'
  BY EngineNext, RanksNext, PassedNext
<1>3. EngineInv /\ Ranks /\ Passed /\ [Next]_vars =>
        [\A q, r \in Rows :
            /\ Plain(q) /\ Plain(r) /\ born[q] < born[r]
            /\ sent[r] = 0 /\ sent'[r] > 0
            => \/ sent[q] > 0
               \/ Live(q).status \in Settled
               \/ q \in retried]_vars
  <2> SUFFICES ASSUME EngineInv, Ranks, Passed, [Next]_vars, NEW q \in Rows, NEW r \in Rows,
                      Plain(q), Plain(r), born[q] < born[r], sent[r] = 0, sent'[r] > 0
               PROVE  sent[q] > 0 \/ Live(q).status \in Settled \/ q \in retried
    OBVIOUS
  <2>1. PICK f \in Flushers : Moves(f) /\ sent'[r] # sent[r]
    BY StepKinds DEF StepKind, Enters, Retries, Edits, Takes, Finishes, Waits, Pops, Restarts
  <2>2. flush[f].pc = "calling" /\ flush[f].row = r
    BY <2>1 DEF Moves
  <2>3. rank[q] < flush[f].at /\ cur[q] = 1
    BY <2>2 DEF Ranks, RowRanks, Standing, Carrying, Plain
  <2>4. Over(q)
    BY <2>3 DEF Passed, Behind, Plain, Prompt
  <2> QED BY <2>3, <2>4 DEF Over, Live, Status
<1> QED BY <1>1, <1>2, <1>3, PTL DEF Spec, MutationsInOrder

-----------------------------------------------------------------------------
(* One flush at a time, and no stop in between: a message goes out once.     *)

\* A message that went out is settled or about to be, and no flush is on its
\* way to send it, unless the user retried it.
SentOnce ==
    \A r \in Rows : Kind[r] = "send" /\ sent[r] > 0 =>
        /\ cur[r] = 1
        /\ \/ r \in retried
           \/ /\ \/ Status(r) \in Settled
                 \/ \E f \in Flushers : flush[f].row = r /\ flush[f].pc = "applied"
              /\ \A f \in Flushers :
                    flush[f].row = r => flush[f].pc \notin {"saving", "saved", "calling"}

LEMMA SentOnceNext ==
    ASSUME ~Rehydrates, MaxCrashes = 0, \A f, g \in Flushers : f = g,
           EngineInv, SentOnce, [Next]_vars
    PROVE  SentOnce'
<1>0. /\ \A f \in Flushers : flush[f].pc \in Carrying =>
            flush[f].row \in Rows /\ cur[flush[f].row] = 1
      /\ NoFlush.row = 0 /\ 0 \notin Rows /\ sent \in [Rows -> 0..2]
      /\ flush \in [Flushers -> Flush]
  BY OutboxAssumption DEF EngineInv, IInv, TypeOK, FlushShape, CarriedRows, NoFlush, Rows
<1>1. ASSUME NEW r \in Rows, Enters(r) PROVE SentOnce'
  <2>1. cur[r] = 0
    BY <1>1 DEF Enters, EngineInv, UndoInv, UnusedRows
  <2> QED BY <1>1, <2>1 DEF Enters, Appends, SentOnce, Status
<1>2. ASSUME NEW r \in Rows, Retries(r) \/ \E t \in Statuses : Edits(r, t)
      PROVE  SentOnce'
  BY <1>2 DEF Retries, Edits, Appends, SentOnce, Status, Settled
<1>3. ASSUME NEW f \in Flushers, NEW r \in Rows, Takes(f, r) PROVE SentOnce'
  BY <1>3 DEF Takes, Appends, SentOnce, Status, Settled
<1>4. ASSUME NEW f \in Flushers, NEW t \in {"done", "failed"}, Finishes(f, t)
      PROVE  SentOnce'
  BY <1>0, <1>4 DEF Finishes, SameRow, Appends, SentOnce, Status, Settled, Carrying
<1>5. ASSUME NEW f \in Flushers, Moves(f) PROVE SentOnce'
  <2>1. flush' = [flush EXCEPT ![f] = NoFlush] => flush'[f].row = 0
    BY <1>0
  <2> QED BY <1>0, <1>5, <2>1 DEF Moves, SameRow, SentOnce, Status, Carrying
<1>6. CASE Waits
  BY <1>6 DEF Waits, SentOnce, Status
<1>7. CASE Pops
  BY <1>0, <1>7 DEF Pops, Resumes, SameRow, SentOnce, Status
<1>8. ~Restarts
  BY DEF Restarts
<1> QED BY <1>1, <1>2, <1>3, <1>4, <1>5, <1>6, <1>7, <1>8, StepKinds DEF StepKind

\* NoDuplicateSend (flushOutbox, applyMutation): as long as calls of flushOutbox do not
\* overlap, hydrateLocal is not called again and the application does not stop, a message
\* goes out a second time only if the user retried it, for any number of rows and rejected
\* commands.  Without the first hypothesis it is false (OutboxDuplicate).
THEOREM SentNotTwice ==
    ASSUME ~Rehydrates, MaxCrashes = 0, \A f, g \in Flushers : f = g
    PROVE  Spec => NoDuplicateSend
<1>1. Init => EngineInv /\ SentOnce
  <2>1. Init => SentOnce
    BY DEF Init, SentOnce
  <2> QED BY <2>1, EngineInit
<1>2. EngineInv /\ SentOnce /\ [Next]_vars => (EngineInv /\ SentOnce)'
  BY EngineNext, SentOnceNext
<1>3. EngineInv /\ SentOnce /\ [Next]_vars =>
        [\A r \in Rows : /\ Kind[r] = "send"
                         /\ sent[r] = 1 /\ sent'[r] = 2
                         => r \in retried]_vars
  <2> SUFFICES ASSUME EngineInv, SentOnce, [Next]_vars, NEW r \in Rows, Kind[r] = "send",
                      sent[r] = 1, sent'[r] = 2
               PROVE  r \in retried
    OBVIOUS
  <2>1. PICK f \in Flushers : Moves(f) /\ sent'[r] # sent[r]
    BY StepKinds DEF StepKind, Enters, Retries, Edits, Takes, Finishes, Waits, Pops, Restarts
  <2>2. flush[f].pc = "calling" /\ flush[f].row = r
    BY <2>1 DEF Moves
  <2> QED BY <2>2 DEF SentOnce
<1> QED BY <1>1, <1>2, <1>3, PTL DEF Spec, NoDuplicateSend

-----------------------------------------------------------------------------
(* Without rejected commands the outbox implements its contract.             *)

\* The changes of a record that OutboxContract allows, apart from the effect
\* that "done" asks for: a command of a flush takes or settles the row, any other
\* queues it or calls it off.
Allowed(s, c) ==
    IF c.by \in Flushers
    THEN \/ c.obj.status = "inflight" /\ s \in {"pending", "inflight"}
         \/ c.obj.status \in {"done", "failed"} /\ s # "none"
    ELSE \/ c.obj.status \in {"pending", "cancelled"} /\ s \in {"none", "pending", "failed"}
         \/ c.obj.status = "failed" /\ s = "failed"

First(i) == \A j \in 1..Len(ipc) : j < i => ipc[j].row # ipc[i].row
Last(i) == \A j \in 1..Len(ipc) : i < j => ipc[j].row # ipc[i].row
Follows(i, k) == /\ i < k /\ ipc[i].row = ipc[k].row
               /\ \A j \in 1..Len(ipc) : i < j /\ j < k => ipc[j].row # ipc[i].row

\* From the record of a row through the commands on their way to the object of the Map,
\* each is an allowed change of the one before.
TrailStarts ==
    \A i \in 1..Len(ipc) : First(i) => Allowed(disk[ipc[i].row].status, ipc[i])
TrailGoesOn ==
    \A i, k \in 1..Len(ipc) : Follows(i, k) => Allowed(ipc[i].obj.status, ipc[k])
TrailInMap == \A i \in 1..Len(ipc) : cur[ipc[i].row] = 1
TrailEnds == \A i \in 1..Len(ipc) : Last(i) => ipc[i].obj.status = heap[ipc[i].row][1].status
TrailOfNone ==
    \A r \in Rows : cur[r] = 1 /\ (\A i \in 1..Len(ipc) : ipc[i].row # r) =>
                       disk[r].status = heap[r][1].status

Trail == TrailStarts /\ TrailGoesOn /\ TrailInMap /\ TrailEnds /\ TrailOfNone

\* A command that is an allowed change of the object of the Map prolongs the trail.
LEMMA TrailGrows ==
    ASSUME EngineInv, Trail, NEW r \in Rows, NEW t, Appends(r, t),
           \/ cur[r] = 1 /\ Allowed(Status(r), ipc'[Len(ipc) + 1])
           \/ born[r] = 0 /\ t = "pending" /\ ~Awaited
    PROVE  Trail'
<1>1. Len(ipc) \in Nat /\ \A i \in 1..Len(ipc) : ipc[i].row \in Rows
  BY LenProperties DEF EngineInv, IInv, TypeOK, IpcShape, UndoInv, OneObject
<1>2. /\ Len(ipc') = Len(ipc) + 1 /\ Len(ipc') \in 1..Len(ipc')
      /\ \A i \in 1..Len(ipc) : ipc'[i] = ipc[i] /\ i \in 1..Len(ipc') /\ i < Len(ipc')
      /\ \A i \in 1..Len(ipc') : i \in 1..Len(ipc) \/ i = Len(ipc')
      /\ ipc'[Len(ipc')].row = r /\ ipc'[Len(ipc')].obj.status = t
      /\ ipc'[Len(ipc')] = ipc'[Len(ipc) + 1]
  BY <1>1 DEF Appends
<1>3. /\ cur'[r] = 1 /\ Status(r)' = t /\ disk' = disk
      /\ \A q \in Rows : q # r => cur'[q] = cur[q] /\ Status(q)' = Status(q)
  BY DEF Appends, Status
<1>4. ASSUME NEW i \in 1..Len(ipc'), First(i)'
      PROVE  Allowed(disk'[ipc'[i].row].status, ipc'[i])
  <2>1. CASE i \in 1..Len(ipc)
    <3>1. First(i)
      BY <1>2, <1>4, <2>1 DEF First
    <3> QED BY <1>2, <1>3, <2>1, <3>1 DEF Trail, TrailStarts
  <2>2. CASE i = Len(ipc')
    <3>1. \A j \in 1..Len(ipc) : ipc[j].row # r
      BY <1>2, <1>4, <2>2 DEF First
    <3>2. CASE cur[r] = 1 /\ Allowed(Status(r), ipc'[Len(ipc) + 1])
      BY <1>2, <1>3, <2>2, <3>1, <3>2 DEF Trail, TrailOfNone, Status
    <3>3. CASE born[r] = 0 /\ t = "pending" /\ ~Awaited
      <4>1. disk[r].status = "none"
        BY <3>3 DEF EngineInv, UndoInv, UnusedRows
      <4> QED BY <1>2, <1>3, <2>2, <3>3, <4>1 DEF Allowed, Awaited
    <3> QED BY <3>2, <3>3
  <2> QED BY <1>2, <2>1, <2>2
<1>5. ASSUME NEW i \in 1..Len(ipc'), NEW k \in 1..Len(ipc'), Follows(i, k)'
      PROVE  Allowed(ipc'[i].obj.status, ipc'[k])
  <2>1. i \in 1..Len(ipc)
    BY <1>1, <1>2, <1>5 DEF Follows
  <2>2. CASE k \in 1..Len(ipc)
    <3>1. Follows(i, k)
      BY <1>2, <1>5, <2>1, <2>2 DEF Follows
    <3> QED BY <1>2, <2>1, <2>2, <3>1 DEF Trail, TrailGoesOn
  <2>3. CASE k = Len(ipc')
    <3>1. Last(i) /\ ipc[i].row = r
      BY <1>2, <1>5, <2>1, <2>3 DEF Follows, Last
    <3>2. ipc[i].obj.status = Status(r) /\ cur[r] = 1
      BY <2>1, <3>1 DEF Trail, TrailInMap, TrailEnds, Status
    <3>3. born[r] # 0
      BY <3>2 DEF EngineInv, UndoInv, UnusedRows
    <3> QED BY <1>2, <2>1, <2>3, <3>2, <3>3
  <2> QED BY <1>2, <2>2, <2>3
<1>6. ASSUME NEW i \in 1..Len(ipc') PROVE cur'[ipc'[i].row] = 1
  BY <1>1, <1>2, <1>3 DEF Trail, TrailInMap
<1>7. ASSUME NEW i \in 1..Len(ipc'), Last(i)' PROVE ipc'[i].obj.status = heap'[ipc'[i].row][1].status
  <2>1. CASE i \in 1..Len(ipc)
    <3>1. Last(i) /\ ipc[i].row # r
      BY <1>2, <1>7, <2>1 DEF Last
    <3> QED BY <1>1, <1>2, <1>3, <2>1, <3>1 DEF Trail, TrailInMap, TrailEnds, TrailOfNone, Status
  <2>2. CASE i = Len(ipc')
    BY <1>2, <1>3, <2>2 DEF Status
  <2> QED BY <1>2, <2>1, <2>2
<1>8. ASSUME NEW q \in Rows, cur'[q] = 1, \A i \in 1..Len(ipc') : ipc'[i].row # q
      PROVE  disk'[q].status = heap'[q][1].status
  <2>1. q # r /\ \A i \in 1..Len(ipc) : ipc[i].row # q
    BY <1>2, <1>8
  <2> QED BY <1>3, <1>8, <2>1 DEF Trail, TrailOfNone, Status
<1>9. TrailStarts' /\ TrailGoesOn'
  BY <1>4, <1>5 DEF TrailStarts, TrailGoesOn
<1>10. TrailInMap' /\ TrailEnds'
  BY <1>6, <1>7 DEF TrailInMap, TrailEnds
<1>11. TrailOfNone'
  BY <1>8 DEF TrailOfNone
<1> QED BY <1>9, <1>10, <1>11 DEF Trail

\* Without faults the store takes over the first command of the trail.
LEMMA TrailShrinks ==
    ASSUME MaxFaults = 0, EngineInv, Trail, Pops
    PROVE  Trail'
<1>1. /\ Len(ipc) \in Nat \ {0} /\ \A i \in 1..Len(ipc) : ipc[i].row \in Rows
      /\ disk \in [Rows -> Obj] /\ 1 \in 1..Len(ipc)
  BY LenProperties DEF EngineInv, IInv, TypeOK, IpcShape, UndoInv, OneObject, Pops
<1>2. /\ disk' = [disk EXCEPT ![ipc[1].row] = ipc[1].obj] /\ cur' = cur
      /\ \A q \in Rows : cur[q] = 1 => Status(q)' = Status(q)
  BY DEF Pops, Status
<1>3. /\ Len(ipc') = Len(ipc) - 1
      /\ \A i \in 1..Len(ipc') : ipc'[i] = ipc[i + 1] /\ i + 1 \in 1..Len(ipc) /\ 1 < i + 1
      /\ \A j \in 1..Len(ipc) : j = 1 \/ (j - 1 \in 1..Len(ipc') /\ ipc'[j - 1] = ipc[j])
  BY <1>1 DEF Pops
<1>4. ASSUME NEW i \in 1..Len(ipc'), First(i)'
      PROVE  Allowed(disk'[ipc'[i].row].status, ipc'[i])
  <2>1. \A j \in 1..Len(ipc) : 1 < j /\ j < i + 1 => ipc[j].row # ipc[i + 1].row
    <3> SUFFICES ASSUME NEW j \in 1..Len(ipc), 1 < j, j < i + 1
                 PROVE  ipc[j].row # ipc[i + 1].row
      OBVIOUS
    <3>1. j - 1 < i /\ j # 1
      BY <1>1, <1>3
    <3>2. j - 1 \in 1..Len(ipc') /\ ipc'[j - 1] = ipc[j] /\ ipc'[i] = ipc[i + 1]
      BY <1>3, <3>1
    <3> QED BY <1>4, <3>1, <3>2 DEF First
  <2>2. CASE ipc[1].row = ipc[i + 1].row
    <3>1. Follows(1, i + 1)
      BY <1>3, <2>1, <2>2 DEF Follows
    <3>2. disk'[ipc[i + 1].row] = ipc[1].obj
      BY <1>1, <1>2, <1>3, <2>2
    <3> QED BY <1>1, <1>3, <3>1, <3>2 DEF Trail, TrailGoesOn
  <2>3. CASE ipc[1].row # ipc[i + 1].row
    <3>1. First(i + 1)
      BY <1>1, <1>3, <2>1, <2>3 DEF First
    <3>2. disk'[ipc[i + 1].row] = disk[ipc[i + 1].row]
      BY <1>1, <1>2, <1>3, <2>3
    <3> QED BY <1>3, <3>1, <3>2 DEF Trail, TrailStarts
  <2> QED BY <2>2, <2>3
<1>5. ASSUME NEW i \in 1..Len(ipc'), NEW k \in 1..Len(ipc'), Follows(i, k)'
      PROVE  Allowed(ipc'[i].obj.status, ipc'[k])
  <2>1. Follows(i + 1, k + 1)
    <3> SUFFICES ASSUME NEW j \in 1..Len(ipc), i + 1 < j, j < k + 1
                 PROVE  ipc[j].row # ipc[i + 1].row
      BY <1>3, <1>5 DEF Follows
    <3>1. i < j - 1 /\ j - 1 < k /\ j # 1
      BY <1>1, <1>3
    <3>2. j - 1 \in 1..Len(ipc') /\ ipc'[j - 1] = ipc[j] /\ ipc'[i] = ipc[i + 1]
      BY <1>3, <3>1
    <3> QED BY <1>5, <3>1, <3>2 DEF Follows
  <2> QED BY <1>3, <2>1 DEF Trail, TrailGoesOn
<1>6. ASSUME NEW i \in 1..Len(ipc') PROVE cur'[ipc'[i].row] = 1
  BY <1>2, <1>3 DEF Trail, TrailInMap
<1>7. ASSUME NEW i \in 1..Len(ipc'), Last(i)' PROVE ipc'[i].obj.status = heap'[ipc'[i].row][1].status
  <2>1. Last(i + 1)
    <3> SUFFICES ASSUME NEW j \in 1..Len(ipc), i + 1 < j PROVE ipc[j].row # ipc[i + 1].row
      BY DEF Last
    <3>1. i < j - 1 /\ j # 1
      BY <1>1, <1>3
    <3>2. j - 1 \in 1..Len(ipc') /\ ipc'[j - 1] = ipc[j] /\ ipc'[i] = ipc[i + 1]
      BY <1>3, <3>1
    <3> QED BY <1>7, <3>1, <3>2 DEF Last
  <2>2. ipc[i + 1].row \in Rows /\ cur[ipc[i + 1].row] = 1
    BY <1>1, <1>3 DEF Trail, TrailInMap
  <2>3. ipc[i + 1].obj.status = heap[ipc[i + 1].row][1].status
    BY <1>3, <2>1 DEF Trail, TrailEnds
  <2>4. heap'[ipc[i + 1].row][1].status = heap[ipc[i + 1].row][1].status
    BY <1>2, <2>2 DEF Status
  <2> QED BY <1>3, <2>3, <2>4
<1>8. ASSUME NEW q \in Rows, cur'[q] = 1, \A i \in 1..Len(ipc') : ipc'[i].row # q
      PROVE  disk'[q].status = heap'[q][1].status
  <2>1. \A j \in 1..Len(ipc) : 1 < j => ipc[j].row # q
    BY <1>3, <1>8
  <2>2. CASE ipc[1].row = q
    <3>1. Last(1)
      BY <2>1, <2>2 DEF Last
    <3> QED BY <1>1, <1>2, <1>8, <2>2, <3>1 DEF Trail, TrailEnds, Status
  <2>3. CASE ipc[1].row # q
    <3>1. disk'[q] = disk[q] /\ \A j \in 1..Len(ipc) : ipc[j].row # q
      BY <1>1, <1>2, <2>1, <2>3
    <3> QED BY <1>2, <1>8, <3>1 DEF Trail, TrailOfNone, Status
  <2> QED BY <2>2, <2>3
<1>9. TrailStarts' /\ TrailGoesOn'
  BY <1>4, <1>5 DEF TrailStarts, TrailGoesOn
<1>10. TrailInMap' /\ TrailEnds'
  BY <1>6, <1>7 DEF TrailInMap, TrailEnds
<1>11. TrailOfNone'
  BY <1>8 DEF TrailOfNone
<1> QED BY <1>9, <1>10, <1>11 DEF Trail

LEMMA TrailNext ==
    ASSUME ~Rehydrates, MaxFaults = 0, EngineInv, Trail, [Next]_vars
    PROVE  Trail'
<1>1. ASSUME NEW r \in Rows, Enters(r) \/ Retries(r) \/ \E t \in Statuses : Edits(r, t)
      PROVE  Trail'
  <2>1. CASE Enters(r)
    BY <2>1, TrailGrows DEF Enters
  <2>2. CASE Retries(r)
    <3>1. Allowed(Status(r), ipc'[Len(ipc) + 1])
      BY <2>2 DEF Retries, Allowed, Appends, Awaited
    <3> QED BY <2>2, <3>1, TrailGrows DEF Retries
  <2>3. ASSUME NEW t \in Statuses, Edits(r, t) PROVE Trail'
    <3>1. Allowed(Status(r), ipc'[Len(ipc) + 1])
      BY <2>3 DEF Edits, Allowed, Appends, Awaited
    <3> QED BY <2>3, <3>1, TrailGrows DEF Edits
  <2> QED BY <1>1, <2>1, <2>2, <2>3
<1>2. ASSUME NEW f \in Flushers, NEW r \in Rows, Takes(f, r) PROVE Trail'
  <2>1. Allowed(Status(r), ipc'[Len(ipc) + 1])
    BY <1>2 DEF Takes, Allowed, Appends
  <2> QED BY <1>2, <2>1, TrailGrows DEF Takes
<1>3. ASSUME NEW f \in Flushers, NEW t \in {"done", "failed"}, Finishes(f, t)
      PROVE  Trail'
  <2>1. flush[f].row \in Rows /\ cur[flush[f].row] = 1
    BY <1>3 DEF Finishes, EngineInv, IInv, FlushShape, CarriedRows, Carrying
  <2>2. Allowed(Status(flush[f].row), ipc'[Len(ipc) + 1])
    BY <1>3, <2>1 DEF EngineInv, RealObjects, Allowed, Finishes, Appends
  <2> QED BY <1>3, <2>1, <2>2, TrailGrows DEF Finishes
<1>4. ASSUME UNCHANGED <<heap, cur, ipc, disk>> PROVE Trail'
  <2>1. TrailStarts'
    BY <1>4 DEF Trail, TrailStarts, First, Allowed
  <2>2. TrailGoesOn'
    BY <1>4 DEF Trail, TrailGoesOn, Follows, Allowed
  <2>3. TrailInMap' /\ TrailEnds' /\ TrailOfNone'
    BY <1>4 DEF Trail, TrailInMap, TrailEnds, TrailOfNone, Last
  <2> QED BY <2>1, <2>2, <2>3 DEF Trail
<1>5. CASE Restarts
  <2>1. Len(ipc') = 0
    BY <1>5 DEF Restarts
  <2>2. TrailOfNone'
    BY <1>5 DEF Restarts, TrailOfNone
  <2> QED BY <2>1, <2>2 DEF Trail, TrailStarts, TrailGoesOn, TrailInMap, TrailEnds
<1> QED BY <1>1, <1>2, <1>3, <1>4, <1>5, TrailShrinks, StepKinds
    DEF StepKind, Moves, Waits

\* A flush that awaits a command takes the row with it, or settles the row it took.
Awaiting ==
    \A i \in 1..Len(ipc) : ipc[i].by \in Flushers =>
        \/ flush[ipc[i].by].pc = "saving" /\ ipc[i].obj.status = "inflight"
        \/ flush[ipc[i].by].pc = "settling" /\ ipc[i].obj.status \in {"done", "failed"}

LEMMA AwaitingNext ==
    ASSUME ~Rehydrates, MaxFaults = 0, EngineInv, Awaiting, [Next]_vars
    PROVE  Awaiting'
<1>0. /\ Len(ipc) \in Nat /\ EngineInv' /\ NoFlush.pc = "idle"
      /\ flush \in [Flushers -> Flush]
      /\ \A i \in 1..Len(ipc) : ipc[i].by \in Flushers =>
            flush[ipc[i].by].pc \in {"saving", "settling"}
  BY LenProperties, EngineNext DEF EngineInv, IInv, TypeOK, NoFlush, IpcOwned
<1>1. ASSUME NEW r \in Rows, NEW t, Appends(r, t),
             \A f \in Flushers : flush[f].pc \in {"saving", "settling"} =>
                flush'[f] = flush[f],
             ipc'[Len(ipc) + 1].by \in Flushers =>
                \/ flush'[ipc'[Len(ipc) + 1].by].pc = "saving" /\ t = "inflight"
                \/ flush'[ipc'[Len(ipc) + 1].by].pc = "settling" /\ t \in {"done", "failed"}
      PROVE  Awaiting'
  <2> SUFFICES ASSUME NEW i \in 1..Len(ipc'), ipc'[i].by \in Flushers
               PROVE  \/ /\ flush'[ipc'[i].by].pc = "saving"
                         /\ ipc'[i].obj.status = "inflight"
                      \/ /\ flush'[ipc'[i].by].pc = "settling"
                         /\ ipc'[i].obj.status \in {"done", "failed"}
    BY DEF Awaiting
  <2>1. i \in 1..Len(ipc) \/ i = Len(ipc) + 1
    BY <1>0, <1>1 DEF Appends
  <2>2. CASE i \in 1..Len(ipc)
    <3>1. ipc'[i] = ipc[i]
      BY <1>1, <2>2 DEF Appends
    <3>2. flush'[ipc[i].by] = flush[ipc[i].by]
      BY <1>0, <1>1, <2>2, <3>1
    <3> QED BY <2>2, <3>1, <3>2 DEF Awaiting
  <2>3. CASE i = Len(ipc) + 1
    BY <1>1, <2>3 DEF Appends
  <2> QED BY <2>1, <2>2, <2>3
<1>2. ASSUME NEW r \in Rows, Enters(r) \/ Retries(r) \/ \E t \in Statuses : Edits(r, t)
      PROVE  Awaiting'
  BY <1>1, <1>2 DEF Enters, Retries, Edits, Awaited
<1>3. ASSUME NEW f \in Flushers, NEW r \in Rows, Takes(f, r) PROVE Awaiting'
  BY <1>1, <1>3 DEF Takes, OthersKeep
<1>4. ASSUME NEW f \in Flushers, NEW t \in {"done", "failed"}, Finishes(f, t)
      PROVE  Awaiting'
  <2>1. flush[f].row \in Rows
    BY <1>4 DEF Finishes, EngineInv, IInv, FlushShape, Carrying
  <2> QED BY <1>1, <1>4, <2>1 DEF Finishes, OthersKeep
<1>5. ASSUME NEW f \in Flushers, Moves(f) PROVE Awaiting'
  <2>1. ipc' = ipc /\ \A g \in Flushers : flush[g].pc \in {"saving", "settling"} =>
                         flush'[g] = flush[g]
    BY <1>5 DEF Moves, OthersKeep
  <2> QED BY <1>0, <2>1 DEF Awaiting
<1>6. CASE Waits
  BY <1>6 DEF Waits, Awaiting
<1>7. CASE Pops
  <2> SUFFICES ASSUME NEW i \in 1..Len(ipc'), ipc'[i].by \in Flushers
               PROVE  \/ /\ flush'[ipc'[i].by].pc = "saving"
                         /\ ipc'[i].obj.status = "inflight"
                      \/ /\ flush'[ipc'[i].by].pc = "settling"
                         /\ ipc'[i].obj.status \in {"done", "failed"}
    BY DEF Awaiting
  <2>1. i + 1 \in 1..Len(ipc) /\ ipc'[i] = ipc[i + 1] /\ 1 \in 1..Len(ipc) /\ i + 1 # 1
    BY <1>0, <1>7 DEF Pops
  <2>2. ipc[i + 1].by # ipc[1].by
    BY <2>1 DEF EngineInv, IInv, IpcOwned
  <2>3. flush'[ipc[i + 1].by] = flush[ipc[i + 1].by]
    BY <1>7, <2>1, <2>2 DEF Pops, Resumes
  <2> QED BY <2>1, <2>3 DEF Awaiting
<1>8. CASE Restarts
  <2>1. Len(ipc') = 0
    BY <1>8 DEF Restarts
  <2> QED BY <2>1 DEF Awaiting
<1> QED BY <1>2, <1>3, <1>4, <1>5, <1>6, <1>7, <1>8, StepKinds DEF StepKind

\* What the contract sees of the outbox.
Report == [r \in Rows |-> disk[r].status]
Carries == [f \in Flushers |-> CarriesOf(f)]
Steps == [f \in Flushers |-> StepOf(f)]

LEMMA SeenOf ==
    ASSUME NEW f \in Flushers
    PROVE  /\ flush[f].pc \in {"idle", "scan", "saving"} =>
                 Carries[f] = 0 /\ Steps[f] = "none"
           /\ flush[f].pc \in {"saved", "calling"} =>
                 Carries[f] = flush[f].row /\ Steps[f] = "taken"
           /\ flush[f].pc = "applied" => Carries[f] = flush[f].row /\ Steps[f] = "gave"
           /\ flush[f].pc = "settling" => Carries[f] = flush[f].row /\ Steps[f] = "over"
BY DEF Carries, Steps, CarriesOf, StepOf

LEMMA SeenOfNext ==
    ASSUME NEW f \in Flushers
    PROVE  /\ flush'[f].pc \in {"idle", "scan", "saving"} =>
                 Carries'[f] = 0 /\ Steps'[f] = "none"
           /\ flush'[f].pc \in {"saved", "calling"} =>
                 Carries'[f] = flush'[f].row /\ Steps'[f] = "taken"
           /\ flush'[f].pc = "applied" => Carries'[f] = flush'[f].row /\ Steps'[f] = "gave"
           /\ flush'[f].pc = "settling" => Carries'[f] = flush'[f].row /\ Steps'[f] = "over"
           /\ flush'[f] = flush[f] => Carries'[f] = Carries[f] /\ Steps'[f] = Steps[f]
BY DEF Carries, Steps, CarriesOf, StepOf

\* Only the row and the step of flush f change.
LEMMA SeenExcept ==
    ASSUME NEW f \in Flushers, \A g \in Flushers : g # f => flush'[g] = flush[g]
    PROVE  /\ Carries' = [Carries EXCEPT ![f] = Carries'[f]]
           /\ Steps' = [Steps EXCEPT ![f] = Steps'[f]]
           /\ Carries'[f] = Carries[f] => Carries' = Carries
           /\ Steps'[f] = Steps[f] => Steps' = Steps
<1>1. \A g \in Flushers : g # f => Carries'[g] = Carries[g] /\ Steps'[g] = Steps[g]
  BY SeenOfNext
<1>2. /\ Carries = [g \in Flushers |-> Carries[g]] /\ Carries' = [g \in Flushers |-> Carries'[g]]
      /\ Steps = [g \in Flushers |-> Steps[g]] /\ Steps' = [g \in Flushers |-> Steps'[g]]
  BY DEF Carries, Steps
<1> QED BY <1>1, <1>2

LEMMA SeenSame ==
    ASSUME \A g \in Flushers : /\ Carries'[g] = Carries[g]
                               /\ Steps'[g] = Steps[g]
    PROVE  Carries' = Carries /\ Steps' = Steps
<1>1. /\ Carries = [g \in Flushers |-> Carries[g]] /\ Carries' = [g \in Flushers |-> Carries'[g]]
      /\ Steps = [g \in Flushers |-> Steps[g]] /\ Steps' = [g \in Flushers |-> Steps'[g]]
  BY DEF Carries, Steps
<1> QED BY <1>1

\* A step of the outbox is one of the contract, or changes nothing that the contract sees.
LEMMA ContractStep ==
    ASSUME ~Rehydrates, MaxFaults = 0, EngineInv, Trail, Awaiting, [Next]_vars
    PROVE  Promise!Next \/ UNCHANGED <<Report, sent, Carries, Steps>>
<1> USE DEF Report
<1>1. /\ disk \in [Rows -> Obj] /\ sent \in [Rows -> 0..2] /\ Len(ipc) \in Nat
      /\ flush \in [Flushers -> Flush] /\ NoFlush.pc = "idle"
  BY LenProperties DEF EngineInv, IInv, TypeOK, NoFlush
<1>2. ASSUME UNCHANGED <<disk, sent>>, \A f \in Flushers : flush'[f] = flush[f]
      PROVE  UNCHANGED <<Report, sent, Carries, Steps>>
  <2>1. Carries' = Carries /\ Steps' = Steps
    BY <1>2, SeenSame, SeenOfNext
  <2> QED BY <1>2, <2>1
<1>3. CASE Pops
  <2>1. /\ 1 \in 1..Len(ipc) /\ ipc[1].row \in Rows /\ sent' = sent
        /\ disk' = [disk EXCEPT ![ipc[1].row] = ipc[1].obj]
        /\ ipc[1].obj.status = "done" => sent[ipc[1].row] > 0
    BY <1>1, <1>3 DEF Pops, EngineInv, IInv, IpcShape, UndoInv, OneObject
  <2>2. Allowed(disk[ipc[1].row].status, ipc[1])
    <3>1. First(1)
      BY <1>1 DEF First
    <3> QED BY <2>1, <3>1 DEF Trail, TrailStarts
  <2>3. PICK q \in Rows : q = ipc[1].row
    BY <2>1
  <2>4. PICK t : t = ipc[1].obj.status
    OBVIOUS
  <2>5. Report' = [Report EXCEPT ![q] = t] /\ Report[q] = disk[q].status
    BY <1>1, <2>1, <2>3, <2>4
  <2>6. ASSUME ipc[1].by \notin Flushers
        PROVE  Promise!Next \/ UNCHANGED <<Report, sent, Carries, Steps>>
    <3>1. Carries' = Carries /\ Steps' = Steps
      <4>1. \A f \in Flushers : flush'[f] = flush[f]
        BY <1>3, <2>6 DEF Pops, Resumes
      <4> QED BY <4>1, SeenSame, SeenOfNext
    <3>2. CASE t = "failed"
      <4>1. Report[q] = t
        BY <2>2, <2>3, <2>4, <2>5, <2>6, <3>2 DEF Allowed
      <4>2. Report' = Report
        BY <2>5, <4>1
      <4> QED BY <2>1, <3>1, <4>2
    <3>3. CASE t # "failed"
      <4>1. t \in {"pending", "cancelled"} /\ Report[q] \in {"none", "pending", "failed"}
        BY <2>2, <2>3, <2>4, <2>5, <2>6, <3>3 DEF Allowed
      <4>2. Promise!Queue(q) \/ Promise!Cancel(q)
        BY <2>1, <2>5, <3>1, <4>1 DEF Promise!Queue, Promise!Cancel, Report, Carries, Steps
      <4> QED BY <4>2 DEF Promise!Next
    <3> QED BY <3>2, <3>3
  <2>7. ASSUME NEW f \in Flushers, f = ipc[1].by PROVE Promise!Next
    <3>1. flush[f].row = q /\ \A g \in Flushers : g # f => flush'[g] = flush[g]
      BY <1>3, <2>1, <2>3, <2>7 DEF Pops, Resumes, EngineInv, IInv, IpcOwned
    <3>2. CASE flush[f].pc = "saving"
      <4>1. t = "inflight" /\ flush'[f].pc = "saved" /\ flush'[f].row = q
        BY <1>3, <2>1, <2>4, <2>7, <3>1, <3>2 DEF Awaiting, Pops, Resumes, SameRow
      <4>2. Report[q] \in {"pending", "inflight"}
        BY <2>2, <2>3, <2>4, <2>5, <2>7, <4>1 DEF Allowed
      <4>3. Steps[f] = "none" /\ Steps'[f] = "taken" /\ Carries'[f] = q
        BY <3>2, <4>1, SeenOf, SeenOfNext
      <4>4. Carries' = [Carries EXCEPT ![f] = q] /\ Steps' = [Steps EXCEPT ![f] = "taken"]
        BY <3>1, <4>3, SeenExcept
      <4>5. Promise!Take(f, q)
        BY <2>1, <2>5, <4>1, <4>2, <4>3, <4>4 DEF Promise!Take, Report, Carries, Steps
      <4> QED BY <4>5 DEF Promise!Next
    <3>3. CASE flush[f].pc = "settling"
      <4>1. t \in {"done", "failed"} /\ flush'[f].pc = "scan"
        BY <1>3, <2>1, <2>4, <2>7, <3>1, <3>3 DEF Awaiting, Pops, Resumes
      <4>2. Steps[f] = "over" /\ Carries[f] = q /\ Steps'[f] = "none" /\ Carries'[f] = 0
        BY <3>1, <3>3, <4>1, SeenOf, SeenOfNext
      <4>3. Carries' = [Carries EXCEPT ![f] = 0] /\ Steps' = [Steps EXCEPT ![f] = "none"]
        BY <3>1, <4>2, SeenExcept
      <4>4. Promise!Settle(f)
        BY <2>1, <2>3, <2>4, <2>5, <4>1, <4>2, <4>3 DEF Promise!Settle, Report, Carries, Steps
      <4> QED BY <4>4 DEF Promise!Next
    <3> QED BY <2>1, <2>7, <3>2, <3>3 DEF Awaiting
  <2> QED BY <2>6, <2>7
<1>4. ASSUME NEW f \in Flushers, Moves(f)
      PROVE  Promise!Next \/ UNCHANGED <<Report, sent, Carries, Steps>>
  <2>1. disk' = disk /\ \A g \in Flushers : g # f => flush'[g] = flush[g]
    BY <1>4 DEF Moves, OthersKeep
  <2>2. ASSUME sent' = sent, Carries'[f] = Carries[f], Steps'[f] = Steps[f]
        PROVE  UNCHANGED <<Report, sent, Carries, Steps>>
    <3>1. Carries' = Carries /\ Steps' = Steps
      BY <2>1, <2>2, SeenExcept
    <3> QED BY <2>1, <2>2, <3>1
  <2>3. CASE flush[f].pc = "scan"
    <3>1. flush'[f].pc = "idle" /\ sent' = sent
      BY <1>1, <1>4, <2>3 DEF Moves
    <3> QED BY <2>2, <2>3, <3>1, SeenOf, SeenOfNext
  <2>4. CASE flush[f].pc = "saved"
    <3>1. flush'[f].pc = "calling" /\ flush'[f].row = flush[f].row /\ sent' = sent
      BY <1>4, <2>4 DEF Moves, SameRow
    <3> QED BY <2>2, <2>4, <3>1, SeenOf, SeenOfNext
  <2>5. CASE flush[f].pc = "calling"
    <3>1. /\ flush'[f].pc = "applied" /\ flush'[f].row = flush[f].row
          /\ sent' = [sent EXCEPT ![flush[f].row] = IF @ = 2 THEN 2 ELSE @ + 1]
      BY <1>4, <2>5 DEF Moves, SameRow
    <3>2. /\ Steps[f] = "taken" /\ Steps'[f] = "gave"
          /\ Carries[f] = flush[f].row /\ Carries'[f] = Carries[f]
      BY <2>5, <3>1, SeenOf, SeenOfNext
    <3>3. Carries' = Carries /\ Steps' = [Steps EXCEPT ![f] = "gave"]
      BY <2>1, <3>2, SeenExcept
    <3>4. Promise!Deliver(f)
      BY <2>1, <3>1, <3>2, <3>3 DEF Promise!Deliver, Report, Carries, Steps
    <3> QED BY <3>4 DEF Promise!Next
  <2> QED BY <1>4, <2>3, <2>4, <2>5 DEF Moves
<1>5. ASSUME NEW f \in Flushers, NEW r \in Rows, Takes(f, r)
      PROVE  UNCHANGED <<Report, sent, Carries, Steps>>
  <2>1. /\ disk' = disk /\ sent' = sent /\ \A g \in Flushers : g # f => flush'[g] = flush[g]
        /\ flush[f].pc \in {"idle", "scan"} /\ flush'[f].pc = "saving"
    BY <1>5 DEF Takes, Appends, OthersKeep
  <2>2. Carries'[f] = Carries[f] /\ Steps'[f] = Steps[f]
    BY <2>1, SeenOf, SeenOfNext
  <2>3. Carries' = Carries /\ Steps' = Steps
    BY <2>1, <2>2, SeenExcept
  <2> QED BY <2>1, <2>3
<1>6. ASSUME NEW f \in Flushers, NEW t, Finishes(f, t) PROVE Promise!Next
  <2>1. /\ disk' = disk /\ sent' = sent /\ \A g \in Flushers : g # f => flush'[g] = flush[g]
        /\ flush[f].pc \in {"saved", "calling", "applied"} /\ flush'[f].pc = "settling"
        /\ flush'[f].row = flush[f].row
    BY <1>6 DEF Finishes, Appends, OthersKeep, SameRow
  <2>2. /\ Steps[f] \in {"taken", "gave"} /\ Steps'[f] = "over"
        /\ Carries'[f] = Carries[f]
    BY <2>1, SeenOf, SeenOfNext
  <2>3. Carries' = Carries /\ Steps' = [Steps EXCEPT ![f] = "over"]
    BY <2>1, <2>2, SeenExcept
  <2>4. Promise!Close(f)
    BY <2>1, <2>2, <2>3 DEF Promise!Close, Report, Carries, Steps
  <2> QED BY <2>4 DEF Promise!Next
<1>7. CASE Restarts
  <2>1. disk' = disk /\ sent' = sent /\ flush' = [f \in Flushers |-> NoFlush]
    BY <1>7 DEF Restarts
  <2>2. \A f \in Flushers : Carries'[f] = 0 /\ Steps'[f] = "none"
    BY <1>1, <2>1, SeenOfNext
  <2>3. Carries' = [f \in Flushers |-> 0] /\ Steps' = [f \in Flushers |-> "none"]
    <3>1. Carries' = [f \in Flushers |-> Carries'[f]] /\ Steps' = [f \in Flushers |-> Steps'[f]]
      BY DEF Carries, Steps
    <3> QED BY <2>2, <3>1
  <2>4. Promise!Stop
    BY <2>1, <2>3 DEF Promise!Stop, Report, Carries, Steps
  <2> QED BY <2>4 DEF Promise!Next
<1>8. ASSUME NEW r \in Rows, Enters(r) \/ Retries(r) \/ \E t \in Statuses : Edits(r, t)
      PROVE  UNCHANGED <<Report, sent, Carries, Steps>>
  <2>1. UNCHANGED <<disk, sent>> /\ \A f \in Flushers : flush'[f] = flush[f]
    BY <1>8 DEF Enters, Retries, Edits, Appends
  <2> QED BY <1>2, <2>1
<1>9. CASE Waits
  <2>1. UNCHANGED <<disk, sent>> /\ \A f \in Flushers : flush'[f] = flush[f]
    BY <1>9 DEF Waits
  <2> QED BY <1>2, <2>1
<1> QED BY <1>3, <1>4, <1>5, <1>6, <1>7, <1>8, <1>9, StepKinds DEF StepKind

\* Contract (enqueue, flushOutbox, cancelOutbox, retryOutbox): what is stored, what is sent
\* and what each flush has taken follow the contract of the outbox, for any number of
\* rows, overlapping flushes and restarts, if no store command is rejected and
\* hydrateLocal is not called again.
THEOREM KeepsContract == ASSUME ~Rehydrates, MaxFaults = 0 PROVE Spec => Contract
<1>1. Init => EngineInv /\ Trail /\ Awaiting /\ Promise!Init
  <2> SUFFICES ASSUME Init PROVE EngineInv /\ Trail /\ Awaiting /\ Promise!Init
    OBVIOUS
  <2>1. Len(ipc) = 0
    BY EmptySeq DEF Init
  <2>2. TrailOfNone
    BY DEF Init, TrailOfNone
  <2>3. Trail /\ Awaiting
    BY <2>1, <2>2 DEF Trail, TrailStarts, TrailGoesOn, TrailInMap, TrailEnds, Awaiting
  <2>4. Promise!Init
    BY DEF Init, Promise!Init, NoObj, NoFlush, CarriesOf, StepOf
  <2> QED BY <2>3, <2>4, EngineInit
<1>2. EngineInv /\ Trail /\ Awaiting /\ [Next]_vars => (EngineInv /\ Trail /\ Awaiting)'
  BY EngineNext, TrailNext, AwaitingNext
<1>3. EngineInv /\ Trail /\ Awaiting /\ [Next]_vars =>
        [Promise!Next]_<<[r \in Rows |-> disk[r].status], sent,
                         [f \in Flushers |-> CarriesOf(f)], [f \in Flushers |-> StepOf(f)]>>
  BY ContractStep DEF Report, Carries, Steps
<1> QED BY <1>1, <1>2, <1>3, PTL DEF Spec, Contract, Promise!Spec

-----------------------------------------------------------------------------
(* One flush at a time, and no stop in between: the newest draft is kept.    *)

Saves == {r \in Rows : Kind[r] = "save_draft" /\ born[r] # 0}
Newest(q) == q \in Saves /\ \A r \in Saves : born[r] <= born[q]

\* A flush that has a row on its way has the only say about it.
OnItsWay(f) ==
    /\ flush[f].pc \in {"saving", "saved", "calling", "applied"} =>
          Status(flush[f].row) = "inflight"
    /\ flush[f].pc \in {"calling", "applied"} =>
          flush[f].ver = heap[flush[f].row][1].ver
    /\ flush[f].pc = "applied" /\ Kind[flush[f].row] = "save_draft" =>
          flush[f].pid \in 1..MaxDrafts /\ drafts[flush[f].pid] = flush[f].ver

\* A row of the draft is taken when the older ones are over; an older one is
\* pending only if the user retried it.
OlderOver ==
    \A q, r \in Saves : born[r] < born[q] =>
        /\ Status(q) \in {"inflight", "done", "failed"} => Over(r)
        /\ Status(r) = "pending" => r \in retried

\* An older row failed or was called off: it stays so, or the user retried it.
Stuck == \E q, r \in Saves : /\ born[r] < born[q]
                             /\ r \in retried \/ Status(r) \in {"failed", "cancelled"}

\* The newest row has the newest version, and the provider has that of a
\* newest row that is done.
NewestKept ==
    \A q \in Rows : Newest(q) =>
        \/ Stuck
        \/ /\ heap[q][1].ver = edits
           /\ Status(q) = "done" => \E p \in 1..MaxDrafts : drafts[p] = heap[q][1].ver

OnlyMutations == \A r \in done : Kind[r] = "mutation"

\* Without a restart, the Map keeps the order of the rows.
InOrderOfBirth == \A r \in Rows : born[r] # 0 => rank[r] = born[r] /\ rank[r] > N

DraftInv ==
    /\ \A f \in Flushers : OnItsWay(f)
    /\ OlderOver /\ NewestKept /\ OnlyMutations /\ InOrderOfBirth

LEMMA OnlyMutationsNext == OnlyMutations /\ [Next]_vars => OnlyMutations'
<1> SUFFICES ASSUME OnlyMutations, [Next]_vars PROVE OnlyMutations'
  OBVIOUS
<1>1. \/ done' = done \/ done' = {}
      \/ \E f \in Flushers : Kind[flush[f].row] = "mutation" /\ done' = done \cup {flush[f].row}
  BY DEF Next, vars, memVars, FlushStep, UserStep, AvailableAt, TakeRow, EndFlush, CallProvider,
     ProviderApplies, ProviderAnswers, ProviderThrows, CatchSets, CoalesceDraft, NewDraft,
     NewMutation, NewSend, SendCancelsDraft, CancelOutbox, RetryOutbox, StoreExecutes,
     StoreRejects, HydrateStart, HydrateSets, Restart
<1> QED BY <1>1 DEF OnlyMutations

LEMMA DraftTypes ==
    ASSUME EngineInv, Ranks, DraftInv
    PROVE  /\ born \in [Rows -> Nat] /\ tick \in Nat /\ drafts \in [1..MaxDrafts -> 0..MaxEdits]
           /\ edits \in Nat /\ flush \in [Flushers -> Flush] /\ NoFlush.pc = "idle"
           /\ \A r \in Rows : born[r] # 0 <=> cur[r] = 1
           /\ \A r \in Rows : born[r] < tick
           /\ \A q, r \in Rows : born[q] # 0 /\ born[q] = born[r] => q = r
           /\ \A f \in Flushers : flush[f].pc \in Carrying =>
                 flush[f].row \in Rows /\ cur[flush[f].row] = 1 /\ flush[f].slot = 1
           /\ \A r \in Saves : r \in Rows /\ r \notin HeldRows /\ r \in due
<1>1. /\ born \in [Rows -> Nat] /\ tick \in Nat /\ drafts \in [1..MaxDrafts -> 0..MaxEdits]
      /\ edits \in Nat /\ flush \in [Flushers -> Flush] /\ NoFlush.pc = "idle"
  BY OutboxAssumption DEF EngineInv, IInv, TypeOK, NoFlush
<1>2. \A r \in Rows : born[r] # 0 <=> cur[r] = 1
  BY DEF EngineInv, UndoInv, UnusedRows, Ranks, RowRanks, DraftInv, InOrderOfBirth
<1>3. /\ \A r \in Rows : born[r] < tick
      /\ \A q, r \in Rows : born[q] # 0 /\ born[q] = born[r] => q = r
  BY DEF Ranks, RowRanks, DraftInv, InOrderOfBirth
<1>4. \A f \in Flushers : flush[f].pc \in Carrying =>
         flush[f].row \in Rows /\ cur[flush[f].row] = 1 /\ flush[f].slot = 1
  BY DEF EngineInv, IInv, FlushShape, CarriedRows
<1>5. \A r \in Saves : r \in Rows /\ r \notin HeldRows /\ r \in due
  BY OutboxAssumption DEF Saves, Ranks, RowRanks, Rows
<1> QED BY <1>1, <1>2, <1>3, <1>4, <1>5

\* What has gone wrong with an older row stays so.
LEMMA StuckStays ==
    ASSUME ~Rehydrates, MaxCrashes = 0, EngineInv, Ranks, DraftInv, [Next]_vars, Stuck
    PROVE  Stuck'
<1> USE DraftTypes DEF Saves, Status
<1>1. PICK q \in Rows, r \in Rows :
        /\ Kind[q] = "save_draft" /\ Kind[r] = "save_draft" /\ born[q] # 0 /\ born[r] # 0
        /\ born[r] < born[q]
        /\ r \in retried \/ Status(r) \in {"failed", "cancelled"}
  BY DEF Stuck
<1> SUFFICES /\ born'[q] = born[q] /\ born'[r] = born[r]
             /\ r \in retried' \/ Status(r)' \in {"failed", "cancelled"}
  BY <1>1 DEF Stuck
<1>2. ASSUME NEW x \in Rows, Enters(x) \/ Retries(x) \/ \E t \in Statuses : Edits(x, t)
      PROVE  /\ born'[q] = born[q] /\ born'[r] = born[r]
             /\ r \in retried' \/ Status(r)' \in {"failed", "cancelled"}
  BY <1>1, <1>2 DEF Enters, Retries, Edits, Appends
<1>3. ASSUME NEW f \in Flushers, NEW x \in Rows, Takes(f, x)
      PROVE  /\ born'[q] = born[q] /\ born'[r] = born[r]
             /\ r \in retried' \/ Status(r)' \in {"failed", "cancelled"}
  BY <1>1, <1>3 DEF Takes, Appends
<1>4. ASSUME NEW f \in Flushers, NEW t \in {"done", "failed"}, Finishes(f, t)
      PROVE  /\ born'[q] = born[q] /\ born'[r] = born[r]
             /\ r \in retried' \/ Status(r)' \in {"failed", "cancelled"}
  <2>1. Status(flush[f].row) = "inflight"
    BY <1>4 DEF Finishes, DraftInv, OnItsWay
  <2> QED BY <1>1, <1>4, <2>1 DEF Finishes, Appends
<1>5. ASSUME NEW f \in Flushers, Moves(f)
      PROVE  /\ born'[q] = born[q] /\ born'[r] = born[r]
             /\ r \in retried' \/ Status(r)' \in {"failed", "cancelled"}
  BY <1>1, <1>5 DEF Moves
<1>6. CASE Waits \/ Pops
  BY <1>1, <1>6 DEF Waits, Pops
<1> QED BY <1>2, <1>3, <1>4, <1>5, <1>6, StepKinds DEF StepKind, Restarts

\* The rows of a draft, when no row enters.
LEMMA SavesKept == ASSUME UNCHANGED born PROVE Saves' = Saves /\ \A q : Newest(q)' = Newest(q)
BY DEF Saves, Newest

LEMMA DraftEnters ==
    ASSUME EngineInv, Ranks, DraftInv, Stuck => Stuck', NEW x \in Rows, Enters(x)
    PROVE  (\A f \in Flushers : OnItsWay(f)') /\ OlderOver' /\ NewestKept' /\ InOrderOfBirth'
<1> USE DraftTypes
<1>0. /\ cur[x] # 1 /\ born[x] = 0 /\ tick > N
      /\ born'[x] = tick /\ rank'[x] = tick /\ Status(x)' = "pending"
      /\ \A q \in Rows : q # x => /\ born'[q] = born[q] /\ heap'[q][1] = heap[q][1]
                                  /\ rank'[q] = rank[q] /\ Status(q)' = Status(q)
      /\ UNCHANGED <<flush, drafts, retried>>
  BY RankTypes DEF Enters, Appends, Status, IsEdited, Ranks, RowRanks
<1>1. \A f \in Flushers : OnItsWay(f)'
  BY <1>0 DEF DraftInv, OnItsWay, Carrying, Status
<1>2. InOrderOfBirth'
  BY <1>0 DEF DraftInv, InOrderOfBirth
<1>3. /\ Kind[x] # "save_draft" => Saves' = Saves
      /\ Kind[x] = "save_draft" => Saves' = Saves \cup {x}
      /\ x \notin Saves
  BY <1>0, RankTypes DEF Saves
<1>4. Kind[x] = "save_draft" => \A r \in Saves : Status(r) # "pending"
  <2> SUFFICES ASSUME Kind[x] = "save_draft", NEW r \in Saves, Status(r) = "pending"
               PROVE  FALSE
    OBVIOUS
  <2>1. InMap(r) /\ Live(r).status = "pending" /\ Kind[r] = "save_draft"
    BY DEF InMap, Live, Status, Saves
  <2> QED BY <2>1 DEF Enters, OpenDrafts
<1>5. OlderOver'
  <2> SUFFICES ASSUME NEW q \in Saves', NEW r \in Saves', born'[r] < born'[q]
               PROVE  /\ Status(q)' \in {"inflight", "done", "failed"} => Over(r)'
                      /\ Status(r)' = "pending" => r \in retried'
    BY DEF OlderOver, Over, Status
  <2>1. r # x /\ r \in Saves
    BY <1>0, <1>3
  <2>2. CASE q = x
    BY <1>0, <1>3, <1>4, <2>1, <2>2
  <2>3. CASE q # x
    <3>1. q \in Saves /\ born[r] < born[q]
      BY <1>0, <1>3, <2>1, <2>3
    <3>2. Over(r) => Over(r)'
      BY <1>0, <2>1 DEF Over, Settled
    <3> QED BY <1>0, <2>1, <2>3, <3>1, <3>2 DEF DraftInv, OlderOver
  <2> QED BY <2>2, <2>3
<1>6. NewestKept'
  <2> SUFFICES ASSUME NEW q \in Rows, Newest(q)', ~Stuck'
               PROVE  /\ heap'[q][1].ver = edits'
                      /\ Status(q)' = "done" =>
                            \E p \in 1..MaxDrafts : drafts'[p] = heap'[q][1].ver
    BY DEF NewestKept
  <2>1. CASE Kind[x] = "save_draft"
    <3>1. q = x
      BY <1>0, <1>3, <2>1 DEF Newest
    <3> QED BY <1>0, <2>1, <3>1 DEF Enters, IsEdited
  <2>2. CASE Kind[x] # "save_draft"
    <3>1. Newest(q) /\ q # x
      BY <1>0, <1>3, <2>2 DEF Newest
    <3> QED BY <1>0, <2>2, <3>1 DEF Enters, DraftInv, NewestKept
  <2> QED BY <2>1, <2>2
<1> QED BY <1>1, <1>2, <1>5, <1>6

\* The user's other steps are about a row that no flush has on its way.
LEMMA DraftEdits ==
    ASSUME EngineInv, Ranks, DraftInv, Stuck => Stuck', NEW x \in Rows,
           Retries(x) \/ \E t \in Statuses : Edits(x, t)
    PROVE  (\A f \in Flushers : OnItsWay(f)') /\ OlderOver' /\ NewestKept' /\ InOrderOfBirth'
<1> USE DraftTypes
<1>0. /\ cur[x] = 1 /\ Status(x) \in {"pending", "failed"}
      /\ \A q \in Rows : q # x => heap'[q][1] = heap[q][1] /\ Status(q)' = Status(q)
      /\ UNCHANGED <<flush, drafts, born, rank>>
      /\ \/ Status(x)' = "pending" /\ Status(x) = "failed" /\ retried' = retried \cup {x}
         \/ Status(x)' \in {Status(x), "cancelled"} /\ retried' = retried
  BY DEF Retries, Edits, Appends, Status, IsEdited, Keeps
<1>1. \A f \in Flushers : OnItsWay(f)'
  BY <1>0 DEF DraftInv, OnItsWay, Carrying, Status
<1>2. InOrderOfBirth'
  BY <1>0 DEF DraftInv, InOrderOfBirth
<1>3. OlderOver'
  <2>1. \A r \in Rows : Over(r) => Over(r)'
    BY <1>0 DEF Over, Settled
  <2> QED BY <1>0, <2>1, SavesKept DEF DraftInv, OlderOver
<1>4. NewestKept'
  <2> SUFFICES ASSUME NEW q \in Rows, Newest(q), ~Stuck'
               PROVE  /\ heap'[q][1].ver = edits'
                      /\ Status(q)' = "done" =>
                            \E p \in 1..MaxDrafts : drafts'[p] = heap'[q][1].ver
    BY <1>0, SavesKept DEF NewestKept
  <2>1. heap[q][1].ver = edits
    BY DEF DraftInv, NewestKept
  <2>2. CASE Keeps(x)
    BY <1>0, <2>1, <2>2 DEF Keeps, DraftInv, NewestKept
  <2>3. CASE ~Keeps(x)
    <3>1. IsEdited(x) /\ Kind[x] = "save_draft" /\ Status(x)' = Status(x)
      BY <2>3 DEF Retries, Edits, FirstOf, OpenDrafts, Appends, Status
    <3>2. x \in Saves /\ born[x] <= born[q]
      BY <1>0, <3>1 DEF Saves, Newest
    <3>3. CASE x = q
      BY <1>0, <3>1, <3>3 DEF IsEdited
    <3>4. CASE x # q
      <4>1. q \in Saves /\ born[x] < born[q]
        BY <3>2, <3>4 DEF Newest, Saves
      <4>2. x \in retried \/ Status(x) = "failed"
        BY <1>0, <3>2, <4>1 DEF DraftInv, OlderOver
      <4>3. Stuck
        BY <3>2, <4>1, <4>2 DEF Stuck
      <4> QED BY <4>3
    <3> QED BY <3>3, <3>4
  <2> QED BY <2>2, <2>3
<1> QED BY <1>1, <1>2, <1>3, <1>4

\* The flush takes a row when all that are older are over.
LEMMA DraftTakes ==
    ASSUME EngineInv, Ranks, Passed, DraftInv, Stuck => Stuck', \A f, g \in Flushers : f = g,
           NEW f \in Flushers, NEW x \in Rows, Takes(f, x)
    PROVE  (\A g \in Flushers : OnItsWay(g)') /\ OlderOver' /\ NewestKept' /\ InOrderOfBirth'
<1> USE DraftTypes
<1>0. /\ cur[x] = 1 /\ Status(x) \in {"pending", "inflight"} /\ Status(x)' = "inflight"
      /\ \A q \in Rows : q # x => heap'[q][1] = heap[q][1] /\ Status(q)' = Status(q)
      /\ \A q \in Rows : heap'[q][1].ver = heap[q][1].ver
      /\ UNCHANGED <<edits, drafts, born, rank, retried>>
      /\ flush'[f].pc = "saving" /\ flush'[f].row = x
  BY DEF Takes, Appends, Status, Keeps
<1>1. \A g \in Flushers : OnItsWay(g)'
  BY <1>0 DEF OnItsWay
<1>2. InOrderOfBirth'
  BY <1>0 DEF DraftInv, InOrderOfBirth
<1>3. \A r \in Rows : Over(r) => Over(r)'
  BY <1>0 DEF Over, Settled
<1>4. ASSUME NEW r \in Saves, x \in Saves, born[r] < born[x] PROVE Over(r)
  <2>1. rank[r] < rank[x] /\ Prompt(r) /\ cur[r] = 1 /\ r \in due
    BY <1>4 DEF DraftInv, InOrderOfBirth, Saves, Prompt
  <2>2. CASE rank[r] > flush[f].at
    <3>1. ~Eligible(r)
      BY <2>1, <2>2, RankTypes DEF Takes, FirstOf, Ahead
    <3> QED BY <2>1, <3>1 DEF Eligible, InMap, Live, Over, Status
  <2>3. CASE ~(rank[r] > flush[f].at)
    <3>1. flush[f].pc = "scan"
      BY <2>1, <2>3, RankTypes DEF Takes, Ranks, Standing, Prompt
    <3>2. Behind(r, f)
      BY <2>3, <3>1, RankTypes DEF Behind
    <3> QED BY <2>1, <3>2 DEF Passed
  <2> QED BY <2>2, <2>3
<1>5. OlderOver'
  <2> SUFFICES ASSUME NEW q \in Saves, NEW r \in Saves, born[r] < born[q]
               PROVE  /\ Status(q)' \in {"inflight", "done", "failed"} => Over(r)'
                      /\ Status(r)' = "pending" => r \in retried'
    BY <1>0, SavesKept DEF OlderOver, Over, Status
  <2> QED BY <1>0, <1>3, <1>4 DEF DraftInv, OlderOver
<1>6. NewestKept'
  BY <1>0, SavesKept DEF DraftInv, NewestKept
<1> QED BY <1>1, <1>2, <1>5, <1>6

\* The flush settles a row that was on its way.
LEMMA DraftFinishes ==
    ASSUME EngineInv, Ranks, DraftInv, Stuck => Stuck', \A f, g \in Flushers : f = g,
           NEW f \in Flushers, NEW t \in {"done", "failed"}, Finishes(f, t)
    PROVE  (\A g \in Flushers : OnItsWay(g)') /\ OlderOver' /\ NewestKept' /\ InOrderOfBirth'
<1> USE DraftTypes
<1> PICK x \in Rows : x = flush[f].row
  BY DEF Finishes, Carrying
<1>0. /\ x \in Rows /\ cur[x] = 1 /\ Status(x) = "inflight" /\ Status(x)' = t
      /\ \A q \in Rows : q # x => heap'[q][1] = heap[q][1] /\ Status(q)' = Status(q)
      /\ \A q \in Rows : heap'[q][1].ver = heap[q][1].ver
      /\ UNCHANGED <<edits, drafts, born, rank>>
      /\ flush'[f].pc = "settling"
      /\ \A q \in Rows : q # x => (q \in retried' <=> q \in retried)
      /\ t = "done" => flush[f].pc = "applied" \/ x \in done
  <2>1. /\ x \in Rows /\ cur[x] = 1 /\ Status(x) = "inflight"
    BY DEF Finishes, Carrying, DraftInv, OnItsWay
  <2>2. Appends(x, t) /\ Keeps(x)
    BY DEF Finishes
  <2>3. /\ UNCHANGED <<born, rank>> /\ flush'[f].pc = "settling"
        /\ retried' = retried \/ retried' = retried \ {x}
        /\ t = "done" => flush[f].pc = "applied" \/ x \in done
    BY DEF Finishes
  <2> QED BY <2>1, <2>2, <2>3 DEF Appends, Keeps, Status
<1>1. \A g \in Flushers : OnItsWay(g)'
  BY <1>0 DEF OnItsWay
<1>2. InOrderOfBirth'
  BY <1>0 DEF DraftInv, InOrderOfBirth
<1>3. \A r \in Rows : Over(r) => Over(r)'
  <2> SUFFICES ASSUME NEW r \in Rows, Over(r) PROVE Over(r)'
    OBVIOUS
  <2>1. CASE r = x
    BY <1>0, <2>1 DEF Over, Settled
  <2>2. CASE r # x
    BY <1>0, <2>2 DEF Over
  <2> QED BY <2>1, <2>2
<1>4. OlderOver'
  <2> SUFFICES ASSUME NEW q \in Saves, NEW r \in Saves, born[r] < born[q]
               PROVE  /\ Status(q)' \in {"inflight", "done", "failed"} => Over(r)'
                      /\ Status(r)' = "pending" => r \in retried'
    BY <1>0, SavesKept DEF OlderOver, Over, Status
  <2> QED BY <1>0, <1>3 DEF DraftInv, OlderOver
<1>5. NewestKept'
  <2> SUFFICES ASSUME NEW q \in Rows, Newest(q), ~Stuck
               PROVE  /\ heap'[q][1].ver = edits'
                      /\ Status(q)' = "done" =>
                            \E p \in 1..MaxDrafts : drafts'[p] = heap'[q][1].ver
    BY <1>0, SavesKept DEF NewestKept
  <2>1. CASE q = x /\ t = "done"
    <3>1. Kind[x] = "save_draft"
      BY <2>1 DEF Newest, Saves
    <3>2. flush[f].pc = "applied"
      BY <1>0, <2>1, <3>1 DEF DraftInv, OnlyMutations
    <3>3. flush[f].pid \in 1..MaxDrafts /\ drafts[flush[f].pid] = heap[x][1].ver
      BY <3>1, <3>2 DEF DraftInv, OnItsWay
    <3> QED BY <1>0, <2>1, <3>3 DEF DraftInv, NewestKept
  <2>2. CASE ~(q = x /\ t = "done")
    <3>1. heap[q][1].ver = edits
      BY DEF DraftInv, NewestKept
    <3>2. CASE q # x
      BY <1>0, <3>1, <3>2 DEF DraftInv, NewestKept
    <3>3. CASE q = x
      BY <1>0, <2>2, <3>1, <3>3
    <3> QED BY <3>2, <3>3
  <2> QED BY <2>1, <2>2
<1> QED BY <1>1, <1>2, <1>4, <1>5

\* The request of the newest row brings its version to the provider; that of an older
\* one only if the user retried it.
LEMMA DraftMoves ==
    ASSUME EngineInv, Ranks, DraftInv, Stuck => Stuck', \A f, g \in Flushers : f = g,
           NEW f \in Flushers, Moves(f)
    PROVE  (\A g \in Flushers : OnItsWay(g)') /\ OlderOver' /\ NewestKept' /\ InOrderOfBirth'
<1> USE DraftTypes
<1>0. UNCHANGED <<heap, cur, born, rank, retried, edits>>
  BY DEF Moves
<1>1. OlderOver' /\ InOrderOfBirth'
  BY <1>0, SavesKept DEF DraftInv, OlderOver, InOrderOfBirth, Over, Status
<1>2. CASE flush[f].pc = "scan" /\ flush' = [flush EXCEPT ![f] = NoFlush] /\ drafts' = drafts
  <2>1. flush'[f].pc = "idle"
    BY <1>2
  <2>2. \A g \in Flushers : OnItsWay(g)'
    BY <2>1 DEF OnItsWay
  <2>3. NewestKept'
    BY <1>0, <1>2, SavesKept DEF DraftInv, NewestKept, Stuck, Status
  <2> QED BY <1>1, <2>2, <2>3
<1>3. CASE flush[f].pc = "saved" /\ flush'[f].pc = "calling" /\ drafts' = drafts
  <2>1. /\ flush'[f].row = flush[f].row /\ flush'[f].ver = heap[flush[f].row][1].ver
        /\ Status(flush[f].row) = "inflight"
    BY <1>3 DEF Moves, SameRow, Held, Carrying, DraftInv, OnItsWay
  <2>2. \A g \in Flushers : OnItsWay(g)'
    BY <1>0, <1>3, <2>1 DEF OnItsWay, Status
  <2>3. NewestKept'
    BY <1>0, <1>3, SavesKept DEF DraftInv, NewestKept, Stuck, Status
  <2> QED BY <1>1, <2>2, <2>3
<1>4. CASE flush[f].pc = "calling" /\ flush'[f].pc = "applied"
  <2>0. PICK x \in Rows : x = flush[f].row
    BY <1>4 DEF Carrying
  <2>1. /\ flush'[f].row = x /\ flush'[f].ver = flush[f].ver
        /\ flush[f].ver = heap[x][1].ver /\ Status(x) = "inflight" /\ cur[x] = 1
        /\ Kind[x] # "save_draft" => drafts' = drafts
    BY <1>4, <2>0 DEF Moves, SameRow, Carrying, DraftInv, OnItsWay
  <2>2. ASSUME Kind[x] = "save_draft"
        PROVE  /\ flush'[f].pid \in 1..MaxDrafts
               /\ drafts'[flush'[f].pid] = heap[x][1].ver
               /\ drafts' = [drafts EXCEPT ![flush'[f].pid] = heap[x][1].ver]
    BY <1>4, <2>0, <2>1, <2>2 DEF Moves
  <2>3. \A g \in Flushers : OnItsWay(g)'
    BY <1>0, <1>4, <2>1, <2>2 DEF OnItsWay, Status
  <2>4. NewestKept'
    <3> SUFFICES ASSUME NEW q \in Rows, Newest(q), ~Stuck
                 PROVE  /\ heap[q][1].ver = edits
                        /\ Status(q) = "done" =>
                              \E p \in 1..MaxDrafts : drafts'[p] = heap[q][1].ver
      BY <1>0, SavesKept DEF NewestKept, Stuck, Status
    <3>1. CASE Kind[x] # "save_draft"
      BY <2>1, <3>1 DEF DraftInv, NewestKept
    <3>2. CASE Kind[x] = "save_draft" /\ Status(q) # "done"
      BY <3>2 DEF DraftInv, NewestKept
    <3>3. CASE Kind[x] = "save_draft" /\ Status(q) = "done"
      <4>1. x \in Saves /\ q \in Saves /\ x # q /\ born[x] < born[q]
        BY <2>1, <3>3 DEF Saves, Newest
      <4>2. x \in retried
        BY <2>1, <3>3, <4>1 DEF DraftInv, OlderOver, Over, Settled
      <4> QED BY <4>1, <4>2 DEF Stuck
    <3> QED BY <3>1, <3>2, <3>3
  <2> QED BY <1>1, <2>3, <2>4
<1> QED BY <1>2, <1>3, <1>4 DEF Moves

\* The clock and the store touch no object.
LEMMA DraftRests ==
    ASSUME EngineInv, Ranks, DraftInv, Waits \/ Pops
    PROVE  (\A g \in Flushers : OnItsWay(g)') /\ OlderOver' /\ NewestKept' /\ InOrderOfBirth'
<1> USE DraftTypes
<1>1. /\ UNCHANGED <<cur, born, rank, retried, edits, drafts>>
      /\ \A q \in Rows : cur[q] = 1 => heap'[q][1] = heap[q][1]
  BY DEF Waits, Pops
<1>2. \A q \in Saves : Status(q)' = Status(q) /\ heap'[q][1] = heap[q][1]
  BY <1>1 DEF Saves, Status
<1>3. OlderOver' /\ NewestKept' /\ InOrderOfBirth'
  <2>1. OlderOver'
    BY <1>1, <1>2, SavesKept DEF DraftInv, OlderOver, Over
  <2>2. Stuck' <=> Stuck
    BY <1>1, <1>2, SavesKept DEF Stuck
  <2>3. NewestKept'
    BY <1>1, <1>2, <2>2, SavesKept DEF DraftInv, NewestKept, Newest
  <2>4. InOrderOfBirth'
    BY <1>1 DEF DraftInv, InOrderOfBirth
  <2> QED BY <2>1, <2>3, <2>4
<1>4. ASSUME NEW g \in Flushers PROVE OnItsWay(g)'
  <2>1. CASE flush'[g] = flush[g]
    <3>1. flush[g].pc \in {"saving", "saved", "calling", "applied"} =>
            heap'[flush[g].row][1] = heap[flush[g].row][1]
      BY <1>1 DEF Carrying
    <3> QED BY <1>1, <2>1, <3>1 DEF DraftInv, OnItsWay, Status
  <2>2. CASE flush'[g].pc \notin {"saving", "saved", "calling", "applied"}
    BY <2>2 DEF OnItsWay
  <2>3. CASE flush[g].pc = "saving" /\ flush'[g].pc = "saved" /\ SameRow(g)
    <3>1. heap'[flush[g].row][1] = heap[flush[g].row][1]
      BY <1>1, <2>3 DEF Carrying
    <3> QED BY <2>3, <3>1 DEF DraftInv, OnItsWay, Status, SameRow
  <2> QED BY <2>1, <2>2, <2>3 DEF Waits, Pops, Resumes
<1> QED BY <1>3, <1>4

LEMMA DraftNext ==
    ASSUME ~Rehydrates, MaxCrashes = 0, \A f, g \in Flushers : f = g,
           EngineInv, Ranks, Passed, DraftInv, [Next]_vars
    PROVE  DraftInv'
<1>1. Stuck => Stuck'
  BY StuckStays
<1>2. OnlyMutations'
  BY OnlyMutationsNext DEF DraftInv
<1>3. ASSUME NEW x \in Rows, Enters(x) \/ Retries(x) \/ \E t \in Statuses : Edits(x, t)
      PROVE  DraftInv'
  BY <1>1, <1>2, <1>3, DraftEnters, DraftEdits DEF DraftInv
<1>4. ASSUME NEW f \in Flushers, NEW x \in Rows, Takes(f, x) PROVE DraftInv'
  BY <1>1, <1>2, <1>4, DraftTakes DEF DraftInv
<1>5. ASSUME NEW f \in Flushers, NEW t \in {"done", "failed"}, Finishes(f, t)
      PROVE  DraftInv'
  BY <1>1, <1>2, <1>5, DraftFinishes DEF DraftInv
<1>6. ASSUME NEW f \in Flushers, Moves(f) PROVE DraftInv'
  BY <1>1, <1>2, <1>6, DraftMoves DEF DraftInv
<1>7. CASE Waits \/ Pops
  BY <1>2, <1>7, DraftRests DEF DraftInv
<1>8. ~Restarts
  BY DEF Restarts
<1> QED BY <1>3, <1>4, <1>5, <1>6, <1>7, <1>8, StepKinds DEF StepKind

\* Of the rows of the draft one is the newest.
LEMMA NewestExists ==
    ASSUME born \in [Rows -> Nat], tick \in Nat, \A r \in Rows : born[r] < tick, Saves # {}
    PROVE  \E q \in Rows : Newest(q)
<1> DEFINE ages == {tick - born[r] : r \in Saves}
<1>1. ages \subseteq Nat /\ ages # {}
  BY DEF Saves
<1>2. PICK a \in ages : \A b \in ages : a <= b
  BY <1>1, LeastNatural
<1>3. PICK q \in Saves : a = tick - born[q]
  BY <1>2
<1>4. ASSUME NEW r \in Saves PROVE born[r] <= born[q]
  <2>1. a <= tick - born[r]
    BY <1>2
  <2> QED BY <1>3, <2>1 DEF Saves
<1> QED BY <1>3, <1>4 DEF Newest, Saves

\* NewestDraftKept (enqueue, flushOutbox): as long as calls of flushOutbox do not overlap,
\* hydrateLocal is not called again and the application does not stop, the provider holds
\* the newest version of the draft when every row of it is done, for any number of rows,
\* versions and rejected commands, unless the user retried a row after a newer one was
\* added.
THEOREM NewestDraft ==
    ASSUME ~Rehydrates, MaxCrashes = 0, \A f, g \in Flushers : f = g
    PROVE  Spec => []NewestDraftKept
<1> DEFINE I == EngineInv /\ Ranks /\ Passed /\ DraftInv
<1>1. Init => I
  <2> SUFFICES ASSUME Init PROVE I
    OBVIOUS
  <2>1. DraftInv
    BY OutboxAssumption DEF Init, DraftInv, OnItsWay, OlderOver, NewestKept, OnlyMutations,
       InOrderOfBirth, Newest, Saves, NoFlush
  <2>2. Ranks /\ Passed
    BY RanksInit
  <2> QED BY <2>1, <2>2, EngineInit
<1>2. I /\ [Next]_vars => I'
  BY EngineNext, RanksNext, PassedNext, DraftNext
<1>3. I => NewestDraftKept
  <2> SUFFICES ASSUME I, Saves # {}, ~\E q, r \in Saves : r \in retried /\ born[r] < born[q],
                      \A r \in Saves : InMap(r) /\ Live(r).status = "done"
               PROVE  \E p \in 1..MaxDrafts : drafts[p] = edits
    BY DEF NewestDraftKept, Saves
  <2>1. PICK q \in Rows : Newest(q)
    BY DraftTypes, NewestExists
  <2>2. \A r \in Saves : Status(r) = "done"
    BY DraftTypes DEF Saves, Status, Live
  <2>3. ~Stuck
    BY <2>2 DEF Stuck
  <2> QED BY <2>1, <2>2, <2>3 DEF DraftInv, NewestKept, Newest
<1> QED BY <1>1, <1>2, <1>3, PTL DEF Spec

=============================================================================
