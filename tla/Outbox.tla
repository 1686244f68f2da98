------------------------------- MODULE Outbox -------------------------------
(***************************************************************************)
(* The durable outbox of NativeGmailSyncEngine (native-sync.ts): every     *)
(* change the user makes is a row that is kept in the engine's Map, written *)
(* to the encrypted store, and carried to the mail provider by flushOutbox. *)
(*                                                                         *)
(* JavaScript runs one piece of code at a time and interleaves only at an  *)
(* await, so an action is the code between two awaits.  The asynchronous   *)
(* parts are the calls of flushOutbox (several run at once: the 15 s       *)
(* timer, the undo timers, compose, the refresh, the MCP host), the loop of *)
(* enqueue that cancels drafts, and hydrateLocal.  The store commands are  *)
(* executed by the shell one at a time, in the order they were invoked.    *)
(*                                                                         *)
(* One account and one composed draft: rows of other accounts or drafts    *)
(* are skipped by every filter of the code.                                *)
(***************************************************************************)
EXTENDS Naturals, Sequences, FiniteSets

CONSTANTS
    N,            \* number of mutation ids the model can hand out
    Kind,         \* Kind[r]: the mutation kind of the row with id r
    HeldRows,     \* rows enqueued with an availableAt in the future
    Flushers,     \* calls of flushOutbox that may be running at once
    Slots,        \* places for the objects of one row (see GC)
    MaxEdits,     \* versions of the composed draft
    MaxDrafts,    \* drafts the provider may create
    MaxCrashes,   \* how often the application may stop and start again
    MaxPending,   \* store commands that may wait when the user acts
    MaxFaults,    \* how many store commands may be rejected
    Rehydrates    \* whether hydrateLocal runs again while the engine is in use

ASSUME OutboxAssumption ==
    /\ N \in Nat
    /\ Kind \in [1..N -> {"save_draft", "send", "mutation"}]
    /\ HeldRows \subseteq {r \in 1..N : Kind[r] # "save_draft"}
    /\ MaxEdits \in Nat /\ MaxDrafts \in Nat
    /\ MaxCrashes \in Nat /\ MaxFaults \in Nat /\ MaxPending \in Nat
    /\ Slots \subseteq Nat /\ 1 \in Slots /\ 0 \notin Slots
    /\ Rehydrates \in BOOLEAN
    /\ Flushers \cap {"send", "undo", "user", "list"} = {}

VARIABLES
    heap,     \* heap[r][s]: the OutboxMutation object of row r in slot s
    cur,      \* cur[r]: the slot of the object the Map holds for r, 0 if none
    rank,     \* rank[r]: position of r in the iteration order of the Map
    tick,     \* the next position
    due,      \* rows whose availableAt, if they have one, has been reached
    disk,     \* disk[r]: the encrypted outbox record of r
    ipc,      \* store commands invoked and not yet executed
    flush,    \* flush[f]: a running call of flushOutbox
    enq,      \* the call of enqueue("send") that is cancelling drafts
    hydr,     \* a running call of hydrateLocal
    done,     \* completedMutations of the Gmail provider object
    sent,     \* sent[r]: effects of r at the provider, counted up to two
    drafts,   \* drafts[p]: version held by the provider's draft p, 0 if none
    edits,    \* versions of the composed draft so far
    born,     \* born[r]: when r was enqueued, 0 while the id is unused
    undone,   \* rows whose cancellation was confirmed to the user, asked for while
              \* no effect had occurred and no flush was about to cause one
    retried,  \* rows the user retried that have not failed again
    crashes, faults

memVars == <<heap, cur, rank, done>>
userVars == <<tick, due, edits, born>>
worldVars == <<sent, drafts>>
wishVars == <<undone, retried>>
envVars == <<crashes, faults>>
vars == <<heap, cur, rank, done, tick, due, edits, born, disk, ipc,
          flush, enq, hydr, sent, drafts, undone, retried,
          crashes, faults>>

-----------------------------------------------------------------------------
(* Data *)

Rows == 1..N
Statuses == {"pending", "inflight", "failed", "done", "cancelled"}
Settled == {"failed", "done", "cancelled"}

\* A row object.  ver is the draft content in the payload, pid the
\* providerDraftId in it (0: none); "none" stands for "no such object".
Obj == [status : Statuses \cup {"none"}, ver : 0..MaxEdits, pid : 0..MaxDrafts]
NoObj == [status |-> "none", ver |-> 0, pid |-> 0]

\* A command sent to the shell: put_durable_record of a row's outbox record
\* (the "mutation" copy is never read back), or list_durable_records.
Command == [row : 0..N, obj : Obj,
            by : Flushers \cup {"send", "undo", "user", "list"}]

FlushPc == {"idle", "scan", "saving", "saved", "calling", "applied", "settling"}
Flush == [pc : FlushPc, at : Nat, row : 0..N, slot : Slots \cup {0},
          ver : 0..MaxEdits, pid : 0..MaxDrafts]
NoFlush == [pc |-> "idle", at |-> 0, row |-> 0, slot |-> 0, ver |-> 0, pid |-> 0]
NoSend == [pc |-> "idle", at |-> 0]
NoHydrate == [pc |-> "idle", rows |-> [r \in Rows |-> NoObj]]

TypeOK ==
    /\ heap \in [Rows -> [Slots -> Obj]]
    /\ cur \in [Rows -> Slots \cup {0}]
    /\ rank \in [Rows -> Nat]
    /\ tick \in Nat
    /\ due \subseteq Rows
    /\ disk \in [Rows -> Obj]
    /\ ipc \in Seq(Command)
    /\ flush \in [Flushers -> Flush]
    /\ enq \in [pc : {"idle", "waiting", "resume"}, at : Nat]
    /\ hydr \in [pc : {"idle", "listing", "listed"}, rows : [Rows -> Obj]]
    /\ done \subseteq Rows
    /\ sent \in [Rows -> 0..2]
    /\ drafts \in [1..MaxDrafts -> 0..MaxEdits]
    /\ edits \in 0..MaxEdits
    /\ born \in [Rows -> Nat]
    /\ undone \subseteq Rows
    /\ retried \subseteq Rows
    /\ crashes \in 0..MaxCrashes
    /\ faults \in 0..MaxFaults

-----------------------------------------------------------------------------
(* Helpers *)

InMap(r) == cur[r] # 0
Live(r) == heap[r][cur[r]]
Unused == {r \in Rows : born[r] = 0}

\* An object that neither the Map nor a running flush refers to is gone.
GC(h, c, fl) ==
    [r \in Rows |-> [s \in Slots |->
        IF s = c[r] \/ \E f \in Flushers : fl[f].row = r /\ fl[f].slot = s
        THEN h[r][s] ELSE NoObj]]

Put(r, o, by) == ipc' = Append(ipc, [row |-> r, obj |-> o, by |-> by])

\* The first row of S in the iteration order of the Map.
FirstOf(r, S) == r \in S /\ \A q \in S : rank[r] <= rank[q]

\* A new row object enters the Map and its record is sent to the store.
Add(r, k, o) ==
    /\ r \in Unused /\ Kind[r] = k
    /\ heap' = [heap EXCEPT ![r][1] = o]
    /\ cur' = [cur EXCEPT ![r] = 1]
    /\ rank' = [rank EXCEPT ![r] = tick]
    /\ born' = [born EXCEPT ![r] = tick]
    /\ tick' = tick + 1
    /\ Put(r, o, "user")

Init ==
    /\ heap = [r \in Rows |-> [s \in Slots |-> NoObj]]
    /\ cur = [r \in Rows |-> 0]
    /\ rank = [r \in Rows |-> 0]
    /\ tick = N + 1
    /\ due = Rows \ HeldRows
    /\ disk = [r \in Rows |-> NoObj]
    /\ ipc = <<>>
    /\ flush = [f \in Flushers |-> NoFlush]
    /\ enq = NoSend
    /\ hydr = NoHydrate
    /\ done = {}
    /\ sent = [r \in Rows |-> 0]
    /\ drafts = [p \in 1..MaxDrafts |-> 0]
    /\ edits = 0
    /\ born = [r \in Rows |-> 0]
    /\ undone = {}
    /\ retried = {}
    /\ crashes = 0
    /\ faults = 0

-----------------------------------------------------------------------------
(* enqueue, cancelOutbox, retryOutbox: called from the interface and by MCP *)

\* The save_draft rows the user could still change.
OpenDrafts == {r \in Rows : /\ InMap(r) /\ Kind[r] = "save_draft"
                            /\ Live(r).status \in {"pending", "failed"}}

\* priorProviderDraftId: the first providerDraftId among all save_draft rows.
PriorDraftId ==
    LET known == {r \in Rows : /\ InMap(r) /\ Kind[r] = "save_draft"
                               /\ Live(r).pid # 0}
    IN  IF known = {} THEN 0
        ELSE Live(CHOOSE r \in known : FirstOf(r, known)).pid

\* Mutant of CoalesceDraft: the open row keeps its old payload.
MutantKeepsPayload(r) ==
    /\ edits < MaxEdits
    /\ edits' = edits + 1
    /\ FirstOf(r, OpenDrafts)
    /\ Put(r, Live(r), "user")
    /\ UNCHANGED <<heap, cur, rank, done, tick, due, born, disk, flush, enq,
                   hydr, worldVars, wishVars, envVars>>

\* enqueue("save_draft") with an open row: its payload is replaced, a failed
\* row stays failed.
CoalesceDraft(r) ==
    /\ edits < MaxEdits
    /\ edits' = edits + 1
    /\ FirstOf(r, OpenDrafts)
    /\ LET o == [Live(r) EXCEPT !.ver = edits + 1, !.pid = PriorDraftId]
       IN  /\ heap' = [heap EXCEPT ![r][cur[r]] = o]
           /\ Put(r, o, "user")
    /\ UNCHANGED <<cur, rank, done, tick, due, born, disk, flush, enq,
                   hydr, worldVars, wishVars, envVars>>

\* enqueue("save_draft") otherwise: a new row, with the provider draft id of
\* an earlier one.
NewDraft(r) ==
    /\ edits < MaxEdits
    /\ edits' = edits + 1
    /\ OpenDrafts = {}
    /\ Add(r, "save_draft",
           [status |-> "pending", ver |-> edits + 1, pid |-> PriorDraftId])
    /\ UNCHANGED <<done, due, disk, flush, enq, hydr, worldVars, wishVars, envVars>>

\* enqueue of a label, read-state, archive, ... mutation, at once or after
\* the undo window.
NewMutation(r) ==
    /\ Add(r, "mutation", [status |-> "pending", ver |-> 0, pid |-> 0])
    /\ UNCHANGED <<done, due, edits, disk, flush, enq, hydr, worldVars, wishVars,
                   envVars>>

\* enqueue("send"): the loop over the Map cancels the next open draft row and
\* awaits its store command; behind the last one the send row is added.
SendCancelsDraft(r) ==
    /\ enq.pc = "resume" \/ (enq.pc = "idle" /\ Unused # {})
    /\ FirstOf(r, {q \in OpenDrafts : rank[q] > enq.at})
    /\ LET o == [Live(r) EXCEPT !.status = "cancelled"]
       IN  /\ heap' = [heap EXCEPT ![r][cur[r]] = o]
           /\ Put(r, o, "send")
    /\ enq' = [pc |-> "waiting", at |-> rank[r]]
    /\ UNCHANGED <<cur, rank, done, userVars, disk, flush, hydr, worldVars,
                   wishVars, envVars>>

NewSend(r) ==
    /\ enq.pc \in {"idle", "resume"}
    /\ {q \in OpenDrafts : rank[q] > enq.at} = {}
    /\ Add(r, "send", [status |-> "pending", ver |-> edits, pid |-> 0])
    /\ enq' = NoSend
    /\ UNCHANGED <<done, due, edits, disk, flush, hydr, worldVars, wishVars,
                   envVars>>

\* Flush f has taken r and has yet to send it.
AboutToSend(f, r) == flush[f].row = r /\ flush[f].pc \in {"saving", "saved", "calling"}

\* cancelOutbox, from the undo toast or the outbox panel.  The command of a
\* row the provider has not seen, and no flush is about to show it, is marked
\* "undo".
CancelOutbox(r) ==
    /\ InMap(r) /\ Live(r).status = "pending"
    /\ LET o == [Live(r) EXCEPT !.status = "cancelled"]
           final == sent[r] = 0 /\ \A f \in Flushers : ~AboutToSend(f, r)
       IN  /\ heap' = [heap EXCEPT ![r][cur[r]] = o]
           /\ Put(r, o, IF final THEN "undo" ELSE "user")
    /\ UNCHANGED <<cur, rank, done, userVars, disk, flush, enq, hydr,
                   worldVars, wishVars, envVars>>

\* retryOutbox: pending again, although an overlapping flush may still have it.
RetryOutbox(r) ==
    /\ InMap(r) /\ Live(r).status = "failed"
    /\ LET o == [Live(r) EXCEPT !.status = "pending"]
       IN  /\ heap' = [heap EXCEPT ![r][cur[r]] = o]
           /\ Put(r, o, "user")
    /\ retried' = retried \cup {r}
    /\ UNCHANGED <<cur, rank, done, userVars, disk, flush, enq, hydr,
                   worldVars, undone, envVars>>

\* The clock passes availableAt of r.
AvailableAt(r) ==
    /\ born[r] # 0 /\ r \notin due
    /\ due' = due \cup {r}
    /\ UNCHANGED <<memVars, tick, edits, born, disk, ipc, flush, enq,
                   hydr, worldVars, wishVars, envVars>>

-----------------------------------------------------------------------------
(* flushOutbox *)

\* Mutants of Eligible: a skip test of the loop is missing or too strong.
MutantTakesCancelled(r) ==
    InMap(r) /\ Live(r).status \notin {"failed", "done"} /\ r \in due
MutantTakesFailed(r) ==
    InMap(r) /\ Live(r).status \notin {"cancelled", "done"} /\ r \in due
MutantTakesPending(r) == InMap(r) /\ Live(r).status = "pending" /\ r \in due
MutantTakesEarly(r) == InMap(r) /\ Live(r).status \notin Settled

\* A row the loop does not skip.  A row that is inflight, because another
\* call or an earlier run of the application left it so, is taken again.
Eligible(r) == /\ InMap(r)
               /\ Live(r).status \notin Settled
               /\ r \in due

Ahead(f) == {r \in Rows : Eligible(r) /\ rank[r] > flush[f].at}

\* Mutant of TakeRow: the call does not await its store commands.
MutantTakesUnawaited(f, r) ==
    /\ flush[f].pc \in {"idle", "scan"}
    /\ FirstOf(r, Ahead(f))
    /\ LET o == [Live(r) EXCEPT !.status = "inflight"]
       IN  /\ flush' = [flush EXCEPT ![f] = [NoFlush EXCEPT !.pc = "saved",
                            !.at = rank[r], !.row = r, !.slot = cur[r]]]
           /\ heap' = [heap EXCEPT ![r][cur[r]] = o]
           /\ Put(r, o, "user")
    /\ UNCHANGED <<cur, rank, done, userVars, disk, enq, hydr, worldVars,
                   wishVars, envVars>>

\* From the start of the call or the end of an iteration to the next row:
\* inflight in memory, its command on the way.
TakeRow(f, r) ==
    /\ flush[f].pc \in {"idle", "scan"}
    /\ FirstOf(r, Ahead(f))
    /\ LET o == [Live(r) EXCEPT !.status = "inflight"]
       IN  /\ flush' = [flush EXCEPT ![f] = [NoFlush EXCEPT !.pc = "saving",
                            !.at = rank[r], !.row = r, !.slot = cur[r]]]
           /\ heap' = [heap EXCEPT ![r][cur[r]] = o]
           /\ Put(r, o, f)
    /\ UNCHANGED <<cur, rank, done, userVars, disk, enq, hydr, worldVars,
                   wishVars, envVars>>

\* The end of the loop: the call returns.
EndFlush(f) ==
    /\ flush[f].pc = "scan"
    /\ Ahead(f) = {}
    /\ flush' = [flush EXCEPT ![f] = NoFlush]
    /\ UNCHANGED <<memVars, userVars, disk, ipc, enq, hydr, worldVars,
                   wishVars, envVars>>

\* The row object gets its outcome and the command that stores it.
Settle(f, o) ==
    LET r == flush[f].row
    IN  /\ heap' = [heap EXCEPT ![r][flush[f].slot] = o]
        /\ Put(r, o, f)
        /\ flush' = [flush EXCEPT ![f].pc = "settling", ![f].ver = 0, ![f].pid = 0]

Held(f) == heap[flush[f].row][flush[f].slot]

\* The stored row is handed to the provider with the payload it has now.
\* applyMutation returns at once for a mutation this session has completed.
CallProvider(f) ==
    /\ flush[f].pc = "saved"
    /\ IF flush[f].row \in done
       THEN Settle(f, [Held(f) EXCEPT !.status = "done"])
       ELSE /\ flush' = [flush EXCEPT ![f].pc = "calling",
                            ![f].ver = Held(f).ver, ![f].pid = Held(f).pid]
            /\ UNCHANGED <<heap, ipc>>
    /\ UNCHANGED <<cur, rank, done, userVars, disk, enq, hydr, worldVars,
                   wishVars, envVars>>

\* The request takes effect: a draft without an id is created, one with an id
\* is replaced.  There is no answer yet.
ProviderApplies(f) ==
    /\ flush[f].pc = "calling"
    /\ LET r == flush[f].row
       IN  /\ sent' = [sent EXCEPT ![r] = IF @ = 2 THEN 2 ELSE @ + 1]
           /\ \/ /\ Kind[r] # "save_draft"
                 /\ flush' = [flush EXCEPT ![f].pc = "applied"]
                 /\ UNCHANGED drafts
              \/ /\ Kind[r] = "save_draft"
                 /\ \E p \in 1..MaxDrafts :
                       /\ \/ p = flush[f].pid
                          \/ /\ flush[f].pid = 0 /\ drafts[p] = 0
                             /\ \A q \in 1..(p - 1) : drafts[q] # 0
                       /\ drafts' = [drafts EXCEPT ![p] = flush[f].ver]
                       /\ flush' = [flush EXCEPT ![f].pc = "applied",
                                                 ![f].pid = p]
    /\ UNCHANGED <<memVars, userVars, disk, ipc, enq, hydr, wishVars, envVars>>

\* The answer arrives: the row is done, a draft row learns its provider id.
ProviderAnswers(f) ==
    /\ flush[f].pc = "applied"
    /\ Settle(f, [Held(f) EXCEPT !.status = "done",
                    !.pid = IF Kind[flush[f].row] = "save_draft"
                            THEN flush[f].pid ELSE @])
    /\ done' = IF Kind[flush[f].row] = "mutation"
               THEN done \cup {flush[f].row} ELSE done
    /\ UNCHANGED <<cur, rank, userVars, disk, enq, hydr, worldVars, wishVars,
                   envVars>>

\* The catch block of the loop.
CatchSets(f, status) ==
    /\ flush[f].pc \in {"calling", "applied"}
    /\ Settle(f, [Held(f) EXCEPT !.status = status])
    /\ retried' = retried \ {flush[f].row}
    /\ UNCHANGED <<cur, rank, done, userVars, disk, enq, hydr, worldVars,
                   undone, envVars>>

\* Mutants of ProviderThrows: the catch block sets another status.
MutantErrorIsDone(f) == CatchSets(f, "done")
MutantErrorRequeues(f) == CatchSets(f, "pending")
MutantErrorStatus(f) == CatchSets(f, "error")

\* The call throws: refused before it had an effect, or its answer was lost.
ProviderThrows(f) == CatchSets(f, "failed")

-----------------------------------------------------------------------------
(* The store, hydrateLocal, and the life of the application *)

\* The flush that awaited command c goes on: with the call, or with the next
\* row of its loop.
Resumed(c) ==
    [f \in Flushers |->
        IF f # c.by THEN flush[f]
        ELSE IF flush[f].pc = "saving" THEN [flush[f] EXCEPT !.pc = "saved"]
        ELSE [NoFlush EXCEPT !.pc = "scan", !.at = flush[f].at]]

StoreExecutes ==
    /\ ipc # <<>>
    /\ ipc' = Tail(ipc)
    /\ LET c == Head(ipc)
       IN  /\ disk' = IF c.by = "list" THEN disk
                      ELSE [disk EXCEPT ![c.row] = c.obj]
           /\ flush' = Resumed(c)
           /\ enq' = IF c.by = "send" THEN [enq EXCEPT !.pc = "resume"] ELSE enq
           /\ hydr' = IF c.by = "list" THEN [pc |-> "listed", rows |-> disk]
                      ELSE hydr
           /\ undone' = IF c.by = "undo" /\ sent[c.row] = 0
                        THEN undone \cup {c.row} ELSE undone
    /\ heap' = GC(heap, cur, flush')
    /\ UNCHANGED <<cur, rank, done, userVars, worldVars, retried,
                   envVars>>

\* A command is rejected; of the two puts of a row the outbox one may still
\* have been executed.  The call that awaited it throws.
StoreRejects ==
    /\ ipc # <<>>
    /\ faults < MaxFaults
    /\ faults' = faults + 1
    /\ ipc' = Tail(ipc)
    /\ LET c == Head(ipc)
       IN  /\ disk' \in {disk, IF c.by = "list" THEN disk
                               ELSE [disk EXCEPT ![c.row] = c.obj]}
           /\ flush' = [f \in Flushers |->
                            IF f = c.by THEN NoFlush ELSE flush[f]]
           /\ enq' = IF c.by = "send" THEN NoSend ELSE enq
           /\ hydr' = IF c.by = "list" THEN NoHydrate ELSE hydr
    /\ heap' = GC(heap, cur, flush')
    /\ UNCHANGED <<cur, rank, done, userVars, worldVars, wishVars, crashes>>

\* hydrateLocal while the engine is in use (an MCP search or read).
HydrateStart ==
    /\ Rehydrates /\ hydr.pc = "idle"
    /\ hydr' = [hydr EXCEPT !.pc = "listing"]
    /\ ipc' = Append(ipc, [row |-> 0, obj |-> NoObj, by |-> "list"])
    /\ UNCHANGED <<memVars, userVars, disk, flush, enq, worldVars, wishVars,
                   envVars>>

\* The listed records become fresh objects in the Map; a running flush keeps
\* the object it holds.  A slot no flush holds is taken for each.
HydrateSets ==
    /\ hydr.pc = "listed"
    /\ LET listed == {r \in Rows : hydr.rows[r].status # "none"}
           free(r, s) == \A f \in Flushers :
                            ~(flush[f].row = r /\ flush[f].slot = s)
       IN  \E new \in [listed -> Slots] :
              /\ \A r \in listed : /\ free(r, new[r])
                                   /\ \A s \in Slots : s < new[r] => ~free(r, s)
              /\ cur' = [r \in Rows |-> IF r \in listed THEN new[r] ELSE cur[r]]
              /\ heap' = GC([r \in Rows |-> IF r \in listed
                               THEN [heap[r] EXCEPT ![new[r]] = hydr.rows[r]]
                               ELSE heap[r]], cur', flush)
    /\ hydr' = NoHydrate
    /\ UNCHANGED <<rank, done, userVars, disk, ipc, flush, enq, worldVars,
                   wishVars, envVars>>

\* The application stops, losing memory and unexecuted commands, and starts
\* again: hydrateLocal fills the Map in the order of the random row ids.
Restart ==
    /\ crashes < MaxCrashes
    /\ crashes' = crashes + 1
    /\ cur' = [r \in Rows |-> IF disk[r].status = "none" THEN 0 ELSE 1]
    /\ heap' = [r \in Rows |-> [s \in Slots |->
                    IF s = 1 THEN disk[r] ELSE NoObj]]
    /\ rank' = [r \in Rows |-> r]
    /\ done' = {}
    /\ ipc' = <<>>
    /\ flush' = [f \in Flushers |-> NoFlush]
    /\ enq' = NoSend
    /\ hydr' = NoHydrate
    /\ UNCHANGED <<userVars, disk, worldVars, wishVars, faults>>

-----------------------------------------------------------------------------
FlushStep(f) ==
    \/ \E r \in Rows : TakeRow(f, r)
    \/ EndFlush(f)
    \/ CallProvider(f)
    \/ ProviderApplies(f)
    \/ ProviderAnswers(f)
    \/ ProviderThrows(f)

UserStep(r) ==
    /\ Len(ipc) < MaxPending
    /\ \/ CoalesceDraft(r) \/ NewDraft(r) \/ NewMutation(r) \/ NewSend(r)
       \/ SendCancelsDraft(r) \/ CancelOutbox(r) \/ RetryOutbox(r)

Next ==
    \/ \E f \in Flushers : FlushStep(f)
    \/ \E r \in Rows : UserStep(r) \/ AvailableAt(r)
    \/ StoreExecutes \/ StoreRejects
    \/ HydrateStart \/ HydrateSets
    \/ Restart

Spec == Init /\ [][Next]_vars

\* The shell executes commands, a hydrated list is delivered, the provider
\* answers or the request fails, and the timer keeps calling flushOutbox; the
\* user, the clock, restarts and faults owe nothing.
LiveSpec ==
    /\ Spec
    /\ WF_vars(StoreExecutes)
    /\ WF_vars(HydrateSets)
    /\ \A f \in Flushers : WF_vars(FlushStep(f))

-----------------------------------------------------------------------------
(* Properties *)

\* A row shown or stored as done has had its effect at the provider: no
\* overlap, stale list, fault or restart turns a row into done on its own.
DoneMeansDelivered ==
    \A r \in Rows :
        (InMap(r) /\ Live(r).status = "done") \/ disk[r].status = "done"
            => sent[r] > 0

\* A row held back by its undo window or a scheduled time has no effect before
\* that time, whichever call of flushOutbox comes along (availableAt).
HeldRowsWait ==
    [][\A r \in Rows : sent'[r] # sent[r] => r \in due]_vars

\* No effect at the provider without a stored record of the row: what a stop
\* of the application interrupts is found again ("persist every mutation").
RecordBeforeEffect ==
    [][\A r \in Rows : sent'[r] # sent[r] => disk[r].status # "none"]_vars

\* A confirmed cancellation of a row that had no effect yet is final, whatever
\* flushes, failures and restarts follow, unless a flush was about to send the row
\* when it was cancelled: that flush does not look at the status again.  A row that
\* cancelOutbox accepts is in that danger only when the user has retried it, after
\* one flush failed and while another still had it.
UndoneNeverSent ==
    /\ \A r \in undone : sent[r] = 0
    /\ \A r \in Rows, f \in Flushers :
          AboutToSend(f, r) /\ InMap(r) /\ Live(r).status = "pending" => r \in retried

\* A row whose stored record says failed is taken by a flush only after the
\* user asked for it ("never auto-promote failed").
FailedWaitsForUser ==
    [][\A f \in Flushers : \A r \in Rows :
          TakeRow(f, r) /\ disk[r].status = "failed" => r \in retried]_vars

\* Mutations enqueued since the application started take effect in that order:
\* when r has its first effect, every earlier one has had it, is settled, or
\* was put back in the queue by the user.  Held rows are left out; a rank
\* above N is one that Add gave since the last Restart.
Plain(r) == Kind[r] = "mutation" /\ r \notin HeldRows /\ rank[r] > N
MutationsInOrder ==
    [][\A q, r \in Rows :
          /\ Plain(q) /\ Plain(r) /\ born[q] < born[r]
          /\ sent[r] = 0 /\ sent'[r] > 0
          => \/ sent[q] > 0
             \/ Live(q).status \in Settled
             \/ q \in retried]_vars

\* A message goes out a second time only if the user retried it.
NoDuplicateSend ==
    [][\A r \in Rows :
          /\ Kind[r] = "send"
          /\ sent[r] = 1 /\ sent'[r] = 2
          => r \in retried]_vars

\* When every row of the draft is done, the provider holds the newest version,
\* unless an older row was retried after a newer one of the draft had been added
\* (retryOutbox takes any failed row, and its old payload replaces the draft).
NewestDraftKept ==
    LET saves == {r \in Rows : Kind[r] = "save_draft" /\ born[r] # 0}
        overtaken == \E q, r \in saves : r \in retried /\ born[r] < born[q]
    IN  (/\ saves # {} /\ ~overtaken
         /\ \A r \in saves : InMap(r) /\ Live(r).status = "done")
        => \E p \in 1..MaxDrafts : drafts[p] = edits

\* What was stored and is due is eventually settled, in the Map or, when a
\* stale list keeps replacing the row, in the store: despite restarts and
\* rejected commands no row stays pending or inflight for ever.
StoredRowsSettle ==
    \A r \in Rows :
        disk[r].status # "none" /\ r \in due
            ~> \/ InMap(r) /\ Live(r).status \in Settled
               \/ disk[r].status \in Settled

\* What the contract sees of flush f: the row of a take that is stored, and how far
\* it is.
CarriesOf(f) ==
    IF flush[f].pc \in {"saved", "calling", "applied", "settling"} THEN flush[f].row ELSE 0
StepOf(f) ==
    CASE flush[f].pc \in {"saved", "calling"} -> "taken"
      [] flush[f].pc = "applied" -> "gave"
      [] flush[f].pc = "settling" -> "over"
      [] OTHER -> "none"

\* The outbox implements its contract: each taking is stored before the effect, has
\* one effect at most and reports one outcome; a record that is done or cancelled
\* is neither taken nor queued, and only a flush that had taken it before can
\* still report on it; done is reported only for what was delivered.
Promise == INSTANCE OutboxContract
    WITH report <- [r \in Rows |-> disk[r].status],
         carries <- [f \in Flushers |-> CarriesOf(f)],
         step <- [f \in Flushers |-> StepOf(f)],
         NoRow <- 0
Contract == Promise!Spec
=============================================================================
