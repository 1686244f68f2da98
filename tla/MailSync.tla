------------------------------ MODULE MailSync ------------------------------
(* Synchronisation of one account by NativeGmailSyncEngine (native-sync.ts): *)
(* pullDeltas follows the provider's history from a cursor, syncLabel and   *)
(* the mailbox search add single messages, hydrateLocal reads everything    *)
(* back after a start.  The Gmail adapter (gmail/live.ts) is the caller of   *)
(* the provider, the encrypted database (database.rs) holds records, cursor *)
(* and search index.                                                        *)
(*                                                                         *)
(* An action is the code between two awaits.  Commands to the shell are     *)
(* executed one at a time in the order they were invoked.                   *)
EXTENDS Naturals, Sequences, FiniteSets

CONSTANTS
    Messages,     \* message ids
    Inbox,        \* the messages the bootstrap listing finds
    Attached,     \* the messages with an attachment
    Syncs,        \* running calls of pullDeltas, syncLabel or searchMailbox
    BootstrapLimit, RecentLimit,  \* how many messages the listings are cut off at
    MaxLog,       \* provider changes
    MaxCrashes,   \* how often the application may stop and start again
    MaxFaults,    \* how many requests or store commands may fail
    Rehydrates    \* whether hydrateLocal also runs while syncs are under way

ASSUME MailSyncAssumption ==
    /\ Inbox \subseteq Messages /\ Attached \subseteq Messages
    /\ BootstrapLimit \in Nat /\ RecentLimit \in Nat
    /\ MaxLog \in Nat /\ MaxCrashes \in Nat /\ MaxFaults \in Nat
    /\ Rehydrates \in BOOLEAN
    /\ "hydrate" \notin Syncs

VARIABLES
    log,      \* the provider's history: the message each change was about
    gone,     \* messages expunged at the provider; the last change says so
    cut,      \* the cursor of the last full listing that left a message out
    mem,      \* the engine's Maps: messages, attachments, cursor
    disk,     \* the encrypted records: the same, and the search index
    sync,     \* sync[s]: a running call
    hydr,     \* the call of hydrateLocal
    ready,    \* hydrateLocal has returned since the last start
    ipc,      \* who waits for the shell, in order
    crashes, faults

provider == <<log, gone, cut>>
vars == <<log, gone, cut, mem, disk, sync, hydr, ready, ipc, crashes, faults>>

-----------------------------------------------------------------------------
(* Data *)

\* The content of a message is the number of the change that produced it, 0
\* where there is none.  A cursor is the number of the first change its
\* holder has not seen; 0 is "no cursor", 1 the token "1".
Versions == 0..MaxLog
Cursors == 0..(MaxLog + 1)

LastChange(m, upTo) ==
    LET seen == {i \in 1..upTo : log[i] = m}
    IN  IF seen = {} THEN 0 ELSE CHOOSE i \in seen : \A j \in seen : j <= i

Present == {m \in Messages \ gone : LastChange(m, Len(log)) # 0}
Now == Len(log) + 1

NoMail == [m \in Messages |-> 0]
Mail == [msgs : [Messages -> Versions], atts : SUBSET Messages, cursor : Cursors]
Store == [msgs : [Messages -> Versions], atts : SUBSET Messages, cursor : Cursors,
          index : [Messages -> Versions]]

\* A call: what it was asked to load, what it has loaded, what it deletes,
\* and the cursor it will leave.
Sync == [pc : {"idle", "asked", "profiled", "loading", "loaded", "labels",
               "batch", "index"},
         op : {"pull", "label"}, from : Cursors, token : Cursors, full : BOOLEAN,
         ids : SUBSET Messages, got : [Messages -> Versions],
         dels : SUBSET Messages, attDels : SUBSET Messages]
NoSync == [pc |-> "idle", op |-> "pull", from |-> 0, token |-> 0, full |-> FALSE,
           ids |-> {}, got |-> NoMail, dels |-> {}, attDels |-> {}]
Hydrate == [pc : {"idle", "listing", "listed"}, read : Mail]
NoHydrate == [pc |-> "idle",
              read |-> [msgs |-> NoMail, atts |-> {}, cursor |-> 0]]

TypeOK ==
    /\ log \in Seq(Messages) /\ Len(log) <= MaxLog
    /\ gone \subseteq Messages
    /\ cut \in [Messages -> Cursors]
    /\ mem \in Mail
    /\ disk \in Store
    /\ sync \in [Syncs -> Sync]
    /\ hydr \in Hydrate
    /\ ready \in BOOLEAN
    /\ ipc \in Seq(Syncs \cup {"hydrate"})
    /\ crashes \in 0..MaxCrashes
    /\ faults \in 0..MaxFaults

Init ==
    /\ log = <<>>
    /\ gone = {}
    /\ cut = [m \in Messages |-> 1]
    /\ mem = [msgs |-> NoMail, atts |-> {}, cursor |-> 0]
    /\ disk = [msgs |-> NoMail, atts |-> {}, cursor |-> 0, index |-> NoMail]
    /\ sync = [s \in Syncs |-> NoSync]
    /\ hydr = NoHydrate
    /\ ready = FALSE
    /\ ipc = <<>>
    /\ crashes = 0
    /\ faults = 0

-----------------------------------------------------------------------------
(* The provider's side *)

\* A message arrives or changes its labels; or it is expunged, for ever.
ProviderChanges(m) ==
    /\ Len(log) < MaxLog /\ m \notin gone
    /\ log' = Append(log, m)
    /\ gone' \in IF m \in Present THEN {gone, gone \cup {m}} ELSE {gone}
    /\ UNCHANGED <<cut, mem, disk, sync, hydr, ready, ipc, crashes, faults>>

-----------------------------------------------------------------------------
(* Calls: fetchDeltas and fetchRecentMessages of the Gmail adapter *)

Start(s, op) ==
    /\ ready /\ sync[s].pc = "idle"
    /\ sync' = [sync EXCEPT ![s] = [NoSync EXCEPT !.pc = "asked", !.op = op,
                    !.from = mem.cursor]]
    /\ UNCHANGED <<log, gone, cut, mem, disk, hydr, ready, ipc, crashes, faults>>

\* Mutant of ReadHistory: the next cursor is one too far.
MutantSkipsOne(s) ==
    /\ sync[s].pc = "asked" /\ sync[s].op = "pull" /\ sync[s].from # 0
    /\ LET changed == {log[i] : i \in sync[s].from..Len(log)}
       IN  sync' = [sync EXCEPT ![s].pc = "loading", ![s].token = Now + 1,
                        ![s].ids = changed \ gone, ![s].dels = changed \cap gone]
    /\ UNCHANGED <<log, gone, cut, mem, disk, hydr, ready, ipc, crashes, faults>>

\* The history since the cursor, read to its end: changed messages are to be
\* loaded, expunged ones deleted, and the end is the next cursor.
ReadHistory(s) ==
    /\ sync[s].pc = "asked" /\ sync[s].op = "pull" /\ sync[s].from # 0
    /\ LET changed == {log[i] : i \in sync[s].from..Len(log)}
       IN  sync' = [sync EXCEPT ![s].pc = "loading", ![s].token = Now,
                        ![s].ids = changed \ gone, ![s].dels = changed \cap gone]
    /\ UNCHANGED <<log, gone, cut, mem, disk, hydr, ready, ipc, crashes, faults>>

\* No cursor, or one the provider no longer knows (404): reconcileRecent reads
\* the profile first; its history id will be the cursor.
ReadProfile(s) ==
    /\ sync[s].pc = "asked" /\ sync[s].op = "pull"
    /\ sync[s].from <= Len(log)
    /\ sync' = [sync EXCEPT ![s].pc = "profiled", ![s].token = Now,
                            ![s].full = TRUE]
    /\ UNCHANGED <<log, gone, cut, mem, disk, hydr, ready, ipc, crashes, faults>>

\* A listing that stops at limit messages: all that was found, or as many.  (The
\* provider lists the newest first; which those are, nothing depends on.)
CutOff(found, limit) ==
    {ids \in SUBSET found :
        \/ Cardinality(ids) = limit
        \/ Cardinality(ids) < limit /\ ids = found}

\* The listing behind the profile: the inbox for a bootstrap, all recent mail
\* otherwise, either up to its limit; for syncLabel and the search some of what
\* their query finds.
ListMessages(s) ==
    /\ \/ /\ sync[s].pc = "profiled"
          /\ LET found == IF sync[s].from = 0 THEN Present \cap Inbox ELSE Present
                 limit == IF sync[s].from = 0 THEN BootstrapLimit ELSE RecentLimit
             IN  \E ids \in CutOff(found, limit) :
                    /\ sync' = [sync EXCEPT ![s].pc = "loading", ![s].ids = ids]
                    /\ cut' = [m \in Messages |-> IF m \in found \ ids
                                                  THEN sync[s].token ELSE cut[m]]
       \/ /\ sync[s].pc = "asked" /\ sync[s].op = "label"
          /\ \E found \in SUBSET Present :
                sync' = [sync EXCEPT ![s].pc = "loading", ![s].ids = found]
          /\ UNCHANGED cut
    /\ UNCHANGED <<log, gone, mem, disk, hydr, ready, ipc, crashes, faults>>

\* Mutant of LoadMessage: every failure is skipped, not only a 404.
MutantSkipsFailed(s, m) ==
    /\ sync[s].pc = "loading" /\ m \in sync[s].ids
    /\ sync' \in {[sync EXCEPT ![s].ids = @ \ {m}, ![s].got[m] = v] :
                      v \in {0, LastChange(m, Len(log))}}
    /\ UNCHANGED <<log, gone, cut, mem, disk, hydr, ready, ipc, crashes, faults>>

\* loadMessageBatch: each message as it is by then; one that has been expunged
\* meanwhile is skipped.
LoadMessage(s, m) ==
    /\ sync[s].pc = "loading" /\ m \in sync[s].ids
    /\ sync' = [sync EXCEPT ![s].ids = @ \ {m},
                    ![s].got[m] = IF m \in gone THEN 0 ELSE LastChange(m, Len(log))]
    /\ UNCHANGED <<log, gone, cut, mem, disk, hydr, ready, ipc, crashes, faults>>

Loaded(s) ==
    /\ sync[s].pc = "loading" /\ sync[s].ids = {}
    /\ sync' = [sync EXCEPT ![s].pc = "loaded"]
    /\ UNCHANGED <<log, gone, cut, mem, disk, hydr, ready, ipc, crashes, faults>>

-----------------------------------------------------------------------------
(* Calls: the engine *)

Upserted(s) == {m \in Messages : sync[s].got[m] # 0}

\* The Maps or records d with the upserts of call s.
WithUpserts(d, s) ==
    [d EXCEPT !.msgs = [m \in Messages |-> IF m \in Upserted(s) THEN sync[s].got[m]
                                           ELSE @[m]],
              !.atts = @ \cup (Upserted(s) \cap Attached)]

Without(d, msgs, atts) ==
    [d EXCEPT !.msgs = [m \in Messages |-> IF m \in msgs THEN 0 ELSE @[m]],
              !.atts = @ \ atts]

\* A full reconcile adds every message of the Map that the snapshot lacks to
\* the deletes, those among them that the listing's limit left out.
Deletes(s) ==
    sync[s].dels \cup
        (IF sync[s].full THEN {m \in Messages : mem.msgs[m] # 0} \ Upserted(s)
         ELSE {})

\* ApplyDeltas with the deletes applied to the Map, the attachment deletes
\* asked of the store, and the cursor the Map has from now on.
AppliesDeltas(s, mapDels, attDels, cursor) ==
    /\ sync[s].pc = "loaded" /\ sync[s].op = "pull"
    /\ mem' = [WithUpserts(Without(mem, mapDels, mem.atts \cap mapDels), s)
                   EXCEPT !.cursor = cursor]
    /\ sync' = [sync EXCEPT ![s].pc = "labels", ![s].dels = Deletes(s),
                            ![s].attDels = attDels]
    /\ UNCHANGED <<log, gone, cut, disk, hydr, ready, ipc, crashes, faults>>

\* Mutant of ApplyDeltas: the Map has the new cursor before the batch is stored.
MutantCursorFirst(s) ==
    AppliesDeltas(s, Deletes(s), mem.atts \cap Deletes(s), sync[s].token)

\* pullDeltas after fetchDeltas: the Map drops and adds, the attachments to
\* delete are those the Map has.  Then the labels are requested.
ApplyDeltas(s) ==
    AppliesDeltas(s, Deletes(s), mem.atts \cap Deletes(s), mem.cursor)

\* Mutant of ApplyFound: the batch always carries the token "1".
MutantTokenOne(s) ==
    /\ sync[s].pc = "loaded" /\ sync[s].op = "label"
    /\ mem' = WithUpserts(mem, s)
    /\ sync' = [sync EXCEPT ![s].pc = "batch", ![s].token = 1]
    /\ ipc' = Append(ipc, s)
    /\ UNCHANGED <<log, gone, cut, disk, hydr, ready, crashes, faults>>

\* syncLabel and ingestSearchUpserts: no deletes, and the batch carries the
\* cursor the Map has, or the token "1".
ApplyFound(s) ==
    /\ sync[s].pc = "loaded" /\ sync[s].op = "label"
    /\ mem' = WithUpserts(mem, s)
    /\ sync' = [sync EXCEPT ![s].pc = "batch",
                    ![s].token = IF mem.cursor = 0 THEN 1 ELSE mem.cursor]
    /\ ipc' = Append(ipc, s)
    /\ UNCHANGED <<log, gone, cut, disk, hydr, ready, crashes, faults>>

\* The labels arrive: applySyncBatch is invoked.
LabelsArrive(s) ==
    /\ sync[s].pc = "labels"
    /\ sync' = [sync EXCEPT ![s].pc = "batch"]
    /\ ipc' = Append(ipc, s)
    /\ UNCHANGED <<log, gone, cut, mem, disk, hydr, ready, crashes, faults>>

\* A request fails and the call with it: nothing it changed is undone.
RequestFails(s) ==
    /\ faults < MaxFaults
    /\ sync[s].pc \in {"asked", "profiled", "loading", "labels"}
    /\ faults' = faults + 1
    /\ sync' = [sync EXCEPT ![s] = NoSync]
    /\ UNCHANGED <<log, gone, cut, mem, disk, hydr, ready, ipc, crashes>>

-----------------------------------------------------------------------------
(* The shell *)

\* The next message to index, in some order; behind the last one pullDeltas
\* sets the cursor of the Map.
GoesOn(s, left) ==
    /\ sync' = [sync EXCEPT ![s] = IF left = {} THEN NoSync
                                   ELSE [@ EXCEPT !.pc = "index", !.ids = left]]
    /\ ipc' = IF left = {} THEN Tail(ipc) ELSE Append(Tail(ipc), s)
    /\ mem' = IF left = {} /\ sync[s].op = "pull"
              THEN [mem EXCEPT !.cursor = sync[s].token] ELSE mem

\* apply_sync_batch: upserts, deletes and cursor in one transaction.
BatchExecutes(s) ==
    /\ ipc # <<>> /\ Head(ipc) = s /\ sync[s].pc = "batch"
    /\ disk' = [Without(WithUpserts(disk, s), sync[s].dels, sync[s].attDels)
                   EXCEPT !.cursor = sync[s].token]
    /\ GoesOn(s, Upserted(s))
    /\ UNCHANGED <<log, gone, cut, hydr, ready, crashes, faults>>

\* Mutant of IndexExecutes: only the first message is indexed.
MutantIndexesOne(s) ==
    /\ ipc # <<>> /\ Head(ipc) = s /\ sync[s].pc = "index"
    /\ \E m \in sync[s].ids :
          /\ disk' = [disk EXCEPT !.index[m] = sync[s].got[m]]
          /\ GoesOn(s, {})
    /\ UNCHANGED <<log, gone, cut, hydr, ready, crashes, faults>>

\* index_mail: the old search row is replaced.
IndexExecutes(s) ==
    /\ ipc # <<>> /\ Head(ipc) = s /\ sync[s].pc = "index"
    /\ \E m \in sync[s].ids :
          /\ disk' = [disk EXCEPT !.index[m] = sync[s].got[m]]
          /\ GoesOn(s, sync[s].ids \ {m})
    /\ UNCHANGED <<log, gone, cut, hydr, ready, crashes, faults>>

\* The command is rejected, the call that awaits it throws.
StoreRejects(s) ==
    /\ faults < MaxFaults
    /\ ipc # <<>> /\ Head(ipc) = s
    /\ faults' = faults + 1
    /\ ipc' = Tail(ipc)
    /\ sync' = [sync EXCEPT ![s] = NoSync]
    /\ UNCHANGED <<log, gone, cut, mem, disk, hydr, ready, crashes>>

\* hydrateLocal invokes its lists together: nothing is executed between them.
HydrateStart ==
    /\ hydr.pc = "idle" /\ (~ready \/ Rehydrates)
    /\ hydr' = [hydr EXCEPT !.pc = "listing"]
    /\ ipc' = Append(ipc, "hydrate")
    /\ UNCHANGED <<log, gone, cut, mem, disk, sync, ready, crashes, faults>>

ListsExecute ==
    /\ ipc # <<>> /\ Head(ipc) = "hydrate"
    /\ hydr' = [pc |-> "listed", read |-> [msgs |-> disk.msgs, atts |-> disk.atts,
                                           cursor |-> disk.cursor]]
    /\ ipc' = Tail(ipc)
    /\ UNCHANGED <<log, gone, cut, mem, disk, sync, ready, crashes, faults>>

\* A list is rejected: the start, or the reader, asks again later.
ListsRejected ==
    /\ faults < MaxFaults
    /\ ipc # <<>> /\ Head(ipc) = "hydrate"
    /\ faults' = faults + 1
    /\ hydr' = NoHydrate
    /\ ipc' = Tail(ipc)
    /\ UNCHANGED <<log, gone, cut, mem, disk, sync, ready, crashes>>

\* What was read is set over what the Maps have.
HydrateSets ==
    /\ hydr.pc = "listed"
    /\ mem' = [msgs |-> [m \in Messages |-> IF hydr.read.msgs[m] # 0
                                            THEN hydr.read.msgs[m] ELSE mem.msgs[m]],
               atts |-> mem.atts \cup hydr.read.atts,
               cursor |-> IF hydr.read.cursor # 0 THEN hydr.read.cursor
                          ELSE mem.cursor]
    /\ hydr' = NoHydrate
    /\ ready' = TRUE
    /\ UNCHANGED <<log, gone, cut, disk, sync, ipc, crashes, faults>>

\* The application stops at any point and starts again.
Restart ==
    /\ crashes < MaxCrashes
    /\ crashes' = crashes + 1
    /\ mem' = [msgs |-> NoMail, atts |-> {}, cursor |-> 0]
    /\ sync' = [s \in Syncs |-> NoSync]
    /\ hydr' = NoHydrate
    /\ ready' = FALSE
    /\ ipc' = <<>>
    /\ UNCHANGED <<log, gone, cut, disk, faults>>

-----------------------------------------------------------------------------
SyncStep(s) ==
    \/ Start(s, "pull") \/ Start(s, "label")
    \/ ReadHistory(s) \/ ReadProfile(s) \/ ListMessages(s)
    \/ \E m \in Messages : LoadMessage(s, m)
    \/ Loaded(s) \/ ApplyDeltas(s) \/ ApplyFound(s) \/ LabelsArrive(s)
    \/ RequestFails(s)
    \/ BatchExecutes(s) \/ IndexExecutes(s) \/ StoreRejects(s)

Next ==
    \/ \E m \in Messages : ProviderChanges(m)
    \/ \E s \in Syncs : SyncStep(s)
    \/ HydrateStart \/ ListsExecute \/ ListsRejected \/ HydrateSets
    \/ Restart

Spec == Init /\ [][Next]_vars

-----------------------------------------------------------------------------
(* Properties *)

\* The history from the cursor of d on still has to say that m is expunged.
WillGo(m, d) == m \in gone /\ LastChange(m, Len(log)) >= d.cursor

\* What a holder d of mail keeps is no older than its cursor says: no message
\* it has was changed or expunged between its version and the cursor, but for
\* one that was expunged before its change could be loaded.
Fresh(d) ==
    \A m \in Messages : d.msgs[m] # 0 /\ ~WillGo(m, d) =>
        ~ \E i \in (d.msgs[m] + 1)..(d.cursor - 1) : log[i] = m

\* What the provider has had in the inbox before the cursor, d has: but for what a
\* full listing left out for its limit, which d need not have until it changes again.
Complete(d) ==
    \A m \in Inbox \ gone :
        (\E i \in cut[m]..Len(log) : i < d.cursor /\ log[i] = m) => d.msgs[m] # 0

\* The stored mailbox is a state from which following the history from the
\* stored cursor leads to the provider's mailbox: nothing it holds is stale or
\* expunged unseen, as long as no call failed half way,
DurableFresh == faults = 0 => Fresh(disk)

\* and nothing that no limit left out is missing, failures and restarts included.
DurableComplete == disk.cursor # 0 => Complete(disk)

\* The same for the mailbox on the screen.
MemoryFresh == ready /\ faults = 0 => Fresh(mem)
MemoryComplete == ready /\ mem.cursor # 0 => Complete(mem)

\* What a reconcile or a delete takes off the screen leaves the store as well,
\* whatever fails in between.
DeletesReachStore == Fresh(disk)

\* No attachment record outlives the record of its message.
NoOrphanAttachments == faults = 0 => \A m \in disk.atts : disk.msgs[m] # 0

\* The stored cursor never goes back, restarts included.  (After a failed
\* index command it does: syncLabel stores the token "1" while the Map has no
\* cursor, and the next pull starts over.)
CursorForward == [][faults = 0 => disk'.cursor >= disk.cursor]_vars

\* With no call under way and none failed, the screen shows what a restart
\* would show.
Quiet == faults = 0 /\ \A s \in Syncs : sync[s].pc = "idle"
MemoryIsStored ==
    ready /\ Quiet => mem.msgs = disk.msgs /\ mem.atts = disk.atts

\* With no call under way and none cut short, the search finds every stored
\* message as it is stored.
IndexIsStored ==
    crashes = 0 /\ Quiet =>
        \A m \in Messages : disk.msgs[m] # 0 => disk.index[m] = disk.msgs[m]
=============================================================================
