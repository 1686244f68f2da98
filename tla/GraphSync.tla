----------------------------- MODULE GraphSync -----------------------------
(* Synchronisation of a Microsoft account (packages/providers/src/microsoft,  *)
(* fetchDeltas and pullDeltas of the engine).  The cursor holds a delta link  *)
(* for each of the well-known folders; a first pull stores the newest page of *)
(* each and a sentinel, the next enumerates the folders and gets the links.   *)
(* A pull reads the folders one after the other while the mailbox changes.    *)
(*                                                                            *)
(* One pull at a time, applied in one step: MailSync has the steps of that    *)
(* and overlapping pulls.  A folder is read in one request.                   *)
EXTENDS Naturals, Sequences, FiniteSets

CONSTANTS
    MaxMessage,     \* messages; the higher the number, the newer
    MaxFolder,      \* folders that are synchronised, numbered in that order
    PageSize,       \* BOOTSTRAP_PAGE_SIZE
    MaxChanges,     \* changes of the mailbox
    MaxErrors       \* links that expire, requests that fail, ends of the application

VARIABLES
    box,        \* box[m]: message m at the provider
    log,        \* the changes: the message, the folders that report it
    cursor,     \* cursor[f]: the link of folder f, the length of the log it was given at
    local,      \* local[m]: message m as it is stored, or None
    pull,       \* the running pull
    crossed,    \* messages that moved between two folders while a pull read them
    ghosts,     \* messages that left the folders while those had the sentinel
    errors

vars == <<box, log, cursor, local, pull, crossed, ghosts, errors>>

-----------------------------------------------------------------------------
(* Data.                                                                      *)

Mails == 1..MaxMessage
Folders == 1..MaxFolder
Away == 0     \* not there yet, in another folder, or deleted

Sentinel == MaxChanges + 1
None == [folder |-> Away, read |-> FALSE]
Message == [folder : Folders \cup {Away}, read : BOOLEAN]
Links == [Folders -> 0..Sentinel]
NoCursor == [f \in {} |-> 0]
Found == [Mails -> Message]
Nothing == [m \in Mails |-> None]

Idle == [pc |-> "idle", at |-> 1, next |-> NoCursor, found |-> Nothing, gone |-> {},
         left |-> {}, crossed |-> {}]

TypeOK ==
    /\ box \in Found /\ local \in Found
    /\ log \in Seq([msg : Mails, in : SUBSET Folders]) /\ Len(log) <= MaxChanges
    /\ cursor \in Links \cup {NoCursor}
    /\ pull \in [pc : {"idle", "list", "delta", "again"}, at : 1..(MaxFolder + 1),
                 next : UNION {[1..n -> 0..Sentinel] : n \in 0..MaxFolder},
                 found : Found, gone : SUBSET Mails, left : SUBSET Mails,
                 crossed : SUBSET Mails]
    /\ crossed \subseteq Mails /\ ghosts \subseteq Mails
    /\ errors \in 0..MaxErrors

In(f) == {m \in Mails : box[m].folder = f}
Loaded(found) == {m \in Mails : found[m] # None}

\* The page a listing returns, newest first.
Newest(S) == {m \in S : Cardinality({n \in S : n > m}) < PageSize}

\* What a delta request reports: everything in the folder without a link; with one,
\* what changed since, as upserts and removals.
Since(f, link) ==
    {m \in Mails : \E i \in (link + 1)..Len(log) : log[i].msg = m /\ f \in log[i].in}
Upserts(f, link) == IF link = Sentinel THEN In(f) ELSE Since(f, link) \cap In(f)
Removals(f, link) == IF link = Sentinel THEN {} ELSE Since(f, link) \ In(f)

-----------------------------------------------------------------------------
(* The mailbox.                                                               *)

\* Another client, the outbox of this one (archive, spam, trash, move) or a new message
\* changes the folder.
Move(m, f) ==
    /\ f # box[m].folder /\ Len(log) < MaxChanges
    /\ box' = [box EXCEPT ![m].folder = f, ![m].read = @ /\ f # Away]
    /\ log' = Append(log, [msg |-> m, in |-> {f, box[m].folder} \ {Away}])
    /\ pull' = IF pull.pc \in {"delta", "again"} /\ box[m].folder \in 1..(pull.at - 1)
               THEN [pull EXCEPT !.left = @ \cup {m}] ELSE pull
    /\ ghosts' = IF f = Away /\ local[m] # None /\ \E g \in DOMAIN cursor : cursor[g] = Sentinel
                 THEN ghosts \cup {m} ELSE ghosts
    /\ UNCHANGED <<cursor, local, crossed, errors>>

\* mark_read and mark_unread, here or elsewhere; flags and categories are alike.
Mark(m) ==
    /\ box[m].folder # Away /\ Len(log) < MaxChanges
    /\ box' = [box EXCEPT ![m].read = ~@]
    /\ log' = Append(log, [msg |-> m, in |-> {box[m].folder}])
    /\ UNCHANGED <<cursor, local, pull, crossed, ghosts, errors>>

-----------------------------------------------------------------------------
(* A pull.                                                                    *)

FetchDeltas ==
    /\ pull.pc = "idle"
    /\ pull' = [Idle EXCEPT !.pc = IF cursor = NoCursor THEN "list" ELSE "delta"]
    /\ UNCHANGED <<box, log, cursor, local, crossed, ghosts, errors>>

\* pull with the answer for the next folder: the messages there, those that are not,
\* and the link for the next time.
Reads(upserts, removals, link) ==
    pull' = [pull EXCEPT !.at = @ + 1, !.next = Append(@, link),
                 !.found = [m \in Mails |-> IF m \in upserts THEN box[m] ELSE @[m]],
                 !.gone = (@ \ upserts) \cup removals,
                 !.crossed = @ \cup (pull.left \cap upserts)]

ListMessages ==
    /\ pull.pc = "list" /\ pull.at \in Folders
    /\ Reads(Newest(In(pull.at)), {}, Sentinel)
    /\ UNCHANGED <<box, log, cursor, local, crossed, ghosts, errors>>

FolderDelta ==
    /\ pull.pc \in {"delta", "again"} /\ pull.at \in Folders
    /\ LET link == IF pull.pc = "again" THEN Sentinel ELSE cursor[pull.at] IN
       Reads(Upserts(pull.at, link), Removals(pull.at, link), Len(log))
    /\ UNCHANGED <<box, log, cursor, local, crossed, ghosts, errors>>

\* 410: all folders are enumerated, what has been read is dropped.
LinkExpires ==
    /\ pull.pc = "delta" /\ pull.at \in Folders /\ cursor[pull.at] # Sentinel
    /\ errors < MaxErrors /\ errors' = errors + 1
    /\ pull' = [Idle EXCEPT !.pc = "again"]
    /\ UNCHANGED <<box, log, cursor, local, crossed, ghosts>>

\* A request fails or the application ends: nothing has been stored.
PullFails ==
    /\ pull.pc # "idle" /\ errors < MaxErrors /\ errors' = errors + 1
    /\ pull' = Idle
    /\ UNCHANGED <<box, log, cursor, local, crossed, ghosts>>

\* Mutant of Gone: a removal that was read after the upsert wins.
MutantGone == pull.gone

\* What is left of the removals when the folders have been read: a message that moved
\* is an upsert of its new folder, and that wins in whichever order they were read.
Gone == pull.gone \ Loaded(pull.found)

\* pullDeltas: after a listing and an enumeration everything else is deleted.
PullDeltas ==
    LET full == pull.pc # "delta"
        seen == Loaded(pull.found)
    IN  /\ pull.pc # "idle" /\ pull.at = MaxFolder + 1
        /\ local' = [m \in Mails |->
                        IF m \in Gone THEN None
                        ELSE IF m \in seen \/ full THEN pull.found[m] ELSE local[m]]
        /\ cursor' = pull.next
        /\ crossed' = IF full THEN pull.crossed ELSE (crossed \ seen) \cup pull.crossed
        /\ ghosts' = IF pull.pc = "list" THEN seen \cap In(Away)
                     ELSE IF full THEN {} ELSE ghosts \ (seen \cup Gone)
        /\ pull' = Idle
        /\ UNCHANGED <<box, log, errors>>

-----------------------------------------------------------------------------

Init ==
    /\ box \in [Mails -> {None} \cup [folder : {1}, read : {FALSE}]]
    /\ log = <<>> /\ cursor = NoCursor /\ local = Nothing /\ pull = Idle
    /\ crossed = {} /\ ghosts = {} /\ errors = 0

Next ==
    \/ \E m \in Mails : Mark(m) \/ \E f \in Folders \cup {Away} : Move(m, f)
    \/ FetchDeltas \/ ListMessages \/ FolderDelta \/ LinkExpires \/ PullFails \/ PullDeltas

Spec == Init /\ [][Next]_vars

-----------------------------------------------------------------------------
(* Properties.                                                                *)

\* What the next pull would store if nothing else changed.
Followed(m) ==
    IF \E f \in Folders : m \in Upserts(f, cursor[f]) THEN box[m]
    ELSE IF \E f \in Folders : m \in Removals(f, cursor[f]) THEN None
    ELSE local[m]

\* From every point the links lead to the mailbox: no message of a folder is lost and none
\* that left is kept, after moves in any order, failed pulls and expired links; but for
\* messages that moved while a pull was between the two folders, and those that left
\* while a folder had the sentinel for a link.
LinksLead ==
    cursor # NoCursor =>
        \A m \in Mails \ (crossed \cup ghosts) :
            Followed(m) = IF box[m].folder = Away THEN None ELSE box[m]
=============================================================================
