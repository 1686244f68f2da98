----------------------------- MODULE BlobStore -----------------------------
(* Encrypted sync blobs in the blind relay (services/blind-relay): one row in *)
(* the D1 table sync_blobs, which names an object in the R2 bucket.  The two  *)
(* stores share no transaction; a request is a Worker invocation that awaits  *)
(* one operation of theirs after the other, many run at once, and each may    *)
(* end between two operations.                                                *)
(*                                                                            *)
(* One account and one blob id: the key of an object names both and the       *)
(* revision, so objects of other blobs never meet.                            *)
EXTENDS Naturals, FiniteSets

CONSTANTS
    Requests,     \* requests that may be running at once
    Bodies,       \* ciphertexts; the hash of one is itself
    MaxRevision,  \* highest revision a client sends
    MaxCalls,     \* requests in all
    MaxFaults,    \* how many may end before they are answered
    Reuse         \* whether a PUT may carry the revision of an earlier one

None == "none"

ASSUME BlobStoreAssumption ==
    /\ MaxRevision \in Nat /\ MaxCalls \in Nat /\ MaxFaults \in Nat
    /\ Reuse \in BOOLEAN
    /\ None \notin Bodies

VARIABLES
    account,  \* whether the account exists
    row,      \* the row of sync_blobs: revision 0 is "no row"
    objects,  \* objects[r]: the object under the key of revision r
    req,      \* req[q]: a running request
    used,     \* revisions that PUTs have carried
    erased,   \* revisions whose object a deletion has erased
    calls, faults

vars == <<account, row, objects, req, used, erased, calls, faults>>

-----------------------------------------------------------------------------
Revisions == 1..MaxRevision
Body == Bodies \cup {None}
NoRow == [rev |-> 0, body |-> None]
Row == {NoRow} \cup [rev : Revisions, body : Bodies]

\* A request: where it is, the revision and body it carries or has read, and
\* the revision of the row it has found there before.
Req == [pc : {"idle", "put", "prior", "upsert", "sweep", "undo",
              "get", "fetch", "delete", "erase", "drop"},
        all : BOOLEAN, rev : 0..MaxRevision, body : Body, prior : 0..MaxRevision]
NoReq == [pc |-> "idle", all |-> FALSE, rev |-> 0, body |-> None, prior |-> 0]

TypeOK ==
    /\ account \in BOOLEAN
    /\ row \in Row
    /\ objects \in [Revisions -> Body]
    /\ req \in [Requests -> Req]
    /\ used \subseteq Revisions
    /\ erased \subseteq Revisions
    /\ calls \in 0..MaxCalls
    /\ faults \in 0..MaxFaults

Init ==
    /\ account = TRUE
    /\ row = NoRow
    /\ objects = [r \in Revisions |-> None]
    /\ req = [q \in Requests |-> NoReq]
    /\ used = {}
    /\ erased = {}
    /\ calls = 0
    /\ faults = 0

-----------------------------------------------------------------------------
(* Requests arrive: the device is verified, which needs the account *)

Arrives(q, request) ==
    /\ account /\ calls < MaxCalls
    /\ req[q] = NoReq
    /\ calls' = calls + 1
    /\ req' = [req EXCEPT ![q] = request]
    /\ UNCHANGED <<account, row, objects, erased, faults>>

PutArrives(q, r, b) ==
    /\ Reuse \/ r \notin used
    /\ used' = used \cup {r}
    /\ Arrives(q, [NoReq EXCEPT !.pc = "put", !.rev = r, !.body = b])

GetArrives(q) ==
    /\ Arrives(q, [NoReq EXCEPT !.pc = "get"])
    /\ UNCHANGED used

\* DELETE of the blob, or of the account and with it all its blobs.
DeleteArrives(q, whole) ==
    /\ Arrives(q, [NoReq EXCEPT !.pc = "delete", !.all = whole])
    /\ UNCHANGED used

\* The account is bootstrapped again.
Bootstrap ==
    /\ ~account /\ calls < MaxCalls
    /\ calls' = calls + 1
    /\ account' = TRUE
    /\ UNCHANGED <<row, objects, req, used, erased, faults>>

-----------------------------------------------------------------------------
(* PUT *)

At(q, pc) == req[q].pc = pc
GoTo(q, pc) == req' = [req EXCEPT ![q].pc = pc]
Ends(q) == req' = [req EXCEPT ![q] = NoReq]

\* Mutant of PutObject: the key of the object does not name the revision.
MutantOneKey(q) ==
    /\ At(q, "put")
    /\ objects' = [r \in Revisions |-> req[q].body]
    /\ GoTo(q, "prior")
    /\ UNCHANGED <<account, row, used, erased, calls, faults>>

\* The object is stored before anything is known about the row.
PutObject(q) ==
    /\ At(q, "put")
    /\ objects' = [objects EXCEPT ![req[q].rev] = req[q].body]
    /\ GoTo(q, "prior")
    /\ UNCHANGED <<account, row, used, erased, calls, faults>>

\* A row with this revision or a later one: the object is taken back.
ReadPrior(q) ==
    /\ At(q, "prior")
    /\ req' = [req EXCEPT ![q].pc = IF row.rev >= req[q].rev THEN "undo"
                                    ELSE "upsert",
                          ![q].prior = row.rev]
    /\ UNCHANGED <<account, row, objects, used, erased, calls, faults>>

\* Mutant of UpsertRow: the update has no WHERE clause.
MutantAlwaysUpdates(q) ==
    /\ At(q, "upsert") /\ account
    /\ row' = [rev |-> req[q].rev, body |-> req[q].body]
    /\ IF req[q].prior = 0 THEN Ends(q) ELSE GoTo(q, "sweep")
    /\ UNCHANGED <<account, objects, used, erased, calls, faults>>

\* The row is inserted, or updated if it is still older.  Behind it the object
\* the prior row named goes.  Without the account the insert fails.
UpsertRow(q) ==
    /\ At(q, "upsert")
    /\ \/ /\ account /\ row.rev < req[q].rev
          /\ row' = [rev |-> req[q].rev, body |-> req[q].body]
          /\ IF req[q].prior = 0 THEN Ends(q) ELSE GoTo(q, "sweep")
       \/ /\ account /\ row.rev >= req[q].rev
          /\ GoTo(q, "undo")
          /\ UNCHANGED row
       \/ /\ ~account
          /\ Ends(q)
          /\ UNCHANGED row
    /\ UNCHANGED <<account, objects, used, erased, calls, faults>>

RemoveObject(q, r) ==
    /\ objects' = [objects EXCEPT ![r] = None]
    /\ Ends(q)
    /\ UNCHANGED <<account, row, used, erased, calls, faults>>

\* Mutant of SweepPrior: the key of the request is deleted instead.
MutantSweepsOwn(q) == At(q, "sweep") /\ RemoveObject(q, req[q].rev)

SweepPrior(q) == At(q, "sweep") /\ RemoveObject(q, req[q].prior)

UndoObject(q) == At(q, "undo") /\ RemoveObject(q, req[q].rev)

-----------------------------------------------------------------------------
(* GET and DELETE *)

\* The row says which object to read and which hash to send with it; without
\* a row the answer is 404.
GetRow(q) ==
    /\ At(q, "get")
    /\ req' = [req EXCEPT ![q] = IF row.rev = 0 THEN NoReq
                 ELSE [@ EXCEPT !.pc = "fetch", !.rev = row.rev, !.body = row.body]]
    /\ UNCHANGED <<account, row, objects, used, erased, calls, faults>>

\* The object goes out with the hash of the row; a missing one is a 503.
GetObject(q) ==
    /\ At(q, "fetch")
    /\ Ends(q)
    /\ UNCHANGED <<account, row, objects, used, erased, calls, faults>>

\* The deletion reads the row, erases the object the row named, then deletes
\* the row, whatever it says by then.  Without a row a blob is "not found", an
\* account has nothing to erase.
DeleteReads(q) ==
    /\ At(q, "delete")
    /\ req' = [req EXCEPT ![q] =
                  IF row.rev # 0 THEN [@ EXCEPT !.pc = "erase", !.rev = row.rev]
                  ELSE IF req[q].all THEN [@ EXCEPT !.pc = "drop"] ELSE NoReq]
    /\ UNCHANGED <<account, row, objects, used, erased, calls, faults>>

DeleteErases(q) ==
    /\ At(q, "erase")
    /\ objects' = [objects EXCEPT ![req[q].rev] = None]
    /\ erased' = erased \cup {req[q].rev}
    /\ GoTo(q, "drop")
    /\ UNCHANGED <<account, row, used, calls, faults>>

\* Mutant of DeleteDrops: the row stays, with its revision and no content.
MutantKeepsRevision(q) ==
    /\ At(q, "drop")
    /\ row' = [row EXCEPT !.body = None]
    /\ account' = (account /\ ~req[q].all)
    /\ Ends(q)
    /\ UNCHANGED <<objects, used, erased, calls, faults>>

\* The rows of an account go with it.
DeleteDrops(q) ==
    /\ At(q, "drop")
    /\ row' = NoRow
    /\ account' = (account /\ ~req[q].all)
    /\ Ends(q)
    /\ UNCHANGED <<objects, used, erased, calls, faults>>

\* A store operation fails or the Worker is stopped: nothing is undone.
Fails(q) ==
    /\ faults < MaxFaults
    /\ ~At(q, "idle")
    /\ faults' = faults + 1
    /\ Ends(q)
    /\ UNCHANGED <<account, row, objects, used, erased, calls>>

-----------------------------------------------------------------------------
Step(q) ==
    \/ \E r \in Revisions, b \in Bodies : PutArrives(q, r, b)
    \/ GetArrives(q)
    \/ \E whole \in BOOLEAN : DeleteArrives(q, whole)
    \/ PutObject(q) \/ ReadPrior(q) \/ UpsertRow(q) \/ SweepPrior(q) \/ UndoObject(q)
    \/ GetRow(q) \/ GetObject(q)
    \/ DeleteReads(q) \/ DeleteErases(q) \/ DeleteDrops(q)
    \/ Fails(q)

Next == Bootstrap \/ \E q \in Requests : Step(q)

Spec == Init /\ [][Next]_vars

-----------------------------------------------------------------------------
(* Properties *)

\* The row names an object that is there and has the hash of the row, unless a
\* deletion has erased it and not yet, or never, dropped the row: no PUT takes
\* away what another one has stored ("duplicate, stale and out-of-order state
\* is rejected or reconciled").
RowHasObject ==
    row.rev # 0 /\ row.rev \notin erased => objects[row.rev] = row.body

\* What a GET is about to send has the hash it sends along, or is missing.
ServedMatches ==
    \A q \in Requests :
        At(q, "fetch") => objects[req[q].rev] \in {None, req[q].body}

\* Seen through GET, the row and the bucket together are one register: a
\* revision is replaced only by a later one, and an entry never changes its content
\* but loses it, whatever order the PUTs of several devices, the deletions and the
\* failures end in.  That it loses it to a deletion only is RowHasObject.
Register == INSTANCE BlobRegister
    WITH content <- [rev |-> row.rev,
                     body |-> IF row.rev = 0 THEN None ELSE objects[row.rev]]
IsRegister == Register!Spec
=============================================================================
