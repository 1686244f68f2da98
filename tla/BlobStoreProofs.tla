-------------------------- MODULE BlobStoreProofs --------------------------
(* Proofs about BlobStore for any number of requests, revisions, bodies,      *)
(* deletions and failures: the types, that no PUT takes away what another has *)
(* stored, that a GET sends what the hash it sends along is of, and that row  *)
(* and bucket together implement BlobRegister.                                *)
(*                                                                            *)
(* All but the types need that no two PUTs carry one revision, ~Reuse: with   *)
(* it they are false (run BlobDuplicate).                                    *)
EXTENDS BlobStore, TLAPS

\* The states of a PUT, and those before the row has named its revision.
Writing == {"put", "prior", "upsert", "sweep", "undo"}
Unnamed == Writing \ {"sweep"}

\* A PUT carries a revision and a body of its own, a GET and a deletion the
\* revision of a row.
PutShape ==
    \A q \in Requests :
        /\ req[q].pc \in Writing \cup {"fetch", "erase"} => req[q].rev \in Revisions
        /\ req[q].pc \in Writing => req[q].body \in Bodies

\* Every revision a request carries or has found in the row is one a PUT has carried.
RequestShape ==
    \A q \in Requests :
        /\ req[q].pc \in Writing \cup {"fetch", "erase"} => req[q].rev \in used
        /\ req[q].pc \in {"upsert", "sweep"} => req[q].prior \in used \cup {0}
        /\ req[q].pc = "sweep" => req[q].prior # 0

\* The row names a revision that a PUT has carried, and its body or nothing is
\* under the key.
RowShape ==
    /\ row.rev \in used \cup {0}
    /\ row.rev # 0 => row.rev \in Revisions /\ objects[row.rev] \in {None, row.body}

\* No two PUTs under way carry the same revision.
OwnRevision ==
    \A q, p \in Requests :
        /\ req[q].pc \in Writing /\ req[p].pc \in Writing
        /\ req[q].rev = req[p].rev
        => q = p

\* Until a PUT has updated the row its revision is known to it alone.
NotYetNamed ==
    \A q \in Requests : req[q].pc \in Unnamed =>
        /\ row.rev # req[q].rev
        /\ \A p \in Requests :
              /\ req[p].pc \in {"fetch", "erase"} => req[p].rev # req[q].rev
              /\ req[p].pc \in {"upsert", "sweep"} => req[p].prior # req[q].rev

\* A PUT on its way to the row has its object in the bucket.
ObjectFirst ==
    \A q \in Requests :
        req[q].pc \in {"prior", "upsert"} => objects[req[q].rev] = req[q].body

\* What a PUT sweeps away is not what the row names.
SweepsOld == \A q \in Requests : req[q].pc = "sweep" => row.rev # req[q].prior

IInv ==
    /\ TypeOK /\ PutShape /\ RequestShape /\ RowShape /\ OwnRevision /\ NotYetNamed
    /\ ObjectFirst /\ SweepsOld
    /\ RowHasObject /\ ServedMatches

-----------------------------------------------------------------------------
(* Types *)

\* What a request is, whatever it carries.
LEMMA RequestTypes ==
    /\ NoReq \in Req /\ NoRow \in Row
    /\ Revisions \subseteq 0..MaxRevision
    /\ Bodies \subseteq Body
BY BlobStoreAssumption DEF NoReq, Req, NoRow, Row, Body, Revisions

\* The row holds a revision and a body that a request may carry.
LEMMA RowTypes ==
    ASSUME TypeOK
    PROVE  /\ row.rev \in 0..MaxRevision /\ row.body \in Body
           /\ row.rev # 0 => row.rev \in Revisions /\ row.body \in Bodies
<1>1. row \in Row
  BY DEF TypeOK
<1>2. row = NoRow \/ row \in [rev : Revisions, body : Bodies]
  BY <1>1 DEF Row
<1> QED
  BY <1>2, BlobStoreAssumption DEF NoRow, Revisions, Body

\* The steps that read the row, and what the request carries afterwards.
LEMMA ReadsTheRow ==
    ASSUME TypeOK, NEW q \in Requests
    PROVE  /\ ReadPrior(q) \/ GetRow(q) \/ DeleteReads(q) =>
                 UNCHANGED <<account, row, objects, used, erased, calls, faults>>
           /\ ReadPrior(q) => \E x \in Req :
                 /\ req' = [req EXCEPT ![q] = x]
                 /\ x.pc = (IF row.rev >= req[q].rev THEN "undo" ELSE "upsert")
                 /\ x.rev = req[q].rev /\ x.body = req[q].body /\ x.prior = row.rev
           /\ GetRow(q) => \E x \in Req :
                 /\ req' = [req EXCEPT ![q] = x]
                 /\ \/ row.rev = 0 /\ x = NoReq
                    \/ row.rev # 0 /\ x.pc = "fetch" /\ x.rev = row.rev /\ x.body = row.body
           /\ DeleteReads(q) => \E x \in Req :
                 /\ req' = [req EXCEPT ![q] = x]
                 /\ \/ row.rev # 0 /\ x.pc = "erase" /\ x.rev = row.rev
                    \/ row.rev = 0 /\ x.pc \in {"drop", "idle"}
<1>1. req \in [Requests -> Req] /\ req[q] \in Req /\ NoReq \in Req
  BY RequestTypes DEF TypeOK
<1>2. row.rev \in 0..MaxRevision /\ row.body \in Body
  BY RowTypes
<1>3. ASSUME ReadPrior(q)
      PROVE  \E x \in Req :
                 /\ req' = [req EXCEPT ![q] = x]
                 /\ x.pc = (IF row.rev >= req[q].rev THEN "undo" ELSE "upsert")
                 /\ x.rev = req[q].rev /\ x.body = req[q].body /\ x.prior = row.rev
  <2> DEFINE pc == IF row.rev >= req[q].rev THEN "undo" ELSE "upsert"
             x == [req[q] EXCEPT !.pc = pc, !.prior = row.rev]
  <2>1. pc \in {"undo", "upsert"}
    OBVIOUS
  <2>2. req' = [req EXCEPT ![q].pc = pc, ![q].prior = row.rev]
    BY <1>3 DEF ReadPrior
  <2> HIDE DEF pc
  <2>3. x \in Req /\ x.pc = pc /\ x.prior = row.rev
        /\ x.rev = req[q].rev /\ x.body = req[q].body
    BY <1>1, <1>2, <2>1 DEF Req
  <2>4. req' = [req EXCEPT ![q] = x]
    BY <1>1, <2>2 DEF Req
  <2> HIDE DEF x
  <2> QED
    BY <2>3, <2>4 DEF pc
<1>4. ASSUME GetRow(q)
      PROVE  \E x \in Req :
                 /\ req' = [req EXCEPT ![q] = x]
                 /\ \/ row.rev = 0 /\ x = NoReq
                    \/ row.rev # 0 /\ x.pc = "fetch" /\ x.rev = row.rev /\ x.body = row.body
  <2>1. CASE row.rev = 0
    <3>1. req' = [req EXCEPT ![q] = NoReq]
      BY <1>4, <2>1 DEF GetRow
    <3> QED
      BY <1>1, <2>1, <3>1
  <2>2. CASE row.rev # 0
    <3> DEFINE x == [req[q] EXCEPT !.pc = "fetch", !.rev = row.rev, !.body = row.body]
    <3>1. req' = [req EXCEPT ![q] = x]
      BY <1>1, <1>4, <2>2 DEF GetRow
    <3>2. x \in Req /\ x.pc = "fetch" /\ x.rev = row.rev /\ x.body = row.body
      BY <1>1, <1>2 DEF Req
    <3> HIDE DEF x
    <3> QED
      BY <2>2, <3>1, <3>2
  <2> QED
    BY <2>1, <2>2
<1>5. ASSUME DeleteReads(q)
      PROVE  \E x \in Req :
                 /\ req' = [req EXCEPT ![q] = x]
                 /\ \/ row.rev # 0 /\ x.pc = "erase" /\ x.rev = row.rev
                    \/ row.rev = 0 /\ x.pc \in {"drop", "idle"}
  <2>1. CASE row.rev # 0
    <3> DEFINE x == [req[q] EXCEPT !.pc = "erase", !.rev = row.rev]
    <3>1. req' = [req EXCEPT ![q] = x]
      BY <1>1, <1>5, <2>1 DEF DeleteReads
    <3>2. x \in Req /\ x.pc = "erase" /\ x.rev = row.rev
      BY <1>1, <1>2 DEF Req
    <3> HIDE DEF x
    <3> QED
      BY <2>1, <3>1, <3>2
  <2>2. CASE row.rev = 0
    <3> DEFINE x == [req[q] EXCEPT !.pc = "drop"]
    <3>1. req' = [req EXCEPT ![q] = x] \/ req' = [req EXCEPT ![q] = NoReq]
      BY <1>1, <1>5, <2>2 DEF DeleteReads
    <3>2. x \in Req /\ x.pc = "drop" /\ NoReq.pc = "idle"
      BY <1>1 DEF Req, NoReq
    <3> HIDE DEF x
    <3> QED
      BY <1>1, <2>2, <3>1, <3>2
  <2> QED
    BY <2>1, <2>2
<1>6. ReadPrior(q) \/ GetRow(q) \/ DeleteReads(q) =>
         UNCHANGED <<account, row, objects, used, erased, calls, faults>>
  BY DEF ReadPrior, GetRow, DeleteReads
<1> QED
  BY <1>3, <1>4, <1>5, <1>6

\* A request that goes on to another state carries what it carried.
LEMMA GoesOn ==
    ASSUME TypeOK, NEW q \in Requests, NEW pc \in {"prior", "sweep", "undo", "drop"},
           GoTo(q, pc)
    PROVE  \E x \in Req :
              /\ req' = [req EXCEPT ![q] = x] /\ x.pc = pc
              /\ x.rev = req[q].rev /\ x.body = req[q].body /\ x.prior = req[q].prior
<1> DEFINE x == [req[q] EXCEPT !.pc = pc]
<1>1. req \in [Requests -> Req] /\ req[q] \in Req
  BY DEF TypeOK
<1>2. x \in Req /\ x.pc = pc
      /\ x.rev = req[q].rev /\ x.body = req[q].body /\ x.prior = req[q].prior
  BY <1>1 DEF Req
<1>3. req' = [req EXCEPT ![q] = x]
  BY <1>1 DEF GoTo
<1> HIDE DEF x
<1> QED
  BY <1>2, <1>3

\* Every step leaves values of the right types, and PUTs that carry a body.
LEMMA TypesKept == TypeOK /\ PutShape /\ [Next]_vars => TypeOK' /\ PutShape'
<1> USE RequestTypes DEF Writing
<1> SUFFICES ASSUME TypeOK, PutShape, [Next]_vars PROVE TypeOK' /\ PutShape'
  OBVIOUS
<1>1. CASE Bootstrap
  BY <1>1, BlobStoreAssumption DEF TypeOK, PutShape, Bootstrap
<1>2. ASSUME NEW q \in Requests, Step(q) PROVE TypeOK' /\ PutShape'
  <2> DEFINE Goes(x) == /\ x \in Req /\ req' = [req EXCEPT ![q] = x]
                        /\ x.pc \in Writing \cup {"fetch", "erase"} => x.rev \in Revisions
                        /\ x.pc \in Writing => x.body \in Bodies
  <2>c. req \in [Requests -> Req] /\ req[q] \in Req /\ req[q].body \in Body
    BY DEF TypeOK, Req
  <2>g. ASSUME NEW x, Goes(x) PROVE req' \in [Requests -> Req] /\ PutShape'
    BY <2>c, <2>g DEF PutShape
  <2>n. NoReq.pc = "idle"
    BY DEF NoReq
  <2>e. Ends(q) => req' \in [Requests -> Req] /\ PutShape'
    BY <2>g, <2>n DEF Ends
  <2> HIDE DEF Goes
  <2>1. ASSUME NEW r \in Revisions, NEW b \in Bodies, PutArrives(q, r, b)
        PROVE  TypeOK' /\ PutShape'
    <3> DEFINE put == [NoReq EXCEPT !.pc = "put", !.rev = r, !.body = b]
    <3>1. put \in Req /\ put.rev = r /\ put.body = b
      BY DEF Req
    <3>2. Arrives(q, put) /\ used' \subseteq Revisions
      BY <2>1 DEF TypeOK, PutArrives
    <3> HIDE DEF put
    <3>3. Goes(put)
      BY <3>1, <3>2 DEF Arrives, Goes
    <3> QED
      BY <3>2, <3>3, <2>g, BlobStoreAssumption DEF TypeOK, Arrives
  <2>2. CASE GetArrives(q)
    <3> DEFINE get == [NoReq EXCEPT !.pc = "get"]
    <3>1. get \in Req /\ get.pc = "get"
      BY DEF Req
    <3>2. Arrives(q, get) /\ UNCHANGED used
      BY <2>2 DEF GetArrives
    <3> HIDE DEF get
    <3>3. Goes(get)
      BY <3>1, <3>2 DEF Arrives, Goes
    <3> QED
      BY <3>2, <3>3, <2>g, BlobStoreAssumption DEF TypeOK, Arrives
  <2>3. ASSUME NEW whole \in BOOLEAN, DeleteArrives(q, whole)
        PROVE  TypeOK' /\ PutShape'
    <3> DEFINE delete == [NoReq EXCEPT !.pc = "delete", !.all = whole]
    <3>1. delete \in Req /\ delete.pc = "delete"
      BY DEF Req
    <3>2. Arrives(q, delete) /\ UNCHANGED used
      BY <2>3 DEF DeleteArrives
    <3> HIDE DEF delete
    <3>3. Goes(delete)
      BY <3>1, <3>2 DEF Arrives, Goes
    <3> QED
      BY <3>2, <3>3, <2>g, BlobStoreAssumption DEF TypeOK, Arrives
  <2>4. CASE PutObject(q)
    <3>1. GoTo(q, "prior") /\ objects' \in [Revisions -> Body]
          /\ UNCHANGED <<account, row, used, erased, calls, faults>>
      BY <2>c, <2>4 DEF TypeOK, PutObject
    <3>2. \E x \in Req : Goes(x)
      BY <3>1, <2>4, GoesOn DEF PutObject, At, PutShape, Goes
    <3> QED
      BY <3>1, <3>2, <2>g DEF TypeOK
  <2>5. CASE ReadPrior(q)
    <3>1. req[q].pc = "prior"
      BY <2>5 DEF ReadPrior, At
    <3>2. \E x \in Req : Goes(x)
      BY <3>1, <2>5, ReadsTheRow DEF PutShape, Goes
    <3> QED
      BY <2>5, <3>2, <2>g, ReadsTheRow DEF TypeOK
  <2>6. CASE UpsertRow(q)
    <3>1. /\ UNCHANGED <<account, objects, used, erased, calls, faults>>
          /\ GoTo(q, "sweep") \/ GoTo(q, "undo") \/ Ends(q)
          /\ row' = row \/ row' = [rev |-> req[q].rev, body |-> req[q].body]
          /\ req[q].rev \in Revisions /\ req[q].body \in Bodies
      BY <2>6 DEF UpsertRow, At, PutShape
    <3>2. Ends(q) \/ \E x \in Req : Goes(x)
      BY <3>1, GoesOn DEF Goes
    <3>3. row' \in Row
      BY <3>1 DEF TypeOK, Row
    <3> QED
      BY <3>1, <3>2, <3>3, <2>g, <2>e DEF TypeOK
  <2>7. ASSUME NEW r, RemoveObject(q, r) PROVE TypeOK' /\ PutShape'
    BY <2>7, <2>e DEF TypeOK, RemoveObject, Body
  <2>8. CASE GetRow(q)
    <3>1. \E x \in Req : Goes(x)
      BY <2>8, <2>n, ReadsTheRow, RowTypes DEF Goes
    <3> QED
      BY <2>8, <3>1, <2>g, ReadsTheRow DEF TypeOK
  <2>9. CASE GetObject(q)
    BY <2>9, <2>e DEF TypeOK, GetObject
  <2>10. CASE DeleteReads(q)
    <3>1. \E x \in Req : Goes(x)
      BY <2>10, ReadsTheRow, RowTypes DEF Goes
    <3> QED
      BY <2>10, <3>1, <2>g, ReadsTheRow DEF TypeOK
  <2>11. CASE DeleteErases(q)
    <3>1. GoTo(q, "drop") /\ req[q].pc = "erase"
      BY <2>11 DEF DeleteErases, At
    <3>2. \E x \in Req : Goes(x)
      BY <3>1, GoesOn DEF Goes
    <3>3. objects' \in [Revisions -> Body]
      BY <2>11 DEF TypeOK, DeleteErases, Body
    <3>4. erased' \subseteq Revisions
      BY <3>1, <2>11 DEF TypeOK, PutShape, DeleteErases
    <3> QED
      BY <2>11, <3>2, <3>3, <3>4, <2>g DEF TypeOK, DeleteErases
  <2>12. CASE DeleteDrops(q)
    BY <2>12, <2>e DEF TypeOK, DeleteDrops
  <2>13. CASE Fails(q)
    BY <2>13, <2>e, BlobStoreAssumption DEF TypeOK, Fails
  <2> QED
    BY <1>2, <2>1, <2>2, <2>3, <2>4, <2>5, <2>6, <2>7, <2>8, <2>9, <2>10, <2>11,
       <2>12, <2>13 DEF Step, SweepPrior, UndoObject
<1>3. CASE UNCHANGED vars
  BY <1>3 DEF TypeOK, PutShape, vars
<1> QED
  BY <1>1, <1>2, <1>3 DEF Next

\* The program keeps its types: the relay stores revisions, bodies and requests
\* of the kinds its tables and its bucket have.
THEOREM TypeCorrect == Spec => []TypeOK
<1>1. Init => TypeOK /\ PutShape
  BY BlobStoreAssumption, RequestTypes
     DEF Init, TypeOK, PutShape, Body, Row, NoReq, Writing
<1> QED
  BY <1>1, TypesKept, PTL DEF Spec
-----------------------------------------------------------------------------
(* What each step does to the invariant.  Where a request ends or waits it     *)
(* carries nothing the invariant is about.                                     *)

\* The parts of the invariant besides the types.
Content ==
    /\ RequestShape /\ RowShape /\ OwnRevision /\ NotYetNamed
    /\ ObjectFirst /\ SweepsOld /\ RowHasObject /\ ServedMatches

\* A request moves and nothing else does: to a state in which it carries nothing,
\* or from "prior" on, with what it has found in the row.
LEMMA RequestMoves ==
    ASSUME IInv, NEW q \in Requests, NEW x \in Req,
           req' = [req EXCEPT ![q] = x],
           UNCHANGED <<row, objects, used, erased>>,
           \/ x.pc \in {"idle", "get", "delete", "drop"}
           \/ /\ req[q].pc \in {"prior", "upsert"} /\ x.pc \in {"undo", "upsert"}
              /\ x.rev = req[q].rev /\ x.body = req[q].body
              /\ x.pc = "upsert" => req[q].pc = "prior" /\ x.prior = row.rev
           \/ row.rev # 0 /\ x.pc = "fetch" /\ x.rev = row.rev /\ x.body = row.body
           \/ row.rev # 0 /\ x.pc = "erase" /\ x.rev = row.rev
    PROVE  Content'
<1> USE DEF Writing, Unnamed, At
<1>1. /\ req'[q] = x
      /\ \A p \in Requests : p # q => req'[p] = req[p]
      /\ row' = row /\ objects' = objects /\ used' = used /\ erased' = erased
  BY DEF IInv, TypeOK
<1>2. RequestShape'
  BY <1>1 DEF IInv, RequestShape, RowShape
<1>3. RowShape' /\ RowHasObject'
  BY <1>1 DEF IInv, RowShape, RowHasObject
<1>4. OwnRevision'
  BY <1>1 DEF IInv, OwnRevision
<1>5. NotYetNamed'
  BY <1>1 DEF IInv, NotYetNamed
<1>6. ObjectFirst'
  BY <1>1 DEF IInv, ObjectFirst
<1>7. SweepsOld'
  BY <1>1 DEF IInv, SweepsOld
<1>8. ServedMatches'
  BY <1>1 DEF IInv, ServedMatches, RowShape
<1> QED
  BY <1>2, <1>3, <1>4, <1>5, <1>6, <1>7, <1>8 DEF Content
\* A PUT arrives with a revision of its own.
LEMMA PutArrivesKeeps ==
    ASSUME ~Reuse, IInv, NEW q \in Requests, NEW r \in Revisions, NEW b \in Bodies,
           PutArrives(q, r, b)
    PROVE  Content'
<1> USE DEF Writing, Unnamed, At
<1> DEFINE put == [NoReq EXCEPT !.pc = "put", !.rev = r, !.body = b]
<1>1. put \in Req /\ put.pc = "put" /\ put.rev = r
  BY RequestTypes DEF Req
<1>2. /\ req' = [req EXCEPT ![q] = put] /\ used' = used \cup {r} /\ r \notin used
      /\ UNCHANGED <<row, objects, erased>>
  BY DEF PutArrives, Arrives
<1> HIDE DEF put
<1>3. /\ req'[q] = put
      /\ \A p \in Requests : p # q => req'[p] = req[p]
      /\ row' = row /\ objects' = objects /\ erased' = erased
  BY <1>2 DEF IInv, TypeOK
<1>4. r # 0
  BY BlobStoreAssumption DEF Revisions
<1>5. RequestShape' /\ RowShape' /\ RowHasObject'
  BY <1>1, <1>2, <1>3 DEF IInv, RequestShape, RowShape, RowHasObject
<1>6. OwnRevision'
  BY <1>1, <1>2, <1>3 DEF IInv, OwnRevision, RequestShape
<1>7. NotYetNamed'
  BY <1>1, <1>2, <1>3, <1>4 DEF IInv, NotYetNamed, RequestShape, RowShape
<1>8. ObjectFirst' /\ SweepsOld' /\ ServedMatches'
  BY <1>1, <1>3 DEF IInv, ObjectFirst, SweepsOld, ServedMatches
<1> QED
  BY <1>5, <1>6, <1>7, <1>8 DEF Content

\* The object of a PUT is stored under a key that nothing else names.
LEMMA PutObjectKeeps ==
    ASSUME IInv, NEW q \in Requests, PutObject(q)
    PROVE  Content'
<1> USE DEF Writing, Unnamed, At
<1>1. /\ GoTo(q, "prior") /\ req[q].pc = "put"
      /\ objects' = [objects EXCEPT ![req[q].rev] = req[q].body]
      /\ row' = row /\ used' = used /\ erased' = erased
  BY DEF PutObject
<1>2. PICK x \in Req : /\ req' = [req EXCEPT ![q] = x] /\ x.pc = "prior"
                       /\ x.rev = req[q].rev /\ x.body = req[q].body
  BY <1>1, GoesOn DEF IInv
<1>3. /\ req'[q] = x
      /\ \A p \in Requests : p # q => req'[p] = req[p]
      /\ objects'[req[q].rev] = req[q].body
      /\ \A r \in Revisions : r # req[q].rev => objects'[r] = objects[r]
  BY <1>1, <1>2 DEF IInv, TypeOK, PutShape
<1>4. RequestShape' /\ OwnRevision' /\ NotYetNamed' /\ SweepsOld'
  BY <1>1, <1>2, <1>3
     DEF IInv, RequestShape, OwnRevision, NotYetNamed, SweepsOld
<1>5. RowShape' /\ RowHasObject'
  BY <1>1, <1>2, <1>3 DEF IInv, RowShape, RowHasObject, NotYetNamed
<1>6. ObjectFirst'
  BY <1>1, <1>2, <1>3 DEF IInv, ObjectFirst, OwnRevision, PutShape
<1>7. ServedMatches'
  BY <1>1, <1>2, <1>3 DEF IInv, ServedMatches, NotYetNamed, PutShape
<1> QED
  BY <1>4, <1>5, <1>6, <1>7 DEF Content

\* The row names the revision of a PUT whose object is there.
LEMMA RowUpdated ==
    ASSUME IInv, NEW q \in Requests, req[q].pc = "upsert", row.rev < req[q].rev,
           row' = [rev |-> req[q].rev, body |-> req[q].body],
           UNCHANGED <<objects, used, erased>>,
           IF req[q].prior = 0 THEN Ends(q) ELSE GoTo(q, "sweep")
    PROVE  Content'
<1> USE DEF Writing, Unnamed, At
<1>1. PICK x \in Req :
         /\ req' = [req EXCEPT ![q] = x]
         /\ \/ x.pc = "idle"
            \/ /\ x.pc = "sweep" /\ req[q].prior # 0
               /\ x.rev = req[q].rev /\ x.body = req[q].body /\ x.prior = req[q].prior
  <2>1. CASE req[q].prior = 0
    BY <2>1, RequestTypes DEF Ends, NoReq
  <2>2. CASE req[q].prior # 0
    BY <2>2, GoesOn DEF IInv
  <2> QED
    BY <2>1, <2>2
<1>2. /\ req'[q] = x
      /\ \A p \in Requests : p # q => req'[p] = req[p]
      /\ row'.rev = req[q].rev /\ row'.body = req[q].body
      /\ objects' = objects /\ used' = used /\ erased' = erased
  BY <1>1 DEF IInv, TypeOK
<1>3. RequestShape' /\ RowShape' /\ RowHasObject'
  BY <1>1, <1>2
     DEF IInv, RequestShape, RowShape, RowHasObject, PutShape, ObjectFirst
<1>4. OwnRevision'
  BY <1>1, <1>2 DEF IInv, OwnRevision
<1>5. NotYetNamed'
  BY <1>1, <1>2 DEF IInv, NotYetNamed, OwnRevision
<1>6. ObjectFirst' /\ ServedMatches'
  BY <1>1, <1>2 DEF IInv, ObjectFirst, ServedMatches
<1>7. SweepsOld'
  BY <1>1, <1>2 DEF IInv, SweepsOld, NotYetNamed
<1> QED
  BY <1>3, <1>4, <1>5, <1>6, <1>7 DEF Content

\* An object the row does not name is removed, and no PUT on its way has it.
LEMMA ObjectRemoved ==
    ASSUME IInv, NEW q \in Requests, NEW r, RemoveObject(q, r), row.rev # r \/ r = 0,
           \A p \in Requests :
               req[p].pc \in {"prior", "upsert"} => req[p].rev # r
    PROVE  Content'
<1> USE DEF Writing, Unnamed, At
<1>1. /\ Ends(q) /\ objects' = [objects EXCEPT ![r] = None]
      /\ row' = row /\ used' = used /\ erased' = erased
  BY DEF RemoveObject
<1>2. /\ req'[q].pc = "idle"
      /\ \A p \in Requests : p # q => req'[p] = req[p]
      /\ \A s \in Revisions : objects'[s] = IF s = r THEN None ELSE objects[s]
  BY <1>1 DEF IInv, TypeOK, Ends, NoReq
<1>3. RequestShape' /\ OwnRevision' /\ NotYetNamed' /\ SweepsOld'
  BY <1>1, <1>2 DEF IInv, RequestShape, OwnRevision, NotYetNamed, SweepsOld
<1>4. RowShape' /\ RowHasObject'
  BY <1>1, <1>2 DEF IInv, RowShape, RowHasObject
<1>5. ObjectFirst' /\ ServedMatches'
  BY <1>1, <1>2 DEF IInv, ObjectFirst, ServedMatches, PutShape
<1> QED
  BY <1>3, <1>4, <1>5 DEF Content

\* The object of a row is erased, and noted.
LEMMA DeleteErasesKeeps ==
    ASSUME IInv, NEW q \in Requests, DeleteErases(q)
    PROVE  Content'
<1> USE DEF Writing, Unnamed, At
<1>1. /\ GoTo(q, "drop") /\ objects' = [objects EXCEPT ![req[q].rev] = None]
      /\ erased' = erased \cup {req[q].rev} /\ req[q].pc = "erase"
      /\ row' = row /\ used' = used
  BY DEF DeleteErases
<1>2. PICK x \in Req : req' = [req EXCEPT ![q] = x] /\ x.pc = "drop"
  BY <1>1, GoesOn DEF IInv
<1>3. /\ req'[q] = x
      /\ \A p \in Requests : p # q => req'[p] = req[p]
      /\ \A s \in Revisions : objects'[s] = IF s = req[q].rev THEN None ELSE objects[s]
  BY <1>1, <1>2 DEF IInv, TypeOK
<1>4. RequestShape' /\ OwnRevision' /\ NotYetNamed' /\ SweepsOld'
  BY <1>1, <1>2, <1>3 DEF IInv, RequestShape, OwnRevision, NotYetNamed, SweepsOld
<1>5. RowShape' /\ RowHasObject'
  BY <1>1, <1>2, <1>3 DEF IInv, RowShape, RowHasObject
<1>6. ObjectFirst' /\ ServedMatches'
  BY <1>1, <1>2, <1>3 DEF IInv, ObjectFirst, ServedMatches, PutShape, NotYetNamed
<1> QED
  BY <1>4, <1>5, <1>6 DEF Content

\* The row is dropped: what requests know of it stays known.
LEMMA DeleteDropsKeeps ==
    ASSUME IInv, NEW q \in Requests, DeleteDrops(q)
    PROVE  Content'
<1> USE DEF Writing, Unnamed, At
<1>1. /\ row'.rev = 0 /\ req'[q].pc = "idle"
      /\ \A p \in Requests : p # q => req'[p] = req[p]
      /\ objects' = objects /\ used' = used /\ erased' = erased
  BY DEF IInv, TypeOK, DeleteDrops, Ends, NoReq, NoRow
<1>2. \A r \in Revisions : r # 0
  BY BlobStoreAssumption DEF Revisions
<1>3. RequestShape' /\ OwnRevision' /\ RowShape' /\ RowHasObject'
  BY <1>1 DEF IInv, RequestShape, OwnRevision, RowShape, RowHasObject
<1>4. NotYetNamed'
  BY <1>1, <1>2 DEF IInv, NotYetNamed, PutShape
<1>5. ObjectFirst' /\ ServedMatches' /\ SweepsOld'
  BY <1>1 DEF IInv, ObjectFirst, ServedMatches, SweepsOld, RequestShape
<1> QED
  BY <1>3, <1>4, <1>5 DEF Content
-----------------------------------------------------------------------------
(* The theorems *)

LEMMA InitInvariant == Init => IInv
<1> SUFFICES ASSUME Init PROVE IInv
  OBVIOUS
<1>1. /\ row.rev = 0 /\ row \in Row /\ None \in Body
      /\ \A q \in Requests : req[q].pc = "idle" /\ req[q] \in Req
  BY RequestTypes DEF Init, NoRow, NoReq, Body
<1>2. TypeOK
  BY <1>1, RequestTypes, BlobStoreAssumption DEF Init, TypeOK
<1> QED
  BY <1>1, <1>2
     DEF IInv, PutShape, RequestShape, RowShape, OwnRevision, NotYetNamed, ObjectFirst,
         SweepsOld, RowHasObject, ServedMatches, Writing, Unnamed, At

\* The invariant is inductive: one step per operation of a request.
LEMMA InvariantKept == ~Reuse /\ IInv /\ [Next]_vars => IInv'
<1> SUFFICES ASSUME ~Reuse, IInv, [Next]_vars PROVE IInv'
  OBVIOUS
<1> USE DEF At
<1>1. TypeOK' /\ PutShape'
  BY TypesKept DEF IInv
<1>2. ASSUME row' = row, req' = req, objects' = objects, used' = used, erased' = erased
      PROVE  Content'
  BY <1>2 DEF IInv, Content, RequestShape, RowShape, OwnRevision, NotYetNamed, ObjectFirst,
              SweepsOld, RowHasObject, ServedMatches
<1>3. ASSUME NEW q \in Requests, Step(q) PROVE Content'
  <2>1. ASSUME NEW r \in Revisions, NEW b \in Bodies, PutArrives(q, r, b) PROVE Content'
    BY <2>1, PutArrivesKeeps
  <2>2. CASE GetArrives(q) \/ \E whole \in BOOLEAN : DeleteArrives(q, whole)
    <3>1. PICK x : /\ Arrives(q, x) /\ used' = used
                   /\ \/ x = [NoReq EXCEPT !.pc = "get"]
                      \/ \E whole \in BOOLEAN :
                            x = [NoReq EXCEPT !.pc = "delete", !.all = whole]
      BY <2>2 DEF GetArrives, DeleteArrives
    <3>2. x \in Req /\ x.pc \in {"get", "delete"}
      BY <3>1, RequestTypes DEF Req
    <3> QED
      BY <3>1, <3>2, RequestMoves DEF Arrives
  <2>3. CASE PutObject(q)
    BY <2>3, PutObjectKeeps
  <2>4. CASE ReadPrior(q)
    <3>1. req[q].pc = "prior"
      BY <2>4 DEF ReadPrior
    <3> QED
      BY <2>4, <3>1, ReadsTheRow, RequestMoves DEF IInv
  <2>5. CASE UpsertRow(q)
    <3>1. CASE row' = [rev |-> req[q].rev, body |-> req[q].body] /\ row.rev < req[q].rev
               /\ IF req[q].prior = 0 THEN Ends(q) ELSE GoTo(q, "sweep")
      BY <2>5, <3>1, RowUpdated DEF UpsertRow
    <3>2. CASE GoTo(q, "undo") /\ row' = row
      BY <2>5, <3>2, GoesOn, RequestMoves DEF UpsertRow, IInv
    <3>3. CASE Ends(q) /\ row' = row
      BY <2>5, <3>3, RequestTypes, RequestMoves DEF UpsertRow, Ends, NoReq
    <3> QED
      BY <2>5, <3>1, <3>2, <3>3 DEF UpsertRow
  <2>6. CASE SweepPrior(q)
    <3>1. /\ req[q].pc = "sweep" /\ RemoveObject(q, req[q].prior)
          /\ row.rev # req[q].prior
      BY <2>6 DEF SweepPrior, IInv, SweepsOld
    <3>2. \A p \in Requests :
              req[p].pc \in {"prior", "upsert"} => req[p].rev # req[q].prior
      BY <3>1 DEF IInv, NotYetNamed, Unnamed, Writing
    <3> QED
      BY <3>1, <3>2, ObjectRemoved
  <2>7. CASE UndoObject(q)
    <3>1. /\ req[q].pc = "undo" /\ RemoveObject(q, req[q].rev)
          /\ row.rev # req[q].rev
      BY <2>7 DEF UndoObject, IInv, NotYetNamed, Unnamed, Writing
    <3>2. \A p \in Requests :
              req[p].pc \in {"prior", "upsert"} => req[p].rev # req[q].rev
      BY <3>1 DEF IInv, OwnRevision, Writing
    <3> QED
      BY <3>1, <3>2, ObjectRemoved
  <2>8. CASE GetRow(q) \/ DeleteReads(q)
    BY <2>8, ReadsTheRow, RequestMoves DEF IInv, NoReq
  <2>9. CASE GetObject(q) \/ Fails(q)
    BY <2>9, RequestTypes, RequestMoves DEF GetObject, Fails, Ends, NoReq
  <2>10. CASE DeleteErases(q)
    BY <2>10, DeleteErasesKeeps
  <2>11. CASE DeleteDrops(q)
    BY <2>11, DeleteDropsKeeps
  <2> QED
    BY <1>3, <2>1, <2>2, <2>3, <2>4, <2>5, <2>6, <2>7, <2>8, <2>9, <2>10, <2>11 DEF Step
<1>4. ASSUME Bootstrap \/ UNCHANGED vars PROVE Content'
  BY <1>2, <1>4 DEF Bootstrap, vars
<1> QED
  BY <1>1, <1>3, <1>4 DEF Next, IInv, Content

THEOREM Invariant == ASSUME ~Reuse PROVE Spec => []IInv
BY InitInvariant, InvariantKept, PTL DEF Spec

\* The row always names an object that is there and has its hash, unless a
\* deletion has erased it: the sweep behind an update and the undo of a refused
\* one never take what another PUT has stored.
THEOREM RowKeepsItsObject == ASSUME ~Reuse PROVE Spec => []RowHasObject
<1>1. IInv => RowHasObject
  BY DEF IInv
<1> QED
  BY <1>1, Invariant, PTL

\* A GET never sends a ciphertext with the hash of another.
THEOREM GetServesMatching == ASSUME ~Reuse PROVE Spec => []ServedMatches
<1>1. IInv => ServedMatches
  BY DEF IInv
<1> QED
  BY <1>1, Invariant, PTL

\* What a GET finds.
Entry == [rev |-> row.rev, body |-> IF row.rev = 0 THEN None ELSE objects[row.rev]]

\* An update writes the register, a deletion erases or drops it, and nothing else
\* a request does can be seen through GET.
LEMMA RegisterStep ==
    ~Reuse /\ IInv /\ [Next]_vars => [Register!Next]_Entry
<1> SUFFICES ASSUME ~Reuse, IInv, [Next]_vars
             PROVE  Register!Next \/ Entry' = Entry
  OBVIOUS
<1> USE DEF At
<1>t. /\ objects \in [Revisions -> Body] /\ row.rev \in 0..MaxRevision
      /\ row.rev # 0 => row.rev \in Revisions
  BY RowTypes DEF IInv, TypeOK
<1>1. ASSUME row' = row, row.rev = 0 \/ objects'[row.rev] = objects[row.rev]
      PROVE  Entry' = Entry
  BY <1>1 DEF Entry
<1>2. ASSUME NEW q \in Requests, Step(q) PROVE Register!Next \/ Entry' = Entry
  <2>1. CASE PutObject(q)
    <3>1. row.rev # req[q].rev /\ req[q].rev \in Revisions
      BY <2>1 DEF PutObject, IInv, NotYetNamed, PutShape, Unnamed, Writing
    <3> QED
      BY <2>1, <3>1, <1>t, <1>1 DEF PutObject
  <2>2. CASE UpsertRow(q)
    <3>1. CASE row' = row
      BY <2>2, <3>1, <1>1 DEF UpsertRow
    <3>2. CASE row' # row
      <4>1. /\ row' = [rev |-> req[q].rev, body |-> req[q].body]
            /\ row.rev < req[q].rev /\ objects' = objects
            /\ req[q].rev \in Revisions /\ req[q].body \in Bodies
            /\ objects[req[q].rev] = req[q].body
        BY <2>2, <3>2 DEF UpsertRow, IInv, ObjectFirst, PutShape, Writing
      <4>2. req[q].rev # 0 /\ req[q].rev \in 1..MaxRevision
        BY <4>1, BlobStoreAssumption DEF Revisions
      <4>3. Entry' = [rev |-> req[q].rev, body |-> req[q].body] /\ req[q].rev > Entry.rev
        BY <4>1, <4>2, <1>t DEF Entry
      <4>4. Register!Write(req[q].rev, req[q].body)
        BY <4>3 DEF Register!Write, Entry
      <4> QED
        BY <4>1, <4>2, <4>4 DEF Register!Next
    <3> QED
      BY <3>1, <3>2
  <2>3. CASE SweepPrior(q)
    <3>1. row.rev # req[q].prior /\ RemoveObject(q, req[q].prior)
      BY <2>3 DEF SweepPrior, IInv, SweepsOld
    <3> QED
      BY <3>1, <1>t, <1>1 DEF RemoveObject
  <2>4. CASE UndoObject(q)
    <3>1. row.rev # req[q].rev /\ RemoveObject(q, req[q].rev)
      BY <2>4 DEF UndoObject, IInv, NotYetNamed, Unnamed, Writing
    <3> QED
      BY <3>1, <1>t, <1>1 DEF RemoveObject
  <2>5. CASE DeleteErases(q)
    <3>1. row' = row /\ objects' = [objects EXCEPT ![req[q].rev] = None]
      BY <2>5 DEF DeleteErases
    <3>2. CASE row.rev = 0 \/ row.rev # req[q].rev
      BY <3>1, <3>2, <1>t, <1>1
    <3>3. CASE row.rev # 0 /\ row.rev = req[q].rev
      <4>1. Entry' = [Entry EXCEPT !.body = None] /\ Entry.rev # 0
        BY <3>1, <3>3, <1>t DEF Entry
      <4> QED
        BY <4>1 DEF Register!Next, Register!Erase, Entry
    <3> QED
      BY <3>2, <3>3
  <2>6. CASE DeleteDrops(q)
    <3>1. Entry' = [rev |-> 0, body |-> None]
      BY <2>6 DEF DeleteDrops, Entry, NoRow
    <3> QED
      BY <3>1 DEF Register!Next, Register!Drop, Entry
  <2>7. CASE ReadPrior(q) \/ GetRow(q) \/ DeleteReads(q)
    BY <2>7, <1>1, ReadsTheRow DEF IInv
  <2>8. CASE \/ GetArrives(q) \/ \E whole \in BOOLEAN : DeleteArrives(q, whole)
             \/ \E r \in Revisions, b \in Bodies : PutArrives(q, r, b)
    <3>1. \E x : Arrives(q, x)
      BY <2>8 DEF GetArrives, DeleteArrives, PutArrives
    <3> QED
      BY <3>1, <1>1 DEF Arrives
  <2>9. CASE GetObject(q) \/ Fails(q)
    BY <2>9, <1>1 DEF GetObject, Fails
  <2> QED
    BY <1>2, <2>1, <2>2, <2>3, <2>4, <2>5, <2>6, <2>7, <2>8, <2>9 DEF Step
<1>3. CASE Bootstrap \/ UNCHANGED vars
  BY <1>3, <1>1 DEF Bootstrap, vars
<1> QED
  BY <1>2, <1>3 DEF Next

\* Row and bucket together are one register, whatever order the PUTs of several
\* devices, the deletions and the failures end in.
THEOREM ImplementsRegister == ASSUME ~Reuse PROVE Spec => IsRegister
<1>1. Init => Register!Init
  BY DEF Init, Register!Init, NoRow
<1> QED
  BY <1>1, RegisterStep, Invariant, PTL DEF Spec, IsRegister, Register!Spec, Entry
=============================================================================
