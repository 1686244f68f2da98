---------------------------- MODULE BlobRegister ----------------------------
(* What a client may expect of one sync blob: a register that is written with *)
(* rising revisions until it is deleted.  A deletion first takes the content  *)
(* away, then the entry.                                                      *)
EXTENDS Naturals

CONSTANTS Bodies, MaxRevision, None

VARIABLE content   \* the entry a GET finds; revision 0 is "no entry"

Init == content = [rev |-> 0, body |-> None]

\* A device's new revision replaces an older one, whole.
Write(r, b) ==
    /\ r > content.rev
    /\ content' = [rev |-> r, body |-> b]

Erase ==
    /\ content.rev # 0
    /\ content' = [content EXCEPT !.body = None]

Drop == content' = [rev |-> 0, body |-> None]

Next ==
    \/ \E r \in 1..MaxRevision, b \in Bodies : Write(r, b)
    \/ Erase
    \/ Drop

Spec == Init /\ [][Next]_content
=============================================================================
