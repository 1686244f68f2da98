------------------------------ MODULE MCOutbox ------------------------------
(* Small instances of Outbox for TLC.  Overlapping calls of flushOutbox are *)
(* interchangeable: safety runs use them as a symmetry set.                 *)
EXTENDS Outbox, TLC

CONSTANTS f1, f2

Symmetry == Permutations(Flushers)

\* One object for each flush and one for the Map.
MCSlots == 1..(Cardinality(Flushers) + 1)

OneMutation == <<"mutation">>
OneSend == <<"send">>
TwoMutations == <<"mutation", "mutation">>
DraftsAndSend == <<"save_draft", "save_draft", "send">>
=============================================================================
