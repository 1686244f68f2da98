------------------------------- MODULE MCMail -------------------------------
(* Small instances for TLC of the two mail protocols, a Gmail account           *)
(* (MailSync) and a Microsoft account (GraphSync).  Accounts share no state of  *)
(* these modules, so a behaviour takes the steps of one of them.                *)
EXTENDS MailSync

CONSTANTS m1, m2, s1, MaxMessage, MaxFolder, PageSize, MaxChanges, MaxErrors

VARIABLES part, box, changes, cursor, local, pull, crossed, ghosts, errors

graphVars == <<box, changes, cursor, local, pull, crossed, ghosts, errors>>

\* GraphSync is meant for these bounds: at least one folder.
ASSUME MailAssumption ==
    /\ MaxMessage \in Nat /\ MaxFolder \in Nat \ {0} /\ PageSize \in Nat
    /\ MaxChanges \in Nat /\ MaxErrors \in Nat

Graph == INSTANCE GraphSync WITH log <- changes

\* A part that takes no steps begins in one of its initial states.
MailInit ==
    /\ part \in {"gmail", "microsoft"} /\ Init /\ Graph!Init
    /\ part = "gmail" => box = Graph!Nothing

MailNext ==
    \/ part = "gmail" /\ Next /\ UNCHANGED <<part, graphVars>>
    \/ part = "microsoft" /\ Graph!Next /\ UNCHANGED <<part, vars>>

MailSpec == MailInit /\ [][MailNext]_<<part, vars, graphVars>>

\* The types of the two modules.
MailTypeOK == TypeOK /\ Graph!TypeOK

\* MailSync: the store is a mailbox from which following its cursor leads to the
\* provider's, without attachments of messages that are gone.
StoreTracksProvider == DurableFresh /\ DurableComplete /\ NoOrphanAttachments

\* MailSync: the same for what is on the screen.
ScreenTracksProvider == MemoryFresh /\ MemoryComplete

\* MailSync: at rest the screen and the search show what a restart would.
AtRestAsStored == MemoryIsStored /\ IndexIsStored

\* GraphSync: following the links of the folders leads to the mailbox.
LinksLead == Graph!LinksLead
=============================================================================
