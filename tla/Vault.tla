------------------------------- MODULE Vault -------------------------------
(* The local vault: the key in the Keychain, the vault key wrapped with it and *)
(* the encrypted database, through starts, crashes, safe mode and a reset      *)
(* (secure_storage.rs, release_support.rs, lib.rs, database.rs, keys.rs).      *)
(*                                                                             *)
(* Each action is one call that lasts: a change of the Keychain, a file put in *)
(* place or removed, a transaction.  The process may die between two of them.  *)
EXTENDS Naturals

CONSTANTS
    MaxKeys,        \* keys generated
    MaxFaults       \* calls that fail, crashes

CurrentSchema == 3

VARIABLES
    item,       \* item[g]: the wrapping key in access group g; 0 for none
    wrap,       \* the wrapped vault key in its file
    db,         \* the database file: its vault, schema version, whether it has mail
    marker,     \* the safe-mode marker
    shell,      \* the process: what it is about, for a start or a repair, its keys
    export,     \* the last recovery bundle
    keys, faults,
    lostKeys    \* wrapping keys whose item went and did not come back

vars == <<item, wrap, db, marker, shell, export, keys, faults, lostKeys>>
disk == <<wrap, db, marker, export>>

Groups == {"app", "shared"}
NoWrap == [key |-> 0, vault |-> 0]
NoDb == [vault |-> 0, schema |-> 0, mail |-> FALSE]
Off == [pc |-> "off", for |-> "start", key |-> 0, new |-> FALSE, vault |-> 0]

TypeOK ==
    /\ item \in [Groups -> 0..MaxKeys]
    /\ wrap \in [key : 0..MaxKeys, vault : 0..MaxKeys]
    /\ db \in [vault : 0..MaxKeys, schema : 0..(CurrentSchema + 1), mail : BOOLEAN]
    /\ marker \in BOOLEAN
    /\ shell \in [pc : {"off", "load", "purge", "add", "wrap", "open", "migrate", "check",
                        "normal", "safe", "reset"},
                  for : {"start", "repair"}, key : 0..MaxKeys, new : BOOLEAN,
                  vault : 0..MaxKeys]
    /\ export.db = NoDb \/ export.db.vault \in 1..MaxKeys
    /\ keys \in 0..MaxKeys /\ faults \in 0..MaxFaults
    /\ lostKeys \subseteq 1..MaxKeys

Fails == faults < MaxFaults /\ faults' = faults + 1
Goes == UNCHANGED faults
To(pc) == shell' = [shell EXCEPT !.pc = pc]
\* A start that fails goes on without a database; a repair reports it.
Closed == shell' = [Off EXCEPT !.pc = "safe"]

-----------------------------------------------------------------------------
(* open_or_create.                                                            *)

Start ==
    /\ shell.pc = "off"
    /\ IF marker THEN Closed ELSE shell' = [Off EXCEPT !.pc = "load"]
    /\ UNCHANGED <<item, disk, keys, faults, lostKeys>>

DatabaseRepair ==
    /\ shell.pc = "safe"
    /\ shell' = [Off EXCEPT !.pc = "load", !.for = "repair"]
    /\ UNCHANGED <<item, disk, keys, faults, lostKeys>>

\* The group of the application is read first, then the one older builds shared.
Found == IF item["app"] # 0 THEN item["app"] ELSE item["shared"]

\* A key that is found is stored anew; without one it is generated, unless something
\* was encrypted before.  A locked Keychain ends it.
Load ==
    /\ shell.pc = "load"
    /\ \/ /\ Found # 0 /\ (wrap = NoWrap => db = NoDb) /\ Goes
          /\ shell' = [shell EXCEPT !.pc = "purge", !.key = Found] /\ UNCHANGED keys
       \/ /\ Found = 0 /\ wrap = NoWrap /\ db = NoDb /\ keys < MaxKeys /\ Goes
          /\ shell' = [shell EXCEPT !.pc = "purge", !.key = keys + 1, !.new = TRUE]
          /\ keys' = keys + 1
       \/ /\ IF wrap = NoWrap THEN db # NoDb ELSE Found = 0
          /\ Closed /\ Goes /\ UNCHANGED keys
       \/ Fails /\ Closed /\ UNCHANGED keys
    /\ UNCHANGED <<item, disk, lostKeys>>

\* store_app_private_generic_password: every item of that name goes, then one is added.
Purge ==
    /\ shell.pc = "purge" /\ Goes
    /\ item' = [g \in Groups |-> 0]
    /\ To("add")
    /\ UNCHANGED <<disk, keys, lostKeys>>

\* Only a key that is new must be stored for the start to go on: with another, it goes
\* on though the item is gone.
Add ==
    /\ shell.pc = "add"
    /\ \/ /\ item' = [item EXCEPT !["app"] = shell.key] /\ Goes
          /\ To("wrap") /\ UNCHANGED lostKeys
       \/ /\ Fails /\ UNCHANGED item
          /\ lostKeys' = lostKeys \cup {shell.key}
          /\ IF shell.new THEN Closed ELSE To("wrap")
    /\ UNCHANGED <<disk, keys>>

\* The wrapped key is opened, or made and put in place before there is a database.
Wrap ==
    /\ shell.pc = "wrap"
    /\ \/ /\ wrap # NoWrap /\ Goes /\ UNCHANGED <<wrap, keys>>
          /\ IF wrap.key = shell.key THEN shell' = [shell EXCEPT !.pc = "open", !.vault = wrap.vault]
             ELSE Closed
       \/ /\ wrap = NoWrap /\ keys < MaxKeys /\ Goes /\ keys' = keys + 1
          /\ wrap' = [key |-> shell.key, vault |-> keys + 1]
          /\ shell' = [shell EXCEPT !.pc = "open", !.vault = keys + 1]
       \/ Fails /\ Closed /\ UNCHANGED <<wrap, keys>>
    /\ UNCHANGED <<item, db, marker, export, lostKeys>>

\* EncryptedDatabase::open: the file is made if there is none, and must answer to the key.
Open ==
    /\ shell.pc = "open" /\ Goes
    /\ db' = IF db = NoDb THEN [NoDb EXCEPT !.vault = shell.vault] ELSE db
    /\ IF db'.vault = shell.vault /\ db'.schema <= CurrentSchema THEN To("migrate") ELSE Closed
    /\ UNCHANGED <<item, wrap, marker, export, keys, lostKeys>>

\* One transaction for each version.
Migrate ==
    /\ shell.pc = "migrate"
    /\ \/ /\ db.schema < CurrentSchema /\ Goes
          /\ db' = [db EXCEPT !.schema = @ + 1] /\ UNCHANGED shell
       \/ /\ db.schema = CurrentSchema /\ Goes
          /\ IF shell.for = "start" THEN To("normal") ELSE Closed
          /\ UNCHANGED db
       \/ Fails /\ Closed /\ UNCHANGED db
    /\ UNCHANGED <<item, wrap, marker, export, keys, lostKeys>>

-----------------------------------------------------------------------------
(* What the process does then.                                                *)

StoreMail ==
    /\ shell.pc = "normal" /\ ~db.mail
    /\ db' = [db EXCEPT !.mail = TRUE]
    /\ UNCHANGED <<item, wrap, marker, shell, export, keys, faults, lostKeys>>

\* Both take effect at the next start.
SetSafeMode ==
    /\ shell.pc \in {"normal", "safe"}
    /\ marker' \in BOOLEAN
    /\ UNCHANGED <<item, wrap, db, shell, export, keys, faults, lostKeys>>

ExportRecoveryBundle ==
    /\ shell.pc = "safe" /\ (db # NoDb \/ wrap # NoWrap)
    /\ export' = [wrap |-> wrap, db |-> db]
    /\ UNCHANGED <<item, wrap, db, marker, shell, keys, faults, lostKeys>>

\* Mutant of RemoveFirst: the wrapped key goes before the database.
MutantWrapFirst == wrap' = NoWrap /\ UNCHANGED db

\* reset_local_database removes the files in their order and stops at a failure.
RemoveFirst == db' = NoDb /\ UNCHANGED wrap
RemoveLast == db' = NoDb /\ wrap' = NoWrap

ResetBegins ==
    /\ shell.pc = "safe"
    /\ \/ RemoveFirst /\ To("reset") /\ Goes
       \/ Fails /\ UNCHANGED <<wrap, db, shell>>
    /\ UNCHANGED <<item, marker, export, keys, lostKeys>>

\* The application starts again, whether or not the marker could be removed.
ResetEnds ==
    /\ shell.pc = "reset"
    /\ \/ RemoveLast /\ marker' \in {FALSE, marker} /\ shell' = Off /\ Goes
       \/ Fails /\ Closed /\ UNCHANGED <<wrap, db, marker>>
    /\ UNCHANGED <<item, export, keys, lostKeys>>

Quit ==
    /\ shell.pc # "off"
    /\ IF shell.pc \in {"normal", "safe"} THEN Goes ELSE Fails
    /\ shell' = Off
    /\ lostKeys' = IF shell.pc = "add" THEN lostKeys \cup {shell.key} ELSE lostKeys
    /\ UNCHANGED <<item, disk, keys>>

-----------------------------------------------------------------------------

\* Nothing yet, or what an older or a newer build left, its key in one of the groups.
Init ==
    /\ marker = FALSE /\ shell = Off /\ faults = 0 /\ lostKeys = {}
    /\ export = [wrap |-> NoWrap, db |-> NoDb]
    /\ \/ item = [g \in Groups |-> 0] /\ wrap = NoWrap /\ db = NoDb /\ keys = 0
       \/ \E g \in Groups, v \in 1..(CurrentSchema + 1) :
              /\ item = [h \in Groups |-> IF h = g THEN 1 ELSE 0]
              /\ wrap = [key |-> 1, vault |-> 2] /\ keys = 2
              /\ db = [vault |-> 2, schema |-> v, mail |-> TRUE]

Next ==
    \/ Start \/ DatabaseRepair \/ Load \/ Purge \/ Add \/ Wrap \/ Open \/ Migrate
    \/ StoreMail \/ SetSafeMode \/ ExportRecoveryBundle \/ ResetBegins \/ ResetEnds \/ Quit

Spec == Init /\ [][Next]_vars

-----------------------------------------------------------------------------
(* Properties.                                                                *)

\* The wrapping key is in the Keychain, or in the process that is storing it anew.
InReach(k) == k # 0 /\ (Found = k \/ (shell.pc = "add" /\ shell.key = k))

\* At every moment the process may die, the database that exists answers to the vault
\* key in the file, which is in place before it and goes after it; and the wrapping key
\* of the file is in reach, unless the process stopped or failed between the removal
\* of its item and the addition of the new one (store_app_private_generic_password):
\* then nobody can open the database.
VaultOpensDatabase ==
    db # NoDb => wrap.vault = db.vault /\ (InReach(wrap.key) \/ wrap.key \in lostKeys)
=============================================================================
