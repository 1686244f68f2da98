---------------------------- MODULE VaultProofs ----------------------------
(* For any number of keys, crashes and failing calls, the wrapped key on disk *)
(* is that of the database on disk, and the key it is wrapped with is in the  *)
(* Keychain unless it was lost while it was stored anew (module Vault).       *)
EXTENDS Vault, TLAPS

Shell == [pc : {"off", "load", "purge", "add", "wrap", "open", "migrate", "check",
                "normal", "safe", "reset"},
          for : {"start", "repair"}, key : 0..MaxKeys, new : BOOLEAN, vault : 0..MaxKeys]

\* A file has the number of a vault key: so a database has a wrapped key too.
FilesHaveKeys == (db # NoDb => db.vault # 0) /\ (wrap # NoWrap => wrap.vault # 0)

\* The vault key a start goes on with is the one that is wrapped on disk.
HoldsWrapped == shell.pc = "open" => shell.vault = wrap.vault /\ shell.vault # 0

\* The database that exists answers to the vault key in the file.
DatabaseWrapped == db # NoDb => wrap.vault = db.vault

\* Migrations and mail find a database: they never make one.
OpenedDatabase == shell.pc \in {"migrate", "normal"} => db # NoDb

\* The wrapped key comes before the database: its wrapping key is in reach or lost.
WrappedInReach == wrap # NoWrap => InReach(wrap.key) \/ wrap.key \in lostKeys

\* The wrapping key a start holds: what was found, or a new one where nothing is
\* wrapped; once stored, it is in the Keychain or it is lost.
HoldsDeviceKey ==
    /\ shell.pc \in {"purge", "add", "wrap"} => shell.key # 0
    /\ shell.pc = "purge" => Found = shell.key \/ wrap = NoWrap
    /\ shell.pc = "add" => Found = 0
    /\ shell.pc = "wrap" => Found = shell.key \/ shell.key \in lostKeys

KeyInv == WrappedInReach /\ HoldsDeviceKey

\* The inductive invariant.  VaultOpensDatabase alone is not inductive: a start that
\* held another vault key than the wrapped one would give it to a new database, and
\* one that had found no database would write a version into it.  The wrapping key is
\* traced from the item it is found in to the item it is stored in.
FileInv == TypeOK /\ DatabaseWrapped /\ FilesHaveKeys /\ HoldsWrapped /\ OpenedDatabase
IInv == FileInv /\ KeyInv

\* A key that was stored before needs two numbers.
Sized == MaxKeys \in Nat /\ MaxKeys >= 2 /\ MaxFaults \in Nat

-----------------------------------------------------------------------------
\* The fields of the process that has not started.
LEMMA OffShell == Sized => Off \in Shell /\ Off.pc = "off"
BY DEF Sized, Off, Shell

\* The start of the program, on a new disk or on that of an earlier build.
LEMMA InitFileInv == Sized /\ Init => FileInv
<1> SUFFICES ASSUME Sized, Init PROVE FileInv
  OBVIOUS
<1>1. /\ shell \in Shell /\ shell.pc = "off"
      /\ marker \in BOOLEAN /\ export.db = NoDb
  BY OffShell DEF Init
<1>2. CASE item = [g \in Groups |-> 0] /\ wrap = NoWrap /\ db = NoDb /\ keys = 0
  BY <1>1, <1>2 DEF Sized, Init, Shell, FileInv, TypeOK, DatabaseWrapped, FilesHaveKeys,
     HoldsWrapped, OpenedDatabase, NoWrap, NoDb, CurrentSchema
<1>3. ASSUME NEW g \in Groups, NEW v \in 1..(CurrentSchema + 1),
             item = [h \in Groups |-> IF h = g THEN 1 ELSE 0],
             wrap = [key |-> 1, vault |-> 2], keys = 2,
             db = [vault |-> 2, schema |-> v, mail |-> TRUE]
      PROVE  FileInv
  BY <1>1, <1>3 DEF Sized, Init, Shell, FileInv, TypeOK, DatabaseWrapped, FilesHaveKeys,
     HoldsWrapped, OpenedDatabase, NoWrap, NoDb, CurrentSchema
<1> QED BY <1>2, <1>3 DEF Init

\* What Closed and To do to the shell.
LEMMA ShellMoves ==
    ASSUME TypeOK, Sized
    PROVE  /\ Closed => shell' \in Shell /\ shell'.pc = "safe"
           /\ \A pc \in {"add", "wrap", "migrate", "normal", "reset"} :
                  To(pc) => /\ shell' \in Shell /\ shell'.pc = pc
                            /\ shell'.vault = shell.vault
BY OffShell DEF TypeOK, Sized, Shell, Closed, To

\* A wrapping key that is being stored has a number.
LEMMA HeldKey == FileInv /\ KeyInv /\ Sized /\ shell.pc = "add" => shell.key \in 1..MaxKeys
<1> SUFFICES ASSUME FileInv, KeyInv, Sized, shell.pc = "add" PROVE shell.key \in 1..MaxKeys
  OBVIOUS
<1>1. shell.key \in 0..MaxKeys
  BY DEF FileInv, TypeOK
<1>2. shell.key # 0
  BY DEF KeyInv, HoldsDeviceKey
<1> QED BY <1>1, <1>2 DEF Sized

\* open_or_create up to the wrapped key: nothing on disk changes.
LEMMA StartStep ==
    ASSUME FileInv, KeyInv, Sized, Start \/ DatabaseRepair \/ Load \/ Purge \/ Add
    PROVE  FileInv'
<1>1. shell' \in Shell /\ shell'.pc \in {"safe", "load", "purge", "add", "wrap"}
  <2>1. CASE Start \/ DatabaseRepair
    BY <2>1, ShellMoves, OffShell DEF FileInv, Sized, Start, DatabaseRepair, Shell
  <2>2. CASE Load
    <3>1. Found \in 0..MaxKeys /\ shell \in Shell
      BY DEF FileInv, TypeOK, Shell, Found, Groups
    <3>2. ASSUME NEW k \in 0..MaxKeys, NEW b \in BOOLEAN,
                 shell' = [shell EXCEPT !.pc = "purge", !.key = k, !.new = b]
          PROVE  shell' \in Shell /\ shell'.pc = "purge"
      BY <3>1, <3>2 DEF Shell
    <3>3. ASSUME NEW k \in 0..MaxKeys, shell' = [shell EXCEPT !.pc = "purge", !.key = k]
          PROVE  shell' \in Shell /\ shell'.pc = "purge"
      BY <3>1, <3>3 DEF Shell
    <3>4. keys < MaxKeys => keys + 1 \in 0..MaxKeys
      BY DEF FileInv, TypeOK, Sized
    <3>5. CASE shell' = [shell EXCEPT !.pc = "purge", !.key = Found]
      BY <3>1, <3>3, <3>5
    <3>6. CASE /\ keys < MaxKeys
               /\ shell' = [shell EXCEPT !.pc = "purge", !.key = keys + 1, !.new = TRUE]
      BY <3>2, <3>4, <3>6
    <3>7. CASE Closed
      BY <3>7, ShellMoves DEF FileInv
    <3> QED BY <2>2, <3>5, <3>6, <3>7 DEF Load
  <2>3. CASE Purge \/ Add
    BY <2>3, ShellMoves DEF FileInv, Purge, Add
  <2> QED BY <2>1, <2>2, <2>3
<1>2. /\ item' \in [Groups -> 0..MaxKeys] /\ keys' \in 0..MaxKeys
      /\ faults' \in 0..MaxFaults
  BY DEF FileInv, TypeOK, Sized, Start, DatabaseRepair, Load, Purge, Add, Fails, Goes, Groups
<1>3. UNCHANGED <<wrap, db, marker, export>>
  BY DEF Start, DatabaseRepair, Load, Purge, Add, disk
<1>4. lostKeys' \subseteq 1..MaxKeys
  <2>1. lostKeys' = lostKeys \/ (shell.pc = "add" /\ lostKeys' = lostKeys \cup {shell.key})
    BY DEF Start, DatabaseRepair, Load, Purge, Add
  <2> QED BY <2>1, HeldKey DEF FileInv, TypeOK
<1> QED BY <1>1, <1>2, <1>3, <1>4 DEF FileInv, TypeOK, Shell, DatabaseWrapped, FilesHaveKeys,
                                HoldsWrapped, OpenedDatabase, NoDb

\* The wrapped key is read, or made while there is no database yet.
LEMMA WrapStep ==
    ASSUME FileInv, Sized, Wrap
    PROVE  FileInv'
<1>1. UNCHANGED <<item, db, marker, export, lostKeys>> /\ faults' \in 0..MaxFaults
  BY DEF FileInv, TypeOK, Sized, Wrap, Fails, Goes
<1>2. CASE Closed /\ UNCHANGED <<wrap, keys>>
  BY <1>1, <1>2, ShellMoves DEF FileInv, TypeOK, Shell, DatabaseWrapped, FilesHaveKeys,
     HoldsWrapped, OpenedDatabase
<1>3. CASE /\ wrap # NoWrap /\ UNCHANGED <<wrap, keys>>
           /\ shell' = [shell EXCEPT !.pc = "open", !.vault = wrap.vault]
  <2>1. shell' \in Shell /\ shell'.pc = "open" /\ shell'.vault = wrap.vault
    BY <1>3 DEF FileInv, TypeOK, Shell
  <2> QED BY <1>1, <1>3, <2>1 DEF FileInv, TypeOK, Shell, DatabaseWrapped, FilesHaveKeys,
             HoldsWrapped, OpenedDatabase
<1>4. CASE /\ wrap = NoWrap /\ keys < MaxKeys /\ keys' = keys + 1
           /\ wrap' = [key |-> shell.key, vault |-> keys + 1]
           /\ shell' = [shell EXCEPT !.pc = "open", !.vault = keys + 1]
  <2>1. keys' \in 1..MaxKeys
    BY <1>4 DEF FileInv, TypeOK, Sized
  <2>2. shell' \in Shell /\ shell'.pc = "open" /\ shell'.vault = keys'
    <3>1. shell' = [shell EXCEPT !.pc = "open", !.vault = keys'] /\ keys' \in 0..MaxKeys
      BY <1>4, <2>1
    <3> QED BY <3>1 DEF FileInv, TypeOK, Shell
  <2>3. /\ wrap' \in [key : 0..MaxKeys, vault : 0..MaxKeys]
        /\ wrap'.vault = keys' /\ wrap'.vault # 0
    BY <1>4, <2>1 DEF FileInv, TypeOK
  <2>4. db = NoDb
    BY <1>4 DEF FileInv, DatabaseWrapped, FilesHaveKeys, NoWrap
  <2> QED BY <1>1, <2>1, <2>2, <2>3, <2>4 DEF FileInv, TypeOK, Shell, DatabaseWrapped,
             FilesHaveKeys, HoldsWrapped, OpenedDatabase, NoDb
<1> QED BY <1>2, <1>3, <1>4 DEF Wrap

\* The database is made with the vault key that is wrapped, or must answer to it.
LEMMA OpenStep ==
    ASSUME FileInv, Sized, Open
    PROVE  FileInv'
<1>1. /\ UNCHANGED <<item, wrap, marker, export, keys, faults, lostKeys>>
      /\ shell.pc = "open" /\ shell.vault = wrap.vault /\ shell.vault # 0
      /\ shell.vault \in 0..MaxKeys
  BY DEF FileInv, TypeOK, HoldsWrapped, Open, Goes
<1>2. /\ db' \in [vault : 0..MaxKeys, schema : 0..(CurrentSchema + 1), mail : BOOLEAN]
      /\ db'.vault = wrap.vault
  <2>1. CASE db = NoDb
    <3> DEFINE made == [NoDb EXCEPT !.vault = shell.vault]
    <3>1. NoDb \in [vault : 0..MaxKeys, schema : 0..(CurrentSchema + 1), mail : BOOLEAN]
      BY DEF Sized, NoDb, CurrentSchema
    <3> QED BY <1>1, <2>1, <3>1 DEF Open
  <2>2. CASE db # NoDb
    BY <1>1, <2>2 DEF FileInv, TypeOK, DatabaseWrapped, Open
  <2> QED BY <2>1, <2>2
<1>3. shell' \in Shell /\ shell'.pc \in {"safe", "migrate"}
  BY ShellMoves DEF FileInv, Open
<1> QED BY <1>1, <1>2, <1>3 DEF FileInv, TypeOK, Shell, DatabaseWrapped, FilesHaveKeys,
           HoldsWrapped, OpenedDatabase, NoDb

\* A migration or a mail changes a database that is there.
LEMMA MigrateStep ==
    ASSUME FileInv, Sized, Migrate \/ StoreMail
    PROVE  FileInv'
<1>1. /\ UNCHANGED <<item, wrap, marker, export, keys, lostKeys>> /\ faults' \in 0..MaxFaults
      /\ db # NoDb
  BY DEF FileInv, TypeOK, Sized, OpenedDatabase, Migrate, StoreMail, Fails, Goes
<1>2. /\ db' \in [vault : 0..MaxKeys, schema : 0..(CurrentSchema + 1), mail : BOOLEAN]
      /\ db'.vault = db.vault
  <2>1. CASE Migrate /\ db.schema < CurrentSchema /\ db' = [db EXCEPT !.schema = @ + 1]
    <3>1. db.schema + 1 \in 0..(CurrentSchema + 1)
      BY <2>1 DEF FileInv, TypeOK, CurrentSchema
    <3> QED BY <2>1, <3>1 DEF FileInv, TypeOK
  <2>2. CASE StoreMail
    BY <2>2 DEF FileInv, TypeOK, StoreMail
  <2>3. CASE db' = db
    BY <2>3 DEF FileInv, TypeOK
  <2> QED BY <2>1, <2>2, <2>3 DEF Migrate
<1>3. shell' \in Shell /\ shell'.pc \in {"safe", "migrate", "normal"}
  BY ShellMoves DEF FileInv, TypeOK, Shell, Migrate, StoreMail
<1> QED BY <1>1, <1>2, <1>3 DEF FileInv, TypeOK, Shell, DatabaseWrapped, FilesHaveKeys,
           HoldsWrapped, OpenedDatabase, NoDb

\* The marker and the recovery bundle.
LEMMA SupportStep ==
    ASSUME FileInv, Sized, SetSafeMode \/ ExportRecoveryBundle
    PROVE  FileInv'
<1>1. UNCHANGED <<item, wrap, db, shell, keys, faults, lostKeys>> /\ marker' \in BOOLEAN
  BY DEF FileInv, TypeOK, SetSafeMode, ExportRecoveryBundle
<1>2. export'.db = NoDb \/ export'.db.vault \in 1..MaxKeys
  <2>1. CASE SetSafeMode
    BY <2>1 DEF FileInv, TypeOK, SetSafeMode
  <2>2. CASE ExportRecoveryBundle
    BY <2>2 DEF FileInv, TypeOK, Sized, FilesHaveKeys, ExportRecoveryBundle
  <2> QED BY <2>1, <2>2
<1> QED BY <1>1, <1>2 DEF FileInv, TypeOK, DatabaseWrapped, FilesHaveKeys, HoldsWrapped,
                          OpenedDatabase

\* A reset takes the database first, then the wrapped key; a crash takes the process.
LEMMA ResetStep ==
    ASSUME FileInv, KeyInv, Sized, ResetBegins \/ ResetEnds \/ Quit
    PROVE  FileInv'
<1>1. /\ UNCHANGED <<item, export, keys>> /\ marker' \in BOOLEAN /\ faults' \in 0..MaxFaults
  <2>1. UNCHANGED faults \/ Fails
    BY DEF ResetBegins, ResetEnds, Quit, Goes
  <2>2. faults' \in 0..MaxFaults
    BY <2>1 DEF FileInv, TypeOK, Sized, Fails
  <2>3. UNCHANGED <<item, export, keys>> /\ (marker' = marker \/ marker' = FALSE)
    BY DEF ResetBegins, ResetEnds, Quit, disk
  <2> QED BY <2>2, <2>3 DEF FileInv, TypeOK
<1>2. /\ db' = db \/ db' = NoDb
      /\ wrap' = wrap \/ (wrap' = NoWrap /\ db' = NoDb)
  <2>1. CASE ResetBegins
    BY <2>1 DEF ResetBegins, RemoveFirst
  <2>2. CASE ResetEnds
    BY <2>2 DEF ResetEnds, RemoveLast
  <2> QED BY <2>1, <2>2 DEF Quit, disk
<1>3. shell' \in Shell /\ shell'.pc \in {"safe", "reset", "off"}
  BY ShellMoves, OffShell DEF FileInv, TypeOK, Shell, ResetBegins, ResetEnds, Quit
<1>4. lostKeys' \subseteq 1..MaxKeys
  <2>1. lostKeys' = lostKeys \/ (shell.pc = "add" /\ lostKeys' = lostKeys \cup {shell.key})
    BY DEF ResetBegins, ResetEnds, Quit
  <2> QED BY <2>1, HeldKey DEF FileInv, TypeOK
<1>5. /\ NoDb \in [vault : 0..MaxKeys, schema : 0..(CurrentSchema + 1), mail : BOOLEAN]
      /\ NoWrap \in [key : 0..MaxKeys, vault : 0..MaxKeys]
  BY DEF Sized, NoDb, NoWrap, CurrentSchema
<1> QED BY <1>1, <1>2, <1>3, <1>4, <1>5 DEF FileInv, TypeOK, Shell, DatabaseWrapped,
           FilesHaveKeys, HoldsWrapped, OpenedDatabase

\* Nothing is stored anew yet, and the key of an earlier build is in its item.
LEMMA InitKeyInv == Sized /\ Init => KeyInv
<1> SUFFICES ASSUME Sized, Init PROVE KeyInv
  OBVIOUS
<1>1. shell.pc = "off"
  BY OffShell DEF Init
<1>2. wrap # NoWrap => wrap.key = 1 /\ Found = 1
  BY DEF Init, Found, Groups
<1> QED BY <1>1, <1>2 DEF KeyInv, WrappedInReach, HoldsDeviceKey, InReach

\* What neither touches the items nor goes on with a wrapping key keeps KeyInv, if a
\* process that was storing one counts its key as lost.
LEMMA KeyFrame ==
    ASSUME KeyInv, UNCHANGED item, wrap' = wrap \/ wrap' = NoWrap, lostKeys \subseteq lostKeys',
           shell'.pc \notin {"purge", "add", "wrap"},
           shell.pc = "add" => shell.key \in lostKeys'
    PROVE  KeyInv'
<1>1. Found' = Found
  BY DEF Found
<1> QED BY <1>1 DEF KeyInv, WrappedInReach, HoldsDeviceKey, InReach

\* The wrapping key is found or generated, its item goes, and comes back or is lost.
LEMMA StoreStep ==
    ASSUME FileInv, KeyInv, Sized, Load \/ Purge \/ Add \/ Wrap
    PROVE  KeyInv'
<1>1. CASE Closed /\ UNCHANGED <<item, wrap>> /\ lostKeys \subseteq lostKeys'
           /\ (shell.pc = "add" => shell.key \in lostKeys')
  <2>1. shell'.pc = "safe"
    BY <1>1, ShellMoves DEF FileInv
  <2> QED BY <1>1, <2>1, KeyFrame
<1>2. CASE Load /\ ~Closed
  <2>1. UNCHANGED <<item, wrap, lostKeys>> /\ shell.pc = "load" /\ Found' = Found
    BY <1>2 DEF Load, disk, Found
  <2>2. /\ shell'.pc = "purge" /\ shell'.key # 0
        /\ shell'.key = Found \/ wrap = NoWrap
    <3>1. shell \in Shell /\ keys \in Nat
      BY DEF FileInv, TypeOK, Shell
    <3>2. CASE Found # 0 /\ shell' = [shell EXCEPT !.pc = "purge", !.key = Found]
      BY <3>1, <3>2 DEF Shell
    <3>3. CASE /\ wrap = NoWrap
               /\ shell' = [shell EXCEPT !.pc = "purge", !.key = keys + 1, !.new = TRUE]
      BY <3>1, <3>3 DEF Shell
    <3> QED BY <1>2, <3>2, <3>3 DEF Load
  <2> QED BY <2>1, <2>2 DEF KeyInv, WrappedInReach, HoldsDeviceKey, InReach
<1>3. CASE Purge
  <2>1. /\ UNCHANGED <<wrap, lostKeys>> /\ shell.pc = "purge"
        /\ shell'.pc = "add" /\ shell'.key = shell.key
    BY <1>3 DEF Purge, disk, To, FileInv, TypeOK
  <2>2. Found' = 0
    BY <1>3 DEF Purge, Found, Groups
  <2> QED BY <2>1, <2>2 DEF KeyInv, WrappedInReach, HoldsDeviceKey, InReach
<1>4. CASE Add /\ ~Closed
  <2>1. /\ UNCHANGED wrap /\ shell.pc = "add" /\ shell.key # 0
        /\ shell'.pc = "wrap" /\ shell'.key = shell.key
        /\ lostKeys \subseteq lostKeys'
    BY <1>4 DEF Add, disk, To, FileInv, TypeOK, KeyInv, HoldsDeviceKey
  <2>2. Found' = shell.key \/ shell.key \in lostKeys'
    <3>1. CASE item' = [item EXCEPT !["app"] = shell.key]
      BY <2>1, <3>1 DEF Found, Groups, FileInv, TypeOK
    <3>2. CASE lostKeys' = lostKeys \cup {shell.key}
      BY <3>2
    <3> QED BY <1>4, <3>1, <3>2 DEF Add
  <2>3. Found = 0
    BY <2>1 DEF KeyInv, HoldsDeviceKey
  <2> QED BY <2>1, <2>2, <2>3 DEF KeyInv, WrappedInReach, HoldsDeviceKey, InReach
<1>5. CASE Wrap /\ ~Closed
  <2>1. /\ UNCHANGED <<item, lostKeys>> /\ shell.pc = "wrap" /\ shell'.pc = "open"
        /\ UNCHANGED wrap \/ wrap'.key = shell.key
    <3>1. shell \in Shell
      BY DEF FileInv, TypeOK, Shell
    <3>2. CASE UNCHANGED wrap /\ shell' = [shell EXCEPT !.pc = "open", !.vault = wrap.vault]
      BY <1>5, <3>1, <3>2 DEF Wrap, Shell
    <3>3. CASE /\ wrap' = [key |-> shell.key, vault |-> keys + 1]
               /\ shell' = [shell EXCEPT !.pc = "open", !.vault = keys + 1]
      BY <1>5, <3>1, <3>3 DEF Wrap, Shell
    <3> QED BY <1>5, <3>2, <3>3 DEF Wrap
  <2>2. Found' = Found /\ shell.key # 0 /\ (Found = shell.key \/ shell.key \in lostKeys)
    BY <2>1 DEF Found, KeyInv, HoldsDeviceKey
  <2> QED BY <2>1, <2>2 DEF KeyInv, WrappedInReach, HoldsDeviceKey, InReach
<1>6. CASE Closed /\ (Load \/ Add \/ Wrap)
  <2>1. shell'.pc = "safe"
    BY <1>6, ShellMoves DEF FileInv
  <2>2. UNCHANGED <<item, wrap>> /\ lostKeys \subseteq lostKeys'
    <3>1. CASE Load
      BY <3>1 DEF Load, disk
    <3>2. CASE Add
      BY <1>6, <2>1, <3>2, ShellMoves DEF Add, disk, FileInv
    <3>3. CASE Wrap
      <4>1. shell' # [shell EXCEPT !.pc = "open", !.vault = keys + 1]
        BY <2>1 DEF FileInv, TypeOK
      <4> QED BY <3>3, <4>1 DEF Wrap
    <3> QED BY <1>6, <3>1, <3>2, <3>3
  <2>3. shell.pc = "add" => shell.key \in lostKeys'
    <3>1. CASE Add
      BY <2>1, <3>1, ShellMoves DEF Add, FileInv
    <3> QED BY <1>6, <3>1 DEF Load, Wrap
  <2> QED BY <1>1, <1>6, <2>2, <2>3
<1> QED BY <1>2, <1>3, <1>4, <1>5, <1>6

\* The others leave the Keychain alone.
LEMMA OtherKeyStep ==
    ASSUME FileInv, KeyInv, Sized,
           \/ Start \/ DatabaseRepair \/ Open \/ Migrate \/ StoreMail \/ SetSafeMode
           \/ ExportRecoveryBundle \/ ResetBegins \/ ResetEnds \/ Quit
    PROVE  KeyInv'
<1>1. /\ UNCHANGED item /\ (wrap' = wrap \/ wrap' = NoWrap)
      /\ lostKeys \subseteq lostKeys' /\ (shell.pc = "add" => shell.key \in lostKeys')
  BY DEF Start, DatabaseRepair, Open, Migrate, StoreMail, SetSafeMode, ExportRecoveryBundle,
     ResetBegins, ResetEnds, RemoveFirst, RemoveLast, Quit, disk
<1>2. shell'.pc \notin {"purge", "add", "wrap"}
  <2>1. CASE \/ Start \/ DatabaseRepair \/ Quit
    BY <2>1, ShellMoves, OffShell DEF FileInv, TypeOK, Start, DatabaseRepair, Quit, Off, Closed
  <2>2. CASE Open \/ Migrate \/ ResetBegins \/ ResetEnds
    BY <2>2, ShellMoves, OffShell DEF FileInv, Open, Migrate, ResetBegins, ResetEnds
  <2>3. CASE StoreMail \/ SetSafeMode \/ ExportRecoveryBundle
    BY <2>3 DEF StoreMail, SetSafeMode, ExportRecoveryBundle
  <2> QED BY <2>1, <2>2, <2>3
<1> QED BY <1>1, <1>2, KeyFrame

\* The start of the program.
LEMMA InitIInv == Sized /\ Init => IInv
BY InitFileInv, InitKeyInv DEF IInv

\* A step of the vault keeps the inductive invariant.
THEOREM NextIInv == Sized /\ IInv /\ [Next]_vars => IInv'
<1> SUFFICES ASSUME Sized, IInv, [Next]_vars PROVE IInv'
  OBVIOUS
<1>1. CASE UNCHANGED vars
  BY <1>1 DEF vars, IInv, FileInv, TypeOK, DatabaseWrapped, FilesHaveKeys, HoldsWrapped,
     OpenedDatabase, KeyInv, WrappedInReach, HoldsDeviceKey, InReach, Found
<1>2. CASE Next
  <2>1. FileInv'
    BY <1>2, StartStep, WrapStep, OpenStep, MigrateStep, SupportStep, ResetStep DEF Next, IInv
  <2>2. KeyInv'
    BY <1>2, StoreStep, OtherKeyStep DEF Next, IInv
  <2> QED BY <2>1, <2>2 DEF IInv
<1> QED BY <1>1, <1>2

\* Vault: its type invariant, and the invariant of the proof.
THEOREM Invariant == ASSUME Sized PROVE Spec => []IInv
BY InitIInv, NextIInv, PTL DEF Spec

\* A database has a wrapped key, which is its own and whose wrapping key is in reach.
LEMMA InvOpens == IInv => VaultOpensDatabase
BY DEF IInv, FileInv, KeyInv, DatabaseWrapped, FilesHaveKeys, WrappedInReach,
   VaultOpensDatabase, NoWrap

\* VaultOpensDatabase, for every number of keys and faults (open_or_create,
\* store_app_private_generic_password, reset_local_database): no crash leaves a database
\* that its wrapped key cannot open, nor one without its wrapping key but when the key
\* was lost between the removal of its item and the addition of the new one.
THEOREM DatabaseOpens == ASSUME Sized PROVE Spec => []VaultOpensDatabase
BY Invariant, InvOpens, PTL
=============================================================================
