------------------------------ MODULE Accounts ------------------------------
(* Connected accounts: signing in (gmail_oauth.rs, microsoft_oauth.rs, the     *)
(* iOS presenter), the tokens in the Keychain (secure_storage.rs), the session *)
(* the webview keeps of them (account-session.ts, runtime.ts) and the removal  *)
(* of an account (lib.rs, App.tsx).                                            *)
(*                                                                             *)
(* Commands of the shell run concurrently and await the provider; nothing      *)
(* orders two of them that are about one account.  A request stands for a      *)
(* synchronisation that asks the provider, stores what it got and asks again,  *)
(* also when its runtime has been replaced meanwhile.                          *)
EXTENDS Naturals, FiniteSets

CONSTANTS
    Gmail, Microsoft,   \* accounts by provider
    MaxOps,             \* sign-ins, synchronisations, removals
    MaxFaults           \* calls that fail, ends of the application

VARIABLES
    honoured,   \* accounts whose grant the provider accepts
    keychain,   \* keychain[service][a]: the bundle of the account
    ids,        \* galmail.accountIds in localStorage
    scalar,     \* the deprecated keys: one account of each provider
    rows,       \* accounts with records in the encrypted database
    accounts,   \* accounts of the runtime; none while signing in
    boot,       \* listings of the Keychain on their way to a new runtime
    attempt,    \* the sign-in of the user
    req,        \* a synchronisation
    removal, removed,   \* removed: what went through, until connected again
    ops, faults

vars == <<honoured, keychain, ids, scalar, rows, accounts, boot, attempt, req, removal, removed,
          ops, faults>>
session == <<ids, scalar, accounts, boot>>
bounds == <<ops, faults>>

Accounts == Gmail \cup Microsoft
Nobody == "nobody"
Services == {"oauth", "legacy"}
\* The access token of a bundle is good for a while; its refresh token is not told
\* apart from an earlier one.
Bundles == {"none", "fresh", "expired"}
Idle == [pc |-> "idle", acct |-> Nobody, retried |-> FALSE]
NoRemoval == [pc |-> "none", acct |-> Nobody, quiet |-> TRUE, ok |-> TRUE]
NoAttempt == [pc |-> "none", of |-> {}, acct |-> Nobody]

TypeOK ==
    /\ honoured \subseteq Accounts /\ keychain \in [Services -> [Accounts -> Bundles]]
    /\ ids \subseteq Accounts /\ rows \subseteq Accounts /\ accounts \subseteq Accounts
    /\ scalar.gmail \in Gmail \cup {Nobody} /\ scalar.microsoft \in Microsoft \cup {Nobody}
    /\ boot \subseteq SUBSET Accounts
    /\ attempt \in [pc : {"none", "waiting", "called", "code", "token", "stored", "added"},
                   of : {{}, Gmail, Microsoft}, acct : Accounts \cup {Nobody}]
    /\ req \in [pc : {"idle", "load", "refreshing", "refreshed", "sent", "got"},
               acct : Accounts \cup {Nobody}, retried : BOOLEAN]
    /\ removal \in [pc : {"none", "revoking", "deleting", "forget", "boot"},
                   acct : Accounts \cup {Nobody}, quiet : BOOLEAN, ok : BOOLEAN]
    /\ removed \subseteq [acct : Accounts, quiet : BOOLEAN]
    /\ ops \in 0..MaxOps /\ faults \in 0..MaxFaults

-----------------------------------------------------------------------------
(* The Keychain: reads look at the service of older versions too and move     *)
(* what they find.                                                            *)

Holds(k, a) == \E s \in Services : k[s][a] # "none"
StoreToken(k, a, b) == [k EXCEPT !["oauth"][a] = b, !["legacy"][a] = "none"]
DeleteToken(k, a) == [s \in Services |-> [k[s] EXCEPT ![a] = "none"]]
LoadToken(k, a) ==
    IF k["oauth"][a] # "none" THEN k ELSE StoreToken(k, a, k["legacy"][a])
\* Listing moves every item of the old service, over what the new one has.
ListAndMigrate(k) ==
    [s \in Services |-> [a \in Accounts |->
        IF k["legacy"][a] = "none" THEN k[s][a]
        ELSE IF s = "legacy" THEN "none" ELSE k["legacy"][a]]]

(* The session: the deprecated keys are read with the list and kept in step.   *)

Scalars == {scalar.gmail, scalar.microsoft} \ {Nobody}
StoredIds == ids \cup Scalars
FirstOf(S, old) ==
    IF S = {} THEN Nobody ELSE IF old \in S THEN old ELSE CHOOSE a \in S : TRUE

\* Mutant of WriteIds: the deprecated Microsoft key outlives the last Microsoft account.
MutantKeepsScalar(S) ==
    /\ ids' = S
    /\ scalar' = [gmail |-> FirstOf(S \cap Gmail, scalar.gmail),
                  microsoft |-> IF S \cap Microsoft = {} THEN scalar.microsoft
                                ELSE FirstOf(S \cap Microsoft, scalar.microsoft)]

WriteIds(S) ==
    /\ ids' = S
    /\ scalar' = [gmail |-> FirstOf(S \cap Gmail, scalar.gmail),
                  microsoft |-> FirstOf(S \cap Microsoft, scalar.microsoft)]
Fails == faults < MaxFaults /\ faults' = faults + 1 /\ UNCHANGED ops
Acts == ops < MaxOps /\ ops' = ops + 1 /\ UNCHANGED faults
Goes == UNCHANGED bounds

-----------------------------------------------------------------------------
(* Signing in.                                                                *)

\* begin: one sign-in at a time, whose callback is awaited.
Begins(P) ==
    /\ attempt.pc = "none" /\ Acts
    /\ attempt' = [NoAttempt EXCEPT !.pc = "waiting", !.of = P]
    /\ UNCHANGED <<honoured, keychain, rows, session, req, removal, removed>>

BeginGmail == Begins(Gmail)
BeginMicrosoft == Begins(Microsoft)

Hears(calls) ==
    /\ attempt.pc = "waiting" /\ Goes
    /\ attempt' \in calls \cup {NoAttempt}
    /\ UNCHANGED <<honoured, keychain, rows, session, req, removal, removed>>

Called(accts) == [pc : {"called"}, of : {attempt.of}, acct : accts]

\* The browser is sent to the loopback listener with the state of this attempt and
\* a code for the account the user chose, or an error; other requests are answered
\* and forgotten; or nobody comes in time.
AcceptCallback == Hears(Called(attempt.of \cup {Nobody}))

\* On iOS the presenter's session hands over the URL with the code; a sheet the user
\* dismisses, a presenter that cannot start and a dropped waiter are errors.
DeliverCallback == Hears(Called(attempt.of))

\* complete takes the attempt out of the pending ones: a code, or a denial.
Completes(P) ==
    /\ attempt.pc = "called" /\ attempt.of = P /\ Goes
    /\ attempt' = IF attempt.acct = Nobody THEN NoAttempt ELSE [attempt EXCEPT !.pc = "code"]
    /\ UNCHANGED <<honoured, keychain, rows, session, req, removal, removed>>

CompleteGmail == Completes(Gmail)
CompleteMicrosoft == Completes(Microsoft)

Exchanges(P) ==
    /\ attempt.pc = "code" /\ attempt.of = P
    /\ \/ /\ honoured' = honoured \cup {attempt.acct}
          /\ attempt' = [attempt EXCEPT !.pc = "token"] /\ Goes
       \/ Fails /\ attempt' = NoAttempt /\ UNCHANGED honoured
    /\ UNCHANGED <<keychain, rows, session, req, removal, removed>>

ExchangeGmailCode == Exchanges(Gmail)
ExchangeMicrosoftCode == Exchanges(Microsoft)

\* The account is connected again: no removal before it counts, and none under way.
Connects(a) ==
    /\ removed' = {x \in removed : x.acct # a}
    /\ removal' = IF removal.acct = a THEN [removal EXCEPT !.ok = FALSE] ELSE removal

\* The profile names the account; a failure leaves a grant that nobody holds.
Finishes(P) ==
    /\ attempt.pc = "token" /\ attempt.of = P
    /\ \/ /\ keychain' = StoreToken(keychain, attempt.acct, "fresh")
          /\ Connects(attempt.acct)
          /\ attempt' = [attempt EXCEPT !.pc = "stored"] /\ Goes
       \/ Fails /\ attempt' = NoAttempt /\ UNCHANGED <<keychain, removal, removed>>
    /\ UNCHANGED <<honoured, rows, session, req>>

FinishGmail == Finishes(Gmail)
FinishMicrosoft == Finishes(Microsoft)

\* The answer reaches the webview.
Adds(P) ==
    /\ attempt.pc = "stored" /\ attempt.of = P /\ Goes
    /\ attempt' = [attempt EXCEPT !.pc = "added"]
    /\ WriteIds(StoredIds \cup {attempt.acct}) /\ Connects(attempt.acct)
    /\ UNCHANGED <<honoured, keychain, rows, accounts, boot, req>>

ConnectGmailWithPkce == Adds(Gmail)
ConnectMicrosoftWithPkce == Adds(Microsoft)

-----------------------------------------------------------------------------
(* A runtime: made at the start if an account is known, after a sign-in and   *)
(* after a removal.                                                           *)

ListAccountIds ==
    /\ keychain' = ListAndMigrate(keychain)
    /\ boot' = boot \cup {{a \in Accounts : Holds(keychain, a)}}
    /\ Goes /\ UNCHANGED <<honoured, ids, scalar, rows, accounts, req, removed>>

Start ==
    /\ accounts = {} /\ boot = {} /\ StoredIds # {} /\ removal.pc = "none"
    /\ ListAccountIds /\ UNCHANGED <<attempt, removal>>

StartAfterSignIn ==
    /\ attempt.pc = "added"
    /\ attempt' = NoAttempt
    /\ ListAccountIds /\ UNCHANGED removal

StartAfterRemoval ==
    /\ removal.pc = "boot"
    /\ removal' = NoRemoval
    /\ ListAccountIds /\ UNCHANGED attempt

\* reconcileAccountIdsFromKeychain, createLiveRuntime; without the listing the
\* session is taken as it is.
CreateRuntime(S) ==
    /\ boot' = boot \ {S}
    /\ \/ WriteIds(StoredIds \cup S) /\ accounts' = StoredIds \cup S /\ Goes
       \/ WriteIds(StoredIds) /\ accounts' = StoredIds /\ Fails
    /\ UNCHANGED <<honoured, keychain, rows, attempt, req, removal, removed>>

-----------------------------------------------------------------------------
(* Requests: api_request, google_http_request, and what a synchronisation     *)
(* does with the answer.                                                      *)

Sync(a) ==
    /\ req.pc = "idle" /\ a \in accounts /\ Acts
    /\ req' = [Idle EXCEPT !.pc = "load", !.acct = a]
    /\ UNCHANGED <<honoured, keychain, rows, session, attempt, removal, removed>>

\* The token is loaded; one that has expired is refreshed, and so is one that the
\* provider turned down, once.
Authorize(refreshAnyway) ==
    LET k == LoadToken(keychain, req.acct)  b == k["oauth"][req.acct] IN
    /\ keychain' = k
    /\ req' = IF b = "none" THEN Idle
              ELSE [req EXCEPT !.retried = refreshAnyway,
                    !.pc = IF b = "fresh" /\ ~refreshAnyway THEN "sent" ELSE "refreshing"]

AccessToken ==
    /\ req.pc = "load" /\ Authorize(FALSE) /\ Goes
    /\ UNCHANGED <<honoured, rows, session, attempt, removal, removed>>

Refreshes(P) ==
    /\ req.pc = "refreshing" /\ req.acct \in P
    /\ \/ /\ req' = IF req.acct \in honoured THEN [req EXCEPT !.pc = "refreshed"] ELSE Idle
          /\ Goes
       \/ Fails /\ req' = Idle
    /\ UNCHANGED <<honoured, keychain, rows, session, attempt, removal, removed>>

RefreshGmail == Refreshes(Gmail)
RefreshMicrosoft == Refreshes(Microsoft)

StoreRefreshed ==
    /\ req.pc = "refreshed" /\ Goes
    /\ keychain' = StoreToken(keychain, req.acct, "fresh")
    /\ req' = [req EXCEPT !.pc = "sent"]
    /\ UNCHANGED <<honoured, rows, session, attempt, removal, removed>>

\* An answer, a token that is turned down, or an error.
Answers(P) ==
    /\ req.pc = "sent" /\ req.acct \in P
    /\ \/ req' = [req EXCEPT !.pc = "got"] /\ UNCHANGED keychain /\ Goes
       \/ ~req.retried /\ Fails /\ Authorize(TRUE)
       \/ Fails /\ req' = Idle /\ UNCHANGED keychain
    /\ UNCHANGED <<honoured, rows, session, attempt, removal, removed>>

GoogleAnswers == Answers(Gmail)
GraphAnswers == Answers(Microsoft)

\* The synchronisation stores what it got, and goes on or ends.
StoreRows ==
    /\ req.pc = "got" /\ Goes
    /\ rows' = rows \cup {req.acct}
    /\ req' \in {Idle, [req EXCEPT !.pc = "load", !.retried = FALSE]}
    /\ UNCHANGED <<honoured, keychain, session, attempt, removal, removed>>

TokenExpires(a) ==
    /\ keychain["oauth"][a] = "fresh" /\ Goes
    /\ keychain' = [keychain EXCEPT !["oauth"][a] = "expired"]
    /\ UNCHANGED <<honoured, rows, session, attempt, req, removal, removed>>

-----------------------------------------------------------------------------
(* Removing an account: the Keychain first, then the provider, then the rows,  *)
(* then the session, whatever failed.                                          *)

Busy(a) ==
    \/ req.acct = a
    \/ attempt.acct = a /\ attempt.pc = "stored"
    \/ \E S \in boot : a \in S

Removes(a, token, tells) ==
    LET begun == [pc |-> IF tells THEN "revoking" ELSE "deleting", acct |-> a,
                  quiet |-> ~Busy(a), ok |-> TRUE] IN
    \/ keychain' = DeleteToken(token, a) /\ removal' = begun /\ UNCHANGED faults
    \/ /\ faults < MaxFaults /\ faults' = faults + 1
       /\ keychain' = token /\ removal' = [begun EXCEPT !.ok = FALSE]

\* Only the Gmail command reads the token first, and gives up when it cannot.
\* Deleting reports no failure.
RemoveGmail(a) ==
    /\ a \in Gmail \cap accounts /\ removal.pc = "none" /\ ops < MaxOps /\ ops' = ops + 1
    /\ \/ LET k == LoadToken(keychain, a) IN Removes(a, k, Holds(k, a))
       \/ /\ faults < MaxFaults /\ faults' = faults + 1 /\ UNCHANGED keychain
          /\ removal' = [pc |-> "forget", acct |-> a, quiet |-> ~Busy(a), ok |-> FALSE]
    /\ UNCHANGED <<honoured, rows, session, attempt, req, removed>>

DisconnectMicrosoft(a) ==
    /\ a \in Microsoft \cap accounts /\ removal.pc = "none" /\ ops < MaxOps /\ ops' = ops + 1
    /\ Removes(a, keychain, FALSE)
    /\ UNCHANGED <<honoured, rows, session, attempt, req, removed>>

\* A failure is reported, and the token is gone.
Revoke ==
    /\ removal.pc = "revoking"
    /\ removal' = [removal EXCEPT !.pc = "deleting"]
    /\ \/ honoured' = honoured \ {removal.acct} /\ Goes
       \/ Fails /\ UNCHANGED honoured
    /\ UNCHANGED <<keychain, rows, session, attempt, req, removed>>

DeleteRows ==
    /\ removal.pc = "deleting"
    /\ \/ /\ rows' = rows \ {removal.acct} /\ Goes
          /\ removal' = [removal EXCEPT !.pc = "forget"]
       \/ /\ Fails /\ UNCHANGED rows
          /\ removal' = [removal EXCEPT !.pc = "forget", !.ok = FALSE]
    /\ UNCHANGED <<honoured, keychain, session, attempt, req, removed>>

\* removeLiveAccount; another runtime follows, or the sign-in screen.
RemoveLiveAccount ==
    LET left == StoredIds \ {removal.acct} IN
    /\ removal.pc = "forget" /\ Goes
    /\ WriteIds(left)
    /\ accounts' = IF left = {} THEN {} ELSE accounts
    /\ removal' = IF left = {} THEN NoRemoval ELSE [removal EXCEPT !.pc = "boot"]
    /\ removed' = IF ~removal.ok THEN removed
                  ELSE removed \cup {[acct |-> removal.acct, quiet |-> removal.quiet]}
    /\ UNCHANGED <<honoured, keychain, rows, boot, attempt, req>>

-----------------------------------------------------------------------------

\* The application ends; what it keeps in memory is gone.
Quit ==
    /\ (accounts # {} \/ attempt # NoAttempt) /\ Fails
    /\ accounts' = {} /\ boot' = {} /\ removal' = NoRemoval /\ req' = Idle
    /\ attempt' = NoAttempt
    /\ UNCHANGED <<honoured, keychain, ids, scalar, rows, removed>>

\* Some accounts were connected, a version ago or just now.
Init ==
    \E S \in SUBSET Accounts, s \in Services :
        /\ honoured = S /\ rows = S
        /\ keychain = [x \in Services |-> [a \in Accounts |->
               IF x = s /\ a \in S THEN "expired" ELSE "none"]]
        /\ ids = IF s = "oauth" THEN S ELSE {}
        /\ scalar = [gmail |-> FirstOf(S \cap Gmail, Nobody),
                     microsoft |-> FirstOf(S \cap Microsoft, Nobody)]
        /\ accounts = {} /\ boot = {} /\ ops = 0 /\ faults = 0
        /\ attempt = NoAttempt
        /\ req = Idle /\ removal = NoRemoval /\ removed = {}

Next ==
    \/ BeginGmail \/ BeginMicrosoft \/ AcceptCallback \/ DeliverCallback
    \/ CompleteGmail \/ CompleteMicrosoft
    \/ ExchangeGmailCode \/ ExchangeMicrosoftCode \/ FinishGmail \/ FinishMicrosoft
    \/ ConnectGmailWithPkce \/ ConnectMicrosoftWithPkce \/ StartAfterSignIn
    \/ Start \/ StartAfterRemoval \/ \E S \in boot : CreateRuntime(S)
    \/ AccessToken \/ RefreshGmail \/ RefreshMicrosoft \/ StoreRefreshed
    \/ GoogleAnswers \/ GraphAnswers \/ StoreRows
    \/ \E a \in Accounts : Sync(a) \/ TokenExpires(a) \/ RemoveGmail(a) \/ DisconnectMicrosoft(a)
    \/ Revoke \/ DeleteRows \/ RemoveLiveAccount \/ Quit

Spec == Init /\ [][Next]_vars

-----------------------------------------------------------------------------
(* Properties.                                                                *)

Left(a) == Holds(keychain, a) \/ a \in StoredIds \/ a \in rows

\* An account whose removal went through while nothing else was under way for it
\* leaves nothing behind and does not come back, not in a runtime made from the
\* Keychain nor by way of a deprecated key, until the user connects it again.
RemovedStaysRemoved == \A x \in removed : x.quiet => ~Left(x.acct)
=============================================================================
