----------------------------- MODULE MCServices -----------------------------
(* The services around the mail: the push half of the relay, the opt-in        *)
(* processor and the self-hosted API; the MCP session with its bridge, the      *)
(* accounts and the key of the database on the desktop.  They share no state,   *)
(* so a behaviour takes the steps of one of them.                               *)
EXTENDS Naturals, FiniteSets, TLC

CONSTANTS Devices, Routes, Events, Requests, Consumers, Owners, PushTokens,
          MaxEndpoints, MaxRetries, MaxFaults, MaxTokens, MaxOps, MaxVersions,
          Calls, Clients, MaxSessions, Modes, MaxChanges,
          Gmail, Microsoft, MaxKeys, MaxVaultFaults

\* The bounds are numbers; one version of a disclosure and one session there are at
\* least, and what an older build left of the database takes two keys.
ASSUME ServicesAssumption ==
    /\ {MaxEndpoints, MaxRetries, MaxFaults, MaxTokens, MaxOps, MaxChanges, MaxVaultFaults}
          \subseteq Nat
    /\ {MaxVersions, MaxSessions} \subseteq Nat \ {0}
    /\ MaxKeys \in Nat /\ MaxKeys >= 2

VARIABLES part,
    devices, routes, endpoints, gone, events, target, queue, attempts, req, push,
    pushes, answered, skipped, unsure, late, faults,
    tokens, row, inputs, ops, receipts, lastOp, opQueue, opAttempts, opReq,
    opJob, revoked, refused, keepers, ended, replaced, overlapped,
    labVersion, labRow, labInputs, device, labReq,
    policy, changes, cur, known, listeners, held, listening, ipc, bridge, call, job,
    honoured, keychain, ids, scalar, stored, accounts, boot, attempt, sync, removal,
    removed, accountOps, accountFaults,
    item, wrap, db, marker, shell, export, keys, vaultFaults,
    lostKeys

pushVars == <<devices, routes, endpoints, gone, events, target, queue, attempts, req,
              push, pushes, answered, skipped, unsure, late, faults>>
optInVars == <<tokens, row, inputs, ops, receipts, lastOp, opQueue, opAttempts,
               opReq, opJob, revoked, refused, keepers, ended, replaced, overlapped>>
labVars == <<labVersion, labRow, labInputs, device, labReq>>
mcpVars == <<policy, changes, cur, known, listeners, held, listening, ipc, bridge, call, job>>
accountVars == <<honoured, keychain, ids, scalar, stored, accounts, boot, attempt, sync,
                 removal, removed, accountOps, accountFaults>>
vaultVars == <<item, wrap, db, marker, shell, export, keys, vaultFaults, lostKeys>>

Push == INSTANCE PushRelay
OptIn == INSTANCE OptInProcessor WITH queue <- opQueue, attempts <- opAttempts,
                                      req <- opReq, job <- opJob
Lab == INSTANCE Homelab WITH Accounts <- Owners, Tokens <- PushTokens, version <- labVersion,
                             row <- labRow, inputs <- labInputs, req <- labReq
Gate == INSTANCE Mcp
Live == INSTANCE Accounts WITH rows <- stored, req <- sync, ops <- accountOps,
                               faults <- accountFaults
Key == INSTANCE Vault WITH MaxFaults <- MaxVaultFaults, faults <- vaultFaults

\* A part that takes no steps begins in one of its initial states.
Init ==
    /\ part \in {"push", "opt-in", "lab", "mcp", "accounts", "vault"}
    /\ Push!Init /\ OptIn!Init /\ Lab!Init /\ Gate!Init /\ Live!Init /\ Key!Init
    /\ part # "mcp" => ~policy.enabled /\ Gate!Active(policy) = {}
    /\ part # "accounts" => honoured = {}
    /\ part # "vault" => keys = 0

Next ==
    \/ /\ part = "push" /\ Push!Next
       /\ UNCHANGED <<part, optInVars, labVars, mcpVars, accountVars, vaultVars>>
    \/ /\ part = "opt-in" /\ OptIn!Next
       /\ UNCHANGED <<part, pushVars, labVars, mcpVars, accountVars, vaultVars>>
    \/ /\ part = "lab" /\ Lab!Next
       /\ UNCHANGED <<part, pushVars, optInVars, mcpVars, accountVars, vaultVars>>
    \/ /\ part = "mcp" /\ Gate!Next
       /\ UNCHANGED <<part, pushVars, optInVars, labVars, accountVars, vaultVars>>
    \/ /\ part = "accounts" /\ Live!Next
       /\ UNCHANGED <<part, pushVars, optInVars, labVars, mcpVars, vaultVars>>
    \/ /\ part = "vault" /\ Key!Next
       /\ UNCHANGED <<part, pushVars, optInVars, labVars, mcpVars, accountVars>>

Spec == Init /\ [][Next]_<<part, pushVars, optInVars, labVars, mcpVars, accountVars, vaultVars>>

\* Handlers are interchangeable.
Symmetry == Permutations(Requests)

\* The types of the six modules.
TypeOK ==
    /\ Push!TypeOK /\ OptIn!TypeOK /\ Lab!TypeOK
    /\ Gate!TypeOK /\ Live!TypeOK /\ Key!TypeOK

\* PushRelay: a hint the sender got 202 for is not lost.
HintKept == Push!HintKept

\* PushRelay: a second push for an event needs an outcome the relay did not learn of, or
\* a message that was delivered once too often.
NoDuplicatePush == Push!NoDuplicatePush

\* PushRelay: after a revocation the routes of the device are off.
RevokedRoutesOff == Push!RevokedRoutesOff

\* OptInProcessor, Homelab: what is retained was accepted under a consent that let it
\* be, and not under one withdrawn since, but for a classification that overlapped the
\* withdrawal.
ConsentKept == OptIn!NothingWithoutConsent /\ Lab!KeptUnderConsent

\* OptInProcessor: a token is in the consent or in a revocation, and done only when the
\* provider said so; those of consents that were replaced, or that overlapped a
\* withdrawal, are left out.
TokenAccountedFor == OptIn!TokenAccountedFor

\* Mcp: a tool that asks runs only after the user said yes in time.
UserDecides == Gate!UserDecides

\* Accounts: what was removed stays removed.
RemovedStaysRemoved == Live!RemovedStaysRemoved

\* Vault: at every moment the keys of the database that exists are there, unless the
\* wrapping key was lost while it was stored anew.
VaultOpensDatabase == Key!VaultOpensDatabase
=============================================================================
