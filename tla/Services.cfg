\* One route of two devices, one event, two handlers at once, each message may be
\* delivered twice; two consents, two withdrawals, two disclosures; one call over two
\* MCP sessions; three accounts, two operations on them; four keys, two faults.
SPECIFICATION Spec
CONSTANTS
    Devices = {d1, d2}
    Routes = {r1}
    Events = {e1}
    Requests = {q1, q2}
    Consumers = {c1, c2}
    Owners = {a1}
    PushTokens = {t1}
    MaxEndpoints = 2
    MaxRetries = 1
    MaxFaults = 1
    MaxTokens = 2
    MaxOps = 2
    MaxVersions = 2
    Calls = {k1}
    Clients = {m1}
    MaxSessions = 2
    Modes = {"ask_writes"}
    MaxChanges = 1
    Gmail = {g1, g2}
    Microsoft = {o1}
    MaxKeys = 4
    MaxVaultFaults = 2
INVARIANTS TypeOK HintKept NoDuplicatePush RevokedRoutesOff ConsentKept TokenAccountedFor UserDecides RemovedStaysRemoved VaultOpensDatabase
CHECK_DEADLOCK FALSE
SYMMETRY Symmetry
