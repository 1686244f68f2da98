--------------------------- MODULE OptInProcessor ---------------------------
(* The opt-in processor (services/opt-in-processor): versioned consent of one *)
(* account with the provider token it carries, classification under it, its   *)
(* withdrawal, and the queue that revokes the token at the provider.          *)
(* A handler awaits one D1 statement or batch after the other; one that fails *)
(* or is stopped takes no further step.  Tokens are numbered by the consents  *)
(* that carried them; a revocation has the number of its withdrawal.          *)
EXTENDS Naturals, FiniteSets

CONSTANTS
    Requests,     \* handlers that may be running at once
    MaxTokens,    \* consents that are given
    MaxOps,       \* withdrawals
    MaxRetries    \* max_retries of the queue

VARIABLES
    tokens,    \* tokens handed over so far
    row,       \* the row of account_consents, and whether its version is CONSENT_VERSION
    inputs,    \* retained_inputs: the consents they were accepted under
    ops,       \* ops[o]: the row of provider_revocations
    receipts,  \* receipts[o]: the deletion receipt of o
    lastOp,    \* operation ids so far
    queue,     \* queue[o]: where the message of o is
    attempts,  \* attempts[o]: deliveries of it that failed
    req,       \* req[q]: a running handler
    job,       \* the message consumeRevocations works on
    revoked,   \* tokens the provider has revoked
    refused,   \* tokens not revoked that the provider answered 400 for
    keepers,   \* consents that let inputs be retained
    ended,     \* consents withdrawn while no classification under them was under way
    replaced,  \* tokens a later consent took the place of
    overlapped \* tokens given while a withdrawal was under way

vars == <<tokens, row, inputs, ops, receipts, lastOp, queue, attempts, req,
          job, revoked, refused, keepers, ended, replaced, overlapped>>
queueVars == <<queue, attempts, job, revoked, refused>>
consentVars == <<keepers, ended, replaced, overlapped>>

Ops == 1..MaxOps
NoRow == [token |-> 0, current |-> FALSE, keeps |-> FALSE]
NoOp == [state |-> "none", token |-> 0]
NoReq == [pc |-> "idle", token |-> 0, op |-> 0, keeps |-> FALSE]
NoJob == [pc |-> "idle", op |-> 0, token |-> 0]

TypeOK ==
    /\ tokens \in 0..MaxTokens
    /\ row \in [token : 0..MaxTokens, current : BOOLEAN, keeps : BOOLEAN]
    /\ inputs \subseteq 1..MaxTokens
    /\ ops \in [Ops -> [state : {"none", "queued", "complete", "expired"},
                        token : 0..MaxTokens]]
    /\ receipts \in [Ops -> {"none", "pending", "complete", "expired"}]
    /\ lastOp \in 0..MaxOps
    /\ queue \in [Ops -> {"none", "ready", "taken", "dead"}]
    /\ attempts \in [Ops -> 0..MaxRetries]
    /\ req \in [Requests -> [pc : {"idle", "keep", "withdraw", "send"},
                             token : 0..MaxTokens, op : 0..MaxOps, keeps : BOOLEAN]]
    /\ job \in [pc : {"idle", "revoke", "record"}, op : 0..MaxOps, token : 0..MaxTokens]
    /\ revoked \subseteq 1..MaxTokens /\ refused \subseteq 1..MaxTokens
    /\ keepers \subseteq 1..MaxTokens /\ ended \subseteq 1..MaxTokens
    /\ replaced \subseteq 1..MaxTokens /\ overlapped \subseteq 1..MaxTokens

Init ==
    /\ tokens = 0
    /\ row = NoRow /\ inputs = {}
    /\ ops = [o \in Ops |-> NoOp]
    /\ receipts = [o \in Ops |-> "none"]
    /\ lastOp = 0
    /\ queue = [o \in Ops |-> "none"]
    /\ attempts = [o \in Ops |-> 0]
    /\ req = [q \in Requests |-> NoReq]
    /\ job = NoJob
    /\ revoked = {} /\ refused = {}
    /\ keepers = {} /\ ended = {} /\ replaced = {} /\ overlapped = {}

At(q, pc) == req[q].pc = pc
Ends(q) == req' = [req EXCEPT ![q] = NoReq]
HasRow == row.token # 0

-----------------------------------------------------------------------------
(* Consent and classification *)

\* PUT: a consent to the current disclosure takes the place of any other, and
\* its token that of the token before.
GiveConsent(keeps) ==
    /\ tokens < MaxTokens
    /\ tokens' = tokens + 1
    /\ row' = [token |-> tokens + 1, current |-> TRUE, keeps |-> keeps]
    /\ keepers' = IF keeps THEN keepers \cup {tokens + 1} ELSE keepers
    /\ replaced' = IF HasRow THEN replaced \cup {row.token} ELSE replaced
    /\ overlapped' = IF \E q \in Requests : At(q, "withdraw")
                     THEN overlapped \cup {tokens + 1} ELSE overlapped
    /\ UNCHANGED <<inputs, ops, receipts, lastOp, req, ended, queueVars>>

\* classify reads the consent, which must be to the current disclosure.
ClassifyArrives(q) ==
    /\ At(q, "idle")
    /\ HasRow /\ row.current
    /\ req' = [req EXCEPT ![q] = [NoReq EXCEPT !.pc = "keep", !.token = row.token,
                                               !.keeps = row.keeps]]
    /\ UNCHANGED <<tokens, row, inputs, ops, receipts, lastOp, queueVars, consentVars>>

Keeps(q, there, consent) ==
    /\ At(q, "keep")
    /\ inputs' = IF req[q].keeps /\ there THEN inputs \cup {consent} ELSE inputs
    /\ Ends(q)
    /\ UNCHANGED <<tokens, row, ops, receipts, lastOp, queueVars, consentVars>>

\* Mutant of KeepInput: the input is not bound to the consent that was read.
MutantUnbound(q) == Keeps(q, TRUE, row.token)

\* The input is retained if the consent said so; the row must still refer to one.
KeepInput(q) == Keeps(q, HasRow, req[q].token)

-----------------------------------------------------------------------------
(* DELETE: withdrawal *)

WithdrawArrives(q) ==
    /\ At(q, "idle")
    /\ req' = [req EXCEPT ![q] = [NoReq EXCEPT !.pc = "withdraw", !.token = row.token]]
    /\ UNCHANGED <<tokens, row, inputs, ops, receipts, lastOp, queueVars, consentVars>>

Erases(q, left, state) ==
    /\ At(q, "withdraw")
    /\ lastOp < MaxOps
    /\ lastOp' = lastOp + 1
    /\ row' = NoRow
    /\ inputs' = left
    /\ ended' = ended \cup {t \in 1..tokens : \A x \in Requests : At(x, "keep") => req[x].token # t}
    /\ IF req[q].token # 0
       THEN /\ ops' = [ops EXCEPT ![lastOp + 1] = [state |-> state, token |-> req[q].token]]
            /\ receipts' = [receipts EXCEPT ![lastOp + 1] = "pending"]
            /\ req' = [req EXCEPT ![q].pc = "send", ![q].op = lastOp + 1]
       ELSE /\ receipts' = [receipts EXCEPT ![lastOp + 1] = "complete"]
            /\ Ends(q) /\ UNCHANGED ops
    /\ UNCHANGED <<tokens, queueVars, keepers, replaced, overlapped>>

\* Mutant of Erase: the revocation is taken for done when it is recorded.
MutantDoneAtOnce(q) == Erases(q, {}, "complete")

\* Mutant of Erase: the inputs are left to the scheduled task.
MutantLeavesInputs(q) == Erases(q, inputs, "queued")

\* One batch: the consent that is there goes with its inputs, and the revocation of
\* the token that was read is recorded with its receipt.  Without a token read there
\* is nothing to revoke and the receipt is complete at once, also when a consent has
\* arrived in between and goes with its token.
Erase(q) == Erases(q, {}, "queued")

\* The message is sent; a queue that refuses it is a handler that stops here.
SendRevocation(q) ==
    /\ At(q, "send")
    /\ queue' = [queue EXCEPT ![req[q].op] = "ready"]
    /\ Ends(q)
    /\ UNCHANGED <<tokens, row, inputs, ops, receipts, lastOp, attempts, job,
                   revoked, refused, consentVars>>

-----------------------------------------------------------------------------
(* consumeRevocations *)

\* The revocation must be queued and not expired, or the message is dropped.
Take(o) ==
    /\ job = NoJob /\ queue[o] = "ready"
    /\ IF ops[o].state = "queued"
       THEN /\ job' = [pc |-> "revoke", op |-> o, token |-> ops[o].token]
            /\ queue' = [queue EXCEPT ![o] = "taken"]
       ELSE queue' = [queue EXCEPT ![o] = "none"] /\ UNCHANGED job
    /\ UNCHANGED <<tokens, row, inputs, ops, receipts, lastOp, attempts, req,
                   revoked, refused, consentVars>>

Answered ==
    /\ job.pc = "revoke"
    /\ job' = [job EXCEPT !.pc = "record"]
    /\ UNCHANGED <<tokens, row, inputs, ops, receipts, lastOp, queue, attempts,
                   req, consentVars>>

ProviderRevokes ==
    /\ Answered
    /\ revoked' = revoked \cup {job.token}
    /\ refused' = refused \ {job.token}

\* 400 counts as done: the token may be revoked already, or the request was no good.
ProviderRefuses ==
    /\ Answered
    /\ refused' = refused \cup ({job.token} \ revoked)
    /\ UNCHANGED revoked

\* Another answer, none, or a fault behind it: the message is delivered again.
Retry ==
    /\ job # NoJob
    /\ LET o == job.op
       IN  IF attempts[o] < MaxRetries
           THEN /\ queue' = [queue EXCEPT ![o] = "ready"]
                /\ attempts' = [attempts EXCEPT ![o] = @ + 1]
           ELSE queue' = [queue EXCEPT ![o] = "dead"] /\ UNCHANGED attempts
    /\ job' = NoJob
    /\ UNCHANGED <<tokens, row, inputs, ops, receipts, lastOp, req, revoked,
                   refused, consentVars>>

\* One batch: the token is wiped, the receipt is complete.
RecordRevoked ==
    /\ job.pc = "record"
    /\ ops' = [ops EXCEPT ![job.op].state = "complete"]
    /\ receipts' = [receipts EXCEPT ![job.op] = IF @ = "none" THEN @ ELSE "complete"]
    /\ queue' = [queue EXCEPT ![job.op] = "none"]
    /\ job' = NoJob
    /\ UNCHANGED <<tokens, row, inputs, lastOp, attempts, req, revoked,
                   refused, consentVars>>

-----------------------------------------------------------------------------
(* The scheduled task, and deployment *)

\* Inputs whose time is up go; so do the tokens of revocations that were not done
\* in time, and their receipts say so, as do those of any that expired before.
Retention(oldInputs, oldOps) ==
    /\ oldInputs # {} \/ oldOps # {}
    /\ oldInputs \subseteq inputs
    /\ \A o \in oldOps : ops[o].state = "queued"
    /\ inputs' = inputs \ oldInputs
    /\ ops' = [o \in Ops |-> IF o \in oldOps THEN [ops[o] EXCEPT !.state = "expired"]
                             ELSE ops[o]]
    /\ receipts' = [o \in Ops |-> IF ops'[o].state = "expired" THEN "expired"
                                  ELSE receipts[o]]
    /\ UNCHANGED <<tokens, row, lastOp, req, queueVars, consentVars>>

\* The service is deployed with another disclosure, and the consent counts no more, or
\* again with the one it was given to.
Deploy ==
    /\ HasRow
    /\ row' = [row EXCEPT !.current = ~@]
    /\ UNCHANGED <<tokens, inputs, ops, receipts, lastOp, req, queueVars, consentVars>>

-----------------------------------------------------------------------------
Next ==
    \/ \E keeps \in BOOLEAN : GiveConsent(keeps)
    \/ \E q \in Requests :
          ClassifyArrives(q) \/ KeepInput(q) \/ WithdrawArrives(q) \/ Erase(q)
              \/ SendRevocation(q)
    \/ \E o \in Ops : Take(o)
    \/ ProviderRevokes \/ ProviderRefuses \/ Retry \/ RecordRevoked
    \/ \E oldInputs \in SUBSET inputs, oldOps \in SUBSET Ops : Retention(oldInputs, oldOps)
    \/ Deploy

Spec == Init /\ [][Next]_vars

-----------------------------------------------------------------------------
(* Properties *)

\* Every retained input was accepted under a consent that let inputs be retained, and
\* none under a consent withdrawn since with no classification under way; without a
\* consent there are none at all ("stops on revoke").  A later consent that retains
\* nothing leaves the inputs there are until their time is up.
NothingWithoutConsent ==
    /\ inputs # {} => HasRow
    /\ inputs \subseteq keepers
    /\ inputs \cap ended = {}

\* A token the account handed over is in its consent, or in a revocation that is
\* under way, answered by the provider, or shown as expired; a receipt says "complete"
\* only when the provider revoked the token or answered 400, or when the withdrawal
\* had read none.  Left out are tokens that a later consent replaced, or that were
\* given while a withdrawal was under way.
TokenAccountedFor ==
    /\ \A t \in (1..tokens) \ (replaced \cup overlapped) :
          \/ row.token = t
          \/ \E o \in Ops : ops[o].token = t /\
                CASE ops[o].state = "complete" -> t \in revoked \cup refused
                  [] ops[o].state = "expired" -> receipts[o] # "complete"
                  [] OTHER -> TRUE
    /\ \A o \in Ops : receipts[o] = "complete" => ops[o].token \in revoked \cup refused \cup {0}
=============================================================================
