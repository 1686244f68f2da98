--------------------------- MODULE ServicesProofs ---------------------------
(* The properties of the services (module MCServices), for any number of      *)
(* devices, events, consents, calls, accounts and keys.  The push half of the *)
(* relay and the vault have proofs of their own; the opt-in processor, the    *)
(* self-hosted API, the MCP session and the accounts are proved here.         *)
EXTENDS MCServices, TLAPS

PushP == INSTANCE PushRelayProofs
KeyP == INSTANCE VaultProofs WITH MaxFaults <- MaxVaultFaults, faults <- vaultFaults

-----------------------------------------------------------------------------
(* OptInProcessor                                                             *)

OpReq == [pc : {"idle", "keep", "withdraw", "send"}, token : 0..MaxTokens,
          op : 0..MaxOps, keeps : BOOLEAN]
OpRow == [token : 0..MaxTokens, current : BOOLEAN, keeps : BOOLEAN]
Op == [state : {"none", "queued", "complete", "expired"}, token : 0..MaxTokens]
Ops == 1..MaxOps

\* What a handler and the consumer keep between two statements: the consumer has the
\* token of the revocation, whose row has had it from the start.
OpHandlerShape ==
    /\ IF opJob.pc = "idle" THEN opJob = OptIn!NoJob
       ELSE /\ opJob.op \in 1..lastOp /\ opJob.token # 0
            /\ ops[opJob.op].token = opJob.token
    /\ opJob.pc = "record" => opJob.token \in revoked \cup refused

\* Withdrawals are numbered in order; a row of provider_revocations is of a token.
OpsNumbered ==
    \A o \in Ops : /\ o > lastOp => ops[o].token = 0 /\ receipts[o] = "none"
                   /\ ops[o].state = "none" <=> ops[o].token = 0

\* A revocation is complete when the provider has answered; what expired says so.
OpsTruthful ==
    \A o \in Ops : /\ ops[o].state = "complete" => ops[o].token \in revoked \cup refused
                   /\ receipts[o] = "complete" => ops[o].token \in revoked \cup refused \cup {0}
                   /\ ops[o].state = "expired" => receipts[o] = "expired"

\* A token is in the consent, replaced, given during a withdrawal, or in a revocation.
TokenSomewhere ==
    \A t \in 1..tokens : \/ t \in replaced \cup overlapped
                         \/ row.token = t
                         \/ \E o \in Ops : ops[o].token = t

\* What was read of a consent is still what it says: a classification knows whether
\* it lets inputs be retained and counts as under way while the consent is withdrawn;
\* the consent a withdrawal finds is the one it read, or came while it was under way.
ConsentRead ==
    /\ row.token \in 0..tokens /\ ended \subseteq 1..tokens
    /\ row.token \notin ended
    /\ row.keeps => row.token \in keepers
    /\ \A q \in Requests :
          /\ opReq[q].pc = "keep" => opReq[q].token # 0 /\ opReq[q].token \notin ended
          /\ opReq[q].pc = "keep" /\ opReq[q].keeps => opReq[q].token \in keepers
          /\ opReq[q].pc = "withdraw" => \/ row.token \in overlapped
                                        \/ row.token \in {0, opReq[q].token}

\* The inductive invariant: TokenAccountedFor is not inductive, since a receipt is
\* completed by the consumer from what it read before it asked the provider, and a
\* handler writes what it read of a consent that may have gone since.
OptInInv ==
    /\ OptIn!TypeOK /\ OpHandlerShape /\ OpsNumbered /\ OpsTruthful /\ TokenSomewhere
    /\ ConsentRead /\ OptIn!NothingWithoutConsent

OpSized == MaxTokens \in Nat /\ MaxOps \in Nat /\ MaxRetries \in Nat

LEMMA OptInAccounts == OptInInv => OptIn!TokenAccountedFor
BY DEF OptInInv, OpsTruthful, TokenSomewhere, OptIn!TokenAccountedFor, OptIn!Ops, Ops

LEMMA OptInIdle == OpSized => /\ OptIn!NoReq \in OpReq /\ OptIn!NoReq.pc = "idle"
                              /\ OptIn!NoRow \in OpRow /\ OptIn!NoRow.token = 0
                              /\ OptIn!NoOp \in Op /\ OptIn!NoOp.state = "none"
                              /\ OptIn!NoOp.token = 0
                              /\ OptIn!NoJob.pc = "idle" /\ OptIn!NoJob.op = 0
                              /\ OptIn!NoJob.token = 0
                              /\ OptIn!NoJob \in [pc : {"idle", "revoke", "record"},
                                                  op : 0..MaxOps, token : 0..MaxTokens]
BY DEF OpSized, OpReq, OpRow, Op, OptIn!NoReq, OptIn!NoRow, OptIn!NoOp, OptIn!NoJob

\* Nothing was handed over yet.
LEMMA OptInInit == OpSized /\ OptIn!Init => OptInInv
<1> SUFFICES ASSUME OpSized, OptIn!Init PROVE OptInInv
  OBVIOUS
<1>1. OptIn!TypeOK
  BY OptInIdle DEF OpSized, OptIn!Init, OptIn!TypeOK, OptIn!Ops, OpReq, OpRow, Op
<1>2. OpHandlerShape /\ OpsNumbered /\ OpsTruthful /\ TokenSomewhere
  BY OptInIdle DEF OptIn!Init, OpSized, OptIn!Ops, Ops, OpHandlerShape, OpsNumbered,
     OpsTruthful, TokenSomewhere
<1>4. ConsentRead
  <2>1. /\ row = OptIn!NoRow /\ tokens = 0 /\ ended = {}
        /\ \A q \in Requests : opReq[q] = OptIn!NoReq
    BY DEF OptIn!Init
  <2> QED BY <2>1 DEF ConsentRead, OptIn!NoRow, OptIn!NoReq
<1>3. OptIn!NothingWithoutConsent
  BY DEF OptIn!Init, OptIn!NothingWithoutConsent
<1> QED BY <1>1, <1>2, <1>3, <1>4 DEF OptInInv

LEMMA OptInHandlerMoves ==
    ASSUME OptIn!TypeOK, NEW q \in Requests, NEW r \in OpReq, opReq' = [opReq EXCEPT ![q] = r]
    PROVE  /\ opReq' \in [Requests -> OpReq] /\ opReq'[q] = r
           /\ \A p \in Requests : p # q => opReq'[p] = opReq[p]
BY DEF OptIn!TypeOK, OpReq

\* A consent, which takes the place of another.
LEMMA GiveConsentStep ==
    ASSUME OptInInv, OpSized, NEW keeps \in BOOLEAN, OptIn!GiveConsent(keeps)
    PROVE  OptInInv'
<1>1. /\ tokens' = tokens + 1 /\ tokens' \in 1..MaxTokens
      /\ row' = [token |-> tokens + 1, current |-> TRUE, keeps |-> keeps]
      /\ keepers' = IF keeps THEN keepers \cup {tokens + 1} ELSE keepers
      /\ replaced' = IF row.token # 0 THEN replaced \cup {row.token} ELSE replaced
      /\ overlapped' = IF \E q \in Requests : opReq[q].pc = "withdraw"
                       THEN overlapped \cup {tokens + 1} ELSE overlapped
      /\ UNCHANGED <<inputs, ops, receipts, lastOp, opReq, opQueue, opAttempts,
                     opJob, revoked, refused, ended>>
  BY DEF OptIn!GiveConsent, OptIn!HasRow, OptIn!At, OptIn!queueVars, OptInInv, OptIn!TypeOK,
     OpSized
<1>2. row' \in OpRow /\ row'.token = tokens' /\ row'.token # 0 /\ row'.keeps = keeps
  BY <1>1 DEF OptInInv, OptIn!TypeOK, OpRow, OpSized
<1>3. /\ replaced' \subseteq 1..MaxTokens /\ replaced \subseteq replaced'
      /\ row.token # 0 => row.token \in replaced'
  <2>1. replaced \subseteq 1..MaxTokens /\ row.token \in 0..MaxTokens
    BY DEF OptInInv, OptIn!TypeOK
  <2>2. CASE row.token = 0
    BY <1>1, <2>1, <2>2
  <2>3. CASE row.token # 0
    <3>1. row.token \in 1..MaxTokens
      BY <2>1, <2>3 DEF OpSized
    <3> QED BY <1>1, <2>1, <2>3, <3>1
  <2> QED BY <2>2, <2>3
<1>4. /\ keepers' \subseteq 1..MaxTokens /\ keepers \subseteq keepers'
      /\ keeps => tokens' \in keepers'
      /\ overlapped' \subseteq 1..MaxTokens /\ overlapped \subseteq overlapped'
      /\ (\E q \in Requests : opReq[q].pc = "withdraw") => tokens' \in overlapped'
  BY <1>1 DEF OptInInv, OptIn!TypeOK
<1>5. OptIn!TypeOK'
  BY <1>1, <1>2, <1>3, <1>4 DEF OptInInv, OptIn!TypeOK, OpRow
<1>6. OpHandlerShape' /\ OpsNumbered' /\ OpsTruthful'
  BY <1>1 DEF OptInInv, OpHandlerShape, OpsNumbered, OpsTruthful
<1>7. TokenSomewhere'
  BY <1>1, <1>2, <1>3, <1>4 DEF OptInInv, OptIn!TypeOK, TokenSomewhere
<1>8. ConsentRead'
  <2>1. tokens \in Nat /\ row.token \in 0..tokens /\ ended \subseteq 1..tokens
    BY DEF OptInInv, OptIn!TypeOK, ConsentRead
  <2>2. tokens' \notin ended' /\ ended' \subseteq 1..tokens' /\ row'.token \in 0..tokens'
    BY <1>1, <1>2, <2>1
  <2> QED BY <1>1, <1>2, <1>4, <2>2 DEF OptInInv, ConsentRead
<1>9. OptIn!NothingWithoutConsent'
  BY <1>1, <1>2, <1>4 DEF OptInInv, OptIn!NothingWithoutConsent, OptIn!HasRow
<1> QED BY <1>5, <1>6, <1>7, <1>8, <1>9 DEF OptInInv

\* Steps of handlers that change no row but the retained inputs.
LEMMA OptInReadStep ==
    ASSUME OptInInv, OpSized, NEW q \in Requests,
           \/ OptIn!ClassifyArrives(q) \/ OptIn!KeepInput(q)
           \/ OptIn!WithdrawArrives(q) \/ OptIn!SendRevocation(q)
    PROVE  OptInInv'
<1>1. UNCHANGED <<tokens, row, ops, receipts, lastOp, opAttempts, opJob, revoked,
                  refused, keepers, ended, replaced, overlapped>>
  BY DEF OptIn!ClassifyArrives, OptIn!KeepInput, OptIn!Keeps, OptIn!WithdrawArrives,
     OptIn!SendRevocation, OptIn!queueVars, OptIn!consentVars
<1>2. opQueue' \in [1..MaxOps -> {"none", "ready", "taken", "dead"}]
  BY DEF OptInInv, OptIn!TypeOK, OptIn!Ops, OptIn!ClassifyArrives, OptIn!KeepInput, OptIn!Keeps,
     OptIn!WithdrawArrives, OptIn!SendRevocation, OptIn!queueVars
<1>3. /\ inputs' \subseteq 1..MaxTokens /\ (inputs' # {} => row.token # 0)
      /\ inputs' \subseteq keepers /\ inputs' \cap ended = {}
  <2>1. CASE UNCHANGED inputs
    BY <2>1 DEF OptInInv, OptIn!TypeOK, OptIn!NothingWithoutConsent, OptIn!HasRow
  <2>2. CASE /\ row.token # 0 /\ opReq[q].pc = "keep" /\ opReq[q].keeps
             /\ inputs' = inputs \cup {opReq[q].token}
    <3>1. opReq[q].token \in keepers /\ opReq[q].token \notin ended
      BY <2>2 DEF OptInInv, ConsentRead
    <3>2. inputs \subseteq keepers /\ inputs \cap ended = {} /\ keepers \subseteq 1..MaxTokens
      BY DEF OptInInv, OptIn!TypeOK, OptIn!NothingWithoutConsent
    <3> QED BY <2>2, <3>1, <3>2
  <2> QED BY <2>1, <2>2 DEF OptIn!ClassifyArrives, OptIn!KeepInput, OptIn!Keeps, OptIn!HasRow,
             OptIn!WithdrawArrives, OptIn!SendRevocation, OptIn!At
<1>4. \E r \in OpReq : /\ opReq' = [opReq EXCEPT ![q] = r]
                       /\ r.pc = "keep" => /\ r.token = row.token /\ row.token # 0
                                           /\ r.keeps = row.keeps
                       /\ r.pc = "withdraw" => r.token = row.token
  <2>1. CASE OptIn!ClassifyArrives(q)
    <3> DEFINE r == [OptIn!NoReq EXCEPT !.pc = "keep", !.token = row.token, !.keeps = row.keeps]
    <3>1. /\ r \in OpReq /\ r.token = row.token /\ row.token # 0 /\ r.pc = "keep"
          /\ r.keeps = row.keeps
      BY <2>1, OptInIdle DEF OpReq, OptInInv, OptIn!TypeOK, OptIn!ClassifyArrives, OptIn!HasRow
    <3>2. opReq' = [opReq EXCEPT ![q] = r]
      BY <2>1 DEF OptIn!ClassifyArrives
    <3> HIDE DEF r
    <3> QED BY <3>1, <3>2
  <2>2. CASE OptIn!WithdrawArrives(q)
    <3> DEFINE r == [OptIn!NoReq EXCEPT !.pc = "withdraw", !.token = row.token]
    <3>1. r \in OpReq /\ r.pc = "withdraw" /\ r.token = row.token
      BY OptInIdle DEF OpReq, OptInInv, OptIn!TypeOK
    <3>2. opReq' = [opReq EXCEPT ![q] = r]
      BY <2>2 DEF OptIn!WithdrawArrives
    <3> HIDE DEF r
    <3> QED BY <3>1, <3>2
  <2>3. CASE OptIn!Ends(q)
    BY <2>3, OptInIdle DEF OptIn!Ends
  <2> QED BY <2>1, <2>2, <2>3 DEF OptIn!KeepInput, OptIn!Keeps, OptIn!SendRevocation
<1>5. PICK r \in OpReq : /\ opReq' = [opReq EXCEPT ![q] = r]
                         /\ r.pc = "keep" => /\ r.token = row.token /\ row.token # 0
                                             /\ r.keeps = row.keeps
                         /\ r.pc = "withdraw" => r.token = row.token
  BY <1>4
<1>6. /\ opReq' \in [Requests -> OpReq] /\ opReq'[q] = r
      /\ \A p \in Requests : p # q => opReq'[p] = opReq[p]
  BY <1>5, OptInHandlerMoves DEF OptInInv
<1>7. OptIn!TypeOK'
  BY <1>1, <1>2, <1>3, <1>6 DEF OptInInv, OptIn!TypeOK, OptIn!Ops, OpReq
<1>8. OpHandlerShape' /\ OpsNumbered' /\ OpsTruthful' /\ TokenSomewhere'
  BY <1>1 DEF OptInInv, OpHandlerShape, OpsNumbered, OpsTruthful, TokenSomewhere
<1>9. ConsentRead'
  BY <1>1, <1>5, <1>6 DEF OptInInv, ConsentRead
<1>10. OptIn!NothingWithoutConsent'
  BY <1>1, <1>3 DEF OptIn!NothingWithoutConsent, OptIn!HasRow
<1> QED BY <1>7, <1>8, <1>9, <1>10 DEF OptInInv

\* The batch of a withdrawal: the token that was read is in a new revocation, and a
\* consent that is not the one read came while the withdrawal was under way.
LEMMA EraseStep ==
    ASSUME OptInInv, OpSized, NEW q \in Requests, OptIn!Erase(q)
    PROVE  OptInInv'
<1> DEFINE t == opReq[q].token  n == lastOp + 1
<1>1. /\ UNCHANGED <<tokens, opQueue, opAttempts, opJob, revoked, refused, keepers,
                     replaced, overlapped>>
      /\ row' = OptIn!NoRow /\ inputs' = {}
      /\ ended' = ended \cup {u \in 1..tokens :
                                 \A x \in Requests : opReq[x].pc = "keep" => opReq[x].token # u}
      /\ lastOp' = n /\ n \in Ops /\ lastOp \in 0..MaxOps
      /\ t \in 0..MaxTokens /\ opReq[q].pc = "withdraw" /\ tokens \in 0..MaxTokens
  BY DEF OptIn!Erase, OptIn!Erases, OptIn!queueVars, OptIn!At, OptInInv, OptIn!TypeOK, OpSized,
     Ops
<1>2. row' \in OpRow /\ row'.token = 0 /\ row'.keeps = FALSE
  BY <1>1, OptInIdle DEF OptIn!NoRow
<1>3. ended' \subseteq 1..tokens /\ ended' \subseteq 1..MaxTokens
  <2>1. ended' \subseteq 1..tokens
    BY <1>1 DEF OptInInv, ConsentRead
  <2>2. 1..tokens \subseteq 1..MaxTokens
    BY <1>1 DEF OpSized
  <2> QED BY <2>1, <2>2
<1>4. OptIn!NothingWithoutConsent'
  BY <1>1 DEF OptIn!NothingWithoutConsent
<1>5. \E r \in OpReq :
         /\ opReq' = [opReq EXCEPT ![q] = r] /\ r.pc \in {"idle", "send"}
  <2>1. CASE OptIn!Ends(q)
    BY <2>1, OptInIdle DEF OptIn!Ends
  <2>2. CASE opReq' = [opReq EXCEPT ![q].pc = "send", ![q].op = n]
    <3> DEFINE r == [opReq[q] EXCEPT !.pc = "send", !.op = n]
    <3>1. r \in OpReq /\ r.pc = "send"
      <4>1. opReq[q] \in OpReq /\ n \in 0..MaxOps
        BY <1>1 DEF OptInInv, OptIn!TypeOK, OpReq, Ops
      <4> HIDE DEF n
      <4> QED BY <4>1 DEF OpReq
    <3>2. opReq' = [opReq EXCEPT ![q] = r]
      BY <2>2 DEF OptInInv, OptIn!TypeOK
    <3> HIDE DEF r
    <3> QED BY <3>1, <3>2
  <2> QED BY <2>1, <2>2 DEF OptIn!Erase, OptIn!Erases
<1>6. PICK r \in OpReq : opReq' = [opReq EXCEPT ![q] = r] /\ r.pc \in {"idle", "send"}
  BY <1>5
<1>7. /\ opReq' \in [Requests -> OpReq] /\ opReq'[q] = r
      /\ \A p \in Requests : p # q => opReq'[p] = opReq[p]
  BY <1>6, OptInHandlerMoves DEF OptInInv
<1>8. ConsentRead'
  <2>1. row'.token \in 0..tokens' /\ row'.token \notin ended'
    BY <1>1, <1>2, <1>3
  <2>2. \A p \in Requests :
           opReq[p].pc = "keep" => opReq[p].token # 0 /\ opReq[p].token \notin ended'
    BY <1>1 DEF OptInInv, ConsentRead
  <2>3. \A p \in Requests : opReq'[p].pc = "keep" => opReq'[p] = opReq[p]
    BY <1>6, <1>7
  <2> QED BY <1>1, <1>2, <1>3, <2>1, <2>2, <2>3 DEF OptInInv, ConsentRead
<1>9. /\ ops' \in [Ops -> Op] /\ receipts' \in [Ops -> {"none", "pending", "complete", "expired"}]
      /\ \A o \in Ops : o # n => ops'[o] = ops[o] /\ receipts'[o] = receipts[o]
      /\ IF t = 0 THEN ops'[n] = ops[n] /\ receipts'[n] = "complete"
         ELSE ops'[n].state = "queued" /\ ops'[n].token = t /\ receipts'[n] = "pending"
  <2>1. /\ ops \in [Ops -> Op]
        /\ receipts \in [Ops -> {"none", "pending", "complete", "expired"}]
    BY DEF OptInInv, OptIn!TypeOK, OptIn!Ops, Ops, Op
  <2>2. [state |-> "queued", token |-> t] \in Op
    BY <1>1 DEF Op
  <2>3. CASE /\ t # 0 /\ ops' = [ops EXCEPT ![n] = [state |-> "queued", token |-> t]]
             /\ receipts' = [receipts EXCEPT ![n] = "pending"]
    <3> HIDE DEF n, t
    <3> QED BY <1>1, <2>1, <2>2, <2>3
  <2>4. CASE t = 0 /\ UNCHANGED ops /\ receipts' = [receipts EXCEPT ![n] = "complete"]
    <3> HIDE DEF n, t
    <3> QED BY <1>1, <2>1, <2>4
  <2> QED BY <2>3, <2>4 DEF OptIn!Erase, OptIn!Erases
<1>10. ops[n].token = 0 /\ ops[n].state = "none"
  BY <1>1 DEF OptInInv, OpsNumbered, Ops
<1> HIDE DEF t
<1>11. OptIn!TypeOK'
  <2>1. lastOp' \in 0..MaxOps
    BY <1>1 DEF Ops
  <2> QED BY <1>1, <1>2, <1>3, <1>7, <1>9, <2>1 DEF OptInInv, OptIn!TypeOK, OptIn!Ops, Ops, Op,
             OpReq, OpRow
<1>12. OpHandlerShape'
  <2>1. CASE opJob.pc = "idle"
    BY <1>1, <2>1 DEF OptInInv, OpHandlerShape
  <2>2. CASE opJob.pc # "idle"
    <3>1. opJob.op \in 1..lastOp /\ opJob.token # 0 /\ ops[opJob.op].token = opJob.token
      BY <2>2 DEF OptInInv, OpHandlerShape
    <3>2. opJob.op \in Ops /\ opJob.op # n /\ opJob.op \in 1..lastOp'
      <4>1. opJob.op \in Nat /\ 1 <= opJob.op /\ opJob.op <= lastOp
        BY <1>1, <3>1
      <4> HIDE DEF t
      <4> QED BY <1>1, <4>1 DEF Ops, OpSized
    <3>3. ops'[opJob.op].token = opJob.token
      BY <1>9, <3>1, <3>2
    <3> QED BY <1>1, <2>2, <3>1, <3>2, <3>3 DEF OptInInv, OpHandlerShape
  <2> QED BY <2>1, <2>2
<1>13. OpsNumbered' /\ OpsTruthful'
  BY <1>1, <1>9, <1>10 DEF OptInInv, OpsNumbered, OpsTruthful, Ops
<1>14. TokenSomewhere'
  <2> SUFFICES ASSUME NEW u \in 1..tokens
               PROVE  \/ u \in replaced \cup overlapped
                      \/ \E o \in Ops : ops'[o].token = u
    BY <1>1 DEF TokenSomewhere
  <2>1. CASE u \in replaced \cup overlapped
    BY <2>1
  <2>2. CASE row.token = u
    <3>1. row.token \in overlapped \/ row.token = t
      BY <1>1, <2>2 DEF OptInInv, ConsentRead, t
    <3>2. ASSUME row.token = t PROVE ops'[n].token = u
      BY <1>1, <1>9, <2>2, <3>2
    <3> QED BY <1>1, <2>2, <3>1, <3>2
  <2>3. ASSUME NEW o \in Ops, ops[o].token = u
        PROVE  ops'[o].token = u
    BY <1>1, <1>9, <1>10, <2>3
  <2> QED BY <2>1, <2>2, <2>3 DEF OptInInv, TokenSomewhere
<1> QED BY <1>4, <1>8, <1>11, <1>12, <1>13, <1>14 DEF OptInInv

\* consumeRevocations: what is recorded as done has been done.
LEMMA RevocationStep ==
    ASSUME OptInInv, OpSized,
           (\E o \in Ops : OptIn!Take(o)) \/ OptIn!ProviderRevokes \/ OptIn!ProviderRefuses
               \/ OptIn!Retry \/ OptIn!RecordRevoked
    PROVE  OptInInv'
<1>1. UNCHANGED <<tokens, row, inputs, lastOp, opReq, keepers, ended,
                  replaced, overlapped>>
  BY DEF OptIn!Take, OptIn!ProviderRevokes, OptIn!ProviderRefuses, OptIn!Answered, OptIn!Retry,
     OptIn!RecordRevoked, OptIn!consentVars
<1>2. /\ opQueue' \in [Ops -> {"none", "ready", "taken", "dead"}]
      /\ opAttempts' \in [Ops -> 0..MaxRetries]
  <2>1. /\ opQueue \in [Ops -> {"none", "ready", "taken", "dead"}]
        /\ opAttempts \in [Ops -> 0..MaxRetries]
    BY DEF OptInInv, OptIn!TypeOK, OptIn!Ops, Ops
  <2>2. CASE \E o \in Ops : OptIn!Take(o)
    BY <2>1, <2>2 DEF OptIn!Take
  <2>3. CASE OptIn!ProviderRevokes \/ OptIn!ProviderRefuses \/ OptIn!RecordRevoked
    BY <2>1, <2>3 DEF OptIn!ProviderRevokes, OptIn!ProviderRefuses, OptIn!Answered,
       OptIn!RecordRevoked
  <2>4. CASE OptIn!Retry
    <3> DEFINE n == opJob.op
    <3>1. n \in Ops
      BY <2>4 DEF OptIn!Retry, OptInInv, OptIn!TypeOK, OpHandlerShape, Ops, OpSized
    <3>2. CASE opAttempts[n] < MaxRetries
      <4>1. opAttempts[n] + 1 \in 0..MaxRetries
        BY <2>1, <3>1, <3>2 DEF OpSized
      <4> QED BY <2>1, <2>4, <3>1, <3>2, <4>1 DEF OptIn!Retry
    <3>3. CASE ~(opAttempts[n] < MaxRetries)
      BY <2>1, <2>4, <3>3 DEF OptIn!Retry
    <3> QED BY <3>2, <3>3
  <2> QED BY <2>2, <2>3, <2>4
<1>3. OptIn!NothingWithoutConsent' /\ ConsentRead'
  BY <1>1 DEF OptInInv, OptIn!NothingWithoutConsent, OptIn!HasRow, ConsentRead
<1>4. ASSUME NEW o \in Ops, OptIn!Take(o) PROVE OptInInv'
  <2>1. UNCHANGED <<ops, receipts, revoked, refused>>
    BY <1>4 DEF OptIn!Take
  <2>2. \/ UNCHANGED opJob
        \/ /\ opJob' = [pc |-> "revoke", op |-> o, token |-> ops[o].token]
           /\ o \in 1..lastOp /\ ops[o].token # 0 /\ ops[o].token \in 0..MaxTokens
    <3>1. ops[o].state = "queued" =>
              o \in 1..lastOp /\ ops[o].token # 0 /\ ops[o].token \in 0..MaxTokens
      BY DEF OptInInv, OptIn!TypeOK, OpsNumbered, OptIn!Ops, Ops, OpSized
    <3> QED BY <1>4, <3>1 DEF OptIn!Take
  <2>3. OptIn!TypeOK'
    BY SMTT(20), <1>1, <1>2, <2>1, <2>2 DEF OptInInv, OptIn!TypeOK, OptIn!Ops, Ops
  <2>4. OpHandlerShape'
    BY <1>1, <2>1, <2>2 DEF OptInInv, OpHandlerShape
  <2>5. OpsNumbered' /\ OpsTruthful' /\ TokenSomewhere'
    BY <1>1, <2>1 DEF OptInInv, OpsNumbered, OpsTruthful, TokenSomewhere
  <2> QED BY <1>3, <2>3, <2>4, <2>5 DEF OptInInv
<1>5. CASE OptIn!ProviderRevokes \/ OptIn!ProviderRefuses
  <2>1. /\ UNCHANGED <<ops, receipts>> /\ opJob.pc = "revoke"
        /\ opJob' = [opJob EXCEPT !.pc = "record"]
        /\ \/ revoked' = revoked \cup {opJob.token} /\ refused' = refused \ {opJob.token}
           \/ revoked' = revoked /\ refused' = refused \cup ({opJob.token} \ revoked)
    BY <1>5 DEF OptIn!ProviderRevokes, OptIn!ProviderRefuses, OptIn!Answered
  <2>2. opJob.token \in revoked' \cup refused' /\ revoked \cup refused \subseteq revoked' \cup refused'
    BY <2>1
  <2>3. OptIn!TypeOK'
    <3>1. opJob.token \in 1..MaxTokens /\ revoked \cup refused \subseteq 1..MaxTokens
      BY <2>1 DEF OptInInv, OptIn!TypeOK, OpHandlerShape, OpSized
    <3>2. revoked' \subseteq 1..MaxTokens /\ refused' \subseteq 1..MaxTokens
      BY <2>1, <3>1
    <3> QED BY <1>1, <1>2, <2>1, <3>2 DEF OptInInv, OptIn!TypeOK, OptIn!Ops, Ops
  <2>4. OpHandlerShape'
    BY <1>1, <2>1, <2>2 DEF OptInInv, OptIn!TypeOK, OpHandlerShape
  <2>5. OpsNumbered' /\ OpsTruthful' /\ TokenSomewhere'
    BY <1>1, <2>1, <2>2 DEF OptInInv, OpsNumbered, OpsTruthful, TokenSomewhere
  <2> QED BY <1>3, <2>3, <2>4, <2>5 DEF OptInInv
<1>6. CASE OptIn!Retry
  <2>1. UNCHANGED <<ops, receipts, revoked, refused>> /\ opJob' = OptIn!NoJob
    BY <1>6 DEF OptIn!Retry
  <2>2. OptIn!TypeOK'
    BY <1>1, <1>2, <2>1, OptInIdle DEF OptInInv, OptIn!TypeOK, OptIn!Ops, Ops
  <2>3. OpHandlerShape'
    BY <1>1, <2>1, OptInIdle DEF OptInInv, OpHandlerShape
  <2>4. OpsNumbered' /\ OpsTruthful' /\ TokenSomewhere'
    BY <1>1, <2>1 DEF OptInInv, OpsNumbered, OpsTruthful, TokenSomewhere
  <2> QED BY <1>3, <2>2, <2>3, <2>4 DEF OptInInv
<1>7. CASE OptIn!RecordRevoked
  <2> DEFINE n == opJob.op
  <2>1. /\ ops' = [ops EXCEPT ![n].state = "complete"]
        /\ receipts' = [receipts EXCEPT ![n] = IF @ = "none" THEN @ ELSE "complete"]
        /\ UNCHANGED <<revoked, refused>> /\ opJob' = OptIn!NoJob
        /\ n \in Ops /\ n <= lastOp /\ ops[n].token \in revoked \cup refused
        /\ ops[n].token # 0
    BY <1>7 DEF OptIn!RecordRevoked, OptInInv, OptIn!TypeOK, OpHandlerShape, Ops
  <2> HIDE DEF n
  <2>2. /\ ops' \in [Ops -> Op] /\ ops'[n].state = "complete" /\ ops'[n].token = ops[n].token
        /\ receipts' \in [Ops -> {"none", "pending", "complete", "expired"}]
        /\ \A o \in Ops : o # n => ops'[o] = ops[o] /\ receipts'[o] = receipts[o]
    BY SMTT(20), <2>1 DEF OptInInv, OptIn!TypeOK, OptIn!Ops, Ops, Op
  <2>3. OptIn!TypeOK'
    BY <1>1, <1>2, <2>1, <2>2, OptInIdle DEF OptInInv, OptIn!TypeOK, OptIn!Ops, Ops, Op
  <2>4. OpHandlerShape'
    BY <1>1, <2>1, OptInIdle DEF OptInInv, OpHandlerShape
  <2>5. OpsNumbered' /\ OpsTruthful'
    BY SMTT(20), <1>1, <2>1, <2>2 DEF OptInInv, OptIn!TypeOK, OpsNumbered, OpsTruthful, Ops
  <2>6. TokenSomewhere'
    BY <1>1, <2>1, <2>2 DEF OptInInv, TokenSomewhere
  <2> QED BY <1>3, <2>3, <2>4, <2>5, <2>6 DEF OptInInv
<1> QED BY <1>4, <1>5, <1>6, <1>7

\* The scheduled task says of what it gives up that it expired; a deployment.
LEMMA OptInTaskStep ==
    ASSUME OptInInv, OpSized,
           \/ \E oldInputs \in SUBSET inputs, oldOps \in SUBSET Ops :
                  OptIn!Retention(oldInputs, oldOps)
           \/ OptIn!Deploy
    PROVE  OptInInv'
<1>1. ASSUME NEW oldInputs \in SUBSET inputs, NEW oldOps \in SUBSET Ops,
             OptIn!Retention(oldInputs, oldOps)
      PROVE  OptInInv'
  <2>1. /\ UNCHANGED <<tokens, row, lastOp, opReq, opQueue, opAttempts, opJob, revoked,
                       refused, keepers, ended, replaced, overlapped>>
        /\ inputs' = inputs \ oldInputs
        /\ ops' = [o \in Ops |-> IF o \in oldOps THEN [ops[o] EXCEPT !.state = "expired"]
                                 ELSE ops[o]]
        /\ receipts' = [o \in Ops |-> IF ops'[o].state = "expired" THEN "expired"
                                      ELSE receipts[o]]
        /\ \A o \in oldOps : ops[o].state = "queued"
    BY <1>1 DEF OptIn!Retention, OptIn!queueVars, OptIn!consentVars, OptIn!Ops, Ops
  <2>2. ASSUME NEW o \in Ops
        PROVE  /\ ops'[o] \in Op /\ ops'[o].token = ops[o].token
               /\ ops'[o] = ops[o] \/ (ops'[o].state = "expired" /\ o \in oldOps)
    <3>1. ops[o] \in Op
      BY DEF OptInInv, OptIn!TypeOK, OptIn!Ops, Ops, Op
    <3>2. CASE o \in oldOps
      <4>1. ops'[o] = [ops[o] EXCEPT !.state = "expired"]
        BY <2>1, <3>2
      <4> QED BY <3>1, <3>2, <4>1 DEF Op
    <3>3. CASE o \notin oldOps
      <4>1. ops'[o] = ops[o]
        BY <2>1, <3>3
      <4> QED BY <3>1, <4>1
    <3> QED BY <3>2, <3>3
  <2>3. /\ ops' = [o \in Ops |-> ops'[o]]
        /\ receipts' \in [Ops -> {"none", "pending", "complete", "expired"}]
    BY <2>1 DEF OptInInv, OptIn!TypeOK, OptIn!Ops, Ops
  <2>4. ops' \in [Ops -> Op]
    BY <2>2, <2>3
  <2>5. OptIn!TypeOK'
    BY <2>1, <2>3, <2>4 DEF OptInInv, OptIn!TypeOK, OptIn!Ops, Ops, Op
  <2>6. OpHandlerShape'
    BY <2>1, <2>2 DEF OptInInv, OptIn!TypeOK, OpHandlerShape, Ops
  <2>7. OpsNumbered'
    BY <2>1, <2>2 DEF OptInInv, OptIn!TypeOK, OpsNumbered, Ops
  <2>8. OpsTruthful'
    BY <2>1, <2>2 DEF OptInInv, OpsTruthful
  <2>9. TokenSomewhere'
    BY <2>1, <2>2 DEF OptInInv, TokenSomewhere
  <2>10. OptIn!NothingWithoutConsent' /\ ConsentRead'
    BY <2>1 DEF OptInInv, OptIn!NothingWithoutConsent, OptIn!HasRow, ConsentRead
  <2> QED BY <2>5, <2>6, <2>7, <2>8, <2>9, <2>10 DEF OptInInv
<1>2. CASE OptIn!Deploy
  <2>1. /\ row' = [row EXCEPT !.current = ~@]
        /\ UNCHANGED <<tokens, inputs, ops, receipts, lastOp, opReq, opQueue, opAttempts,
                       opJob, revoked, refused, keepers, ended, replaced, overlapped>>
    BY <1>2 DEF OptIn!Deploy, OptIn!queueVars, OptIn!consentVars
  <2>2. row \in OpRow BY DEF OptInInv, OptIn!TypeOK, OpRow
  <2>3. row' \in OpRow /\ row'.token = row.token /\ row'.keeps = row.keeps
    BY <2>1, <2>2 DEF OpRow
  <2> QED BY <2>1, <2>3 DEF OptInInv, OptIn!TypeOK, OpRow, OpHandlerShape, OpsNumbered,
             OpsTruthful, TokenSomewhere, ConsentRead, OptIn!NothingWithoutConsent, OptIn!HasRow
<1> QED BY <1>1, <1>2

\* A step of the processor keeps its invariant.
LEMMA OptInNext == OptInInv /\ OpSized /\ OptIn!Next => OptInInv'
BY GiveConsentStep, OptInReadStep, EraseStep, RevocationStep, OptInTaskStep
   DEF OptIn!Next, OptIn!Ops, Ops

-----------------------------------------------------------------------------
(* Homelab                                                                    *)

LabConsent == [state : {"none", "on", "off"}, ai : BOOLEAN, keeps : BOOLEAN,
               version : 0..MaxVersions]
LabReq == [pc : {"idle", "classify", "insert", "off", "delete", "push", "pushed"},
           consent : LabConsent, raced : BOOLEAN, device : Devices \cup {Lab!Nobody},
           token : PushTokens \cup {Lab!Nobody}]
LabDevice == [account : Owners \cup {Lab!Nobody}, token : PushTokens \cup {Lab!Nobody},
              on : BOOLEAN]

LabInput == [keeps : BOOLEAN, raced : BOOLEAN]

LabSized == MaxVersions \in Nat \ {0}

Classifies(q) == labReq[q].pc \in {"classify", "insert"}

\* While a withdrawal is under way, and as long as the consent is not on, nothing is
\* retained and no classification is under way but those the withdrawal overlapped.
OnlyOverlapped ==
    Lab!Withdrawing \/ labRow.state # "on" =>
        /\ \A i \in labInputs : i.raced
        /\ \A q \in Requests : Classifies(q) => labReq[q].raced

\* The inductive invariant: KeptUnderConsent says nothing of a classification that is
\* under way, whose input comes after the withdrawal.
LabInv ==
    /\ Lab!TypeOK /\ labReq \in [Requests -> LabReq] /\ OnlyOverlapped
    /\ labRow.state = "none" => labInputs = {}
    /\ \A i \in labInputs : i.keeps

LEMMA LabKept == LabInv => Lab!KeptUnderConsent
BY DEF LabInv, OnlyOverlapped, Lab!KeptUnderConsent

LEMMA LabIdle == LabSized => /\ Lab!NoConsent \in LabConsent /\ Lab!NoConsent.state = "none"
                             /\ Lab!NoReq \in LabReq /\ Lab!NoReq.pc = "idle"
                             /\ Lab!NoDevice \in LabDevice
BY DEF LabSized, Lab!NoConsent, LabConsent, Lab!NoReq, LabReq, Lab!NoDevice, LabDevice

LEMMA LabInit == LabSized /\ Lab!Init => LabInv
<1> SUFFICES ASSUME LabSized, Lab!Init PROVE LabInv
  OBVIOUS
<1>1. labReq \in [Requests -> LabReq] /\ \A q \in Requests : ~Classifies(q)
  BY LabIdle DEF Lab!Init, Classifies
<1>2. Lab!TypeOK
  BY <1>1, LabIdle DEF Lab!Init, Lab!TypeOK, LabSized, LabConsent, LabReq, LabDevice
<1>3. labInputs = {}
  BY DEF Lab!Init
<1> QED BY <1>1, <1>2, <1>3 DEF LabInv, OnlyOverlapped

\* One handler moves.
LEMMA LabHandlerMoves ==
    ASSUME LabInv, NEW q \in Requests, NEW r \in LabReq, labReq' = [labReq EXCEPT ![q] = r]
    PROVE  /\ labReq' \in [Requests -> LabReq] /\ labReq'[q] = r
           /\ \A p \in Requests : p # q => labReq'[p] = labReq[p]
BY DEF LabInv

\* A step of one handler that withdraws nothing keeps the invariant, if it puts its
\* input where it may and its classification was not begun in vain.
LEMMA LabFrame ==
    ASSUME LabInv, LabSized, NEW q \in Requests, NEW r \in LabReq,
           labReq' = [labReq EXCEPT ![q] = r],
           UNCHANGED <<labVersion, labRow, device>>,
           labReq[q].pc \notin {"off", "delete"}, r.pc \notin {"off", "delete"},
           r.pc \in {"classify", "insert"} =>
               r.raced \/ ~(Lab!Withdrawing \/ labRow.state # "on"),
           labInputs' \subseteq LabInput, \A i \in labInputs' : i.keeps,
           labRow.state = "none" => labInputs' = {},
           \A i \in labInputs' :
               i \in labInputs \/ i.raced \/ ~(Lab!Withdrawing \/ labRow.state # "on")
    PROVE  LabInv'
<1>1. /\ labReq' \in [Requests -> LabReq] /\ labReq'[q] = r
      /\ \A p \in Requests : p # q => labReq'[p] = labReq[p]
  BY LabHandlerMoves
<1>2. Lab!Withdrawing' => Lab!Withdrawing
  BY <1>1 DEF Lab!Withdrawing
<1>3. Lab!TypeOK'
  BY <1>1 DEF LabInv, Lab!TypeOK, LabReq, LabInput
<1>4. OnlyOverlapped'
  BY <1>1, <1>2 DEF LabInv, OnlyOverlapped, Classifies
<1> QED BY <1>1, <1>3, <1>4 DEF LabInv

\* Classification and the push test.
LEMMA LabHandlerStep ==
    ASSUME LabInv, LabSized, NEW q \in Requests,
           \/ Lab!Classify(q) \/ Lab!ClassifyMessage(q) \/ Lab!KeepInput(q)
           \/ (\E d \in Devices : Lab!PushTest(q, d)) \/ Lab!SendApns(q) \/ Lab!NotePush(q)
    PROVE  LabInv'
<1>0. labReq[q] \in LabReq /\ labRow \in LabConsent /\ UNCHANGED <<labVersion, labRow, device>>
  BY DEF LabInv, Lab!TypeOK, LabConsent, Lab!Classify, Lab!ClassifyMessage, Lab!KeepInput,
     Lab!Keeps, Lab!PushTest, Lab!SendApns, Lab!NotePush
<1>1. CASE Lab!Classify(q)
  <2> DEFINE r == [Lab!NoReq EXCEPT !.pc = "classify", !.consent = labRow,
                                    !.raced = Lab!Withdrawing]
  <2>1. Lab!Withdrawing \in BOOLEAN
    BY DEF Lab!Withdrawing
  <2>2. r \in LabReq /\ r.pc = "classify" /\ r.raced = Lab!Withdrawing
    BY <1>0, <2>1, LabIdle DEF LabReq
  <2>3. /\ labReq' = [labReq EXCEPT ![q] = r] /\ labReq[q].pc = "idle"
        /\ labRow.state = "on" /\ UNCHANGED labInputs
    BY <1>1 DEF Lab!Classify, Lab!Starts, Lab!At
  <2> HIDE DEF r
  <2> QED BY <1>0, <2>2, <2>3, LabFrame DEF LabInv, Lab!TypeOK, LabInput
<1>2. CASE Lab!ClassifyMessage(q) \/ Lab!SendApns(q)
  <2>1. PICK pc \in {"insert", "pushed"} :
            /\ labReq' = [labReq EXCEPT ![q].pc = pc] /\ UNCHANGED labInputs
            /\ labReq[q].pc = IF pc = "insert" THEN "classify" ELSE "push"
    BY <1>2 DEF Lab!ClassifyMessage, Lab!SendApns, Lab!At
  <2> DEFINE r == [labReq[q] EXCEPT !.pc = pc]
  <2>2. r \in LabReq /\ r.pc = pc /\ r.raced = labReq[q].raced
    BY <1>0 DEF LabReq
  <2>3. labReq' = [labReq EXCEPT ![q] = r]
    BY <2>1 DEF LabInv
  <2> HIDE DEF r
  <2>4. pc = "insert" => r.raced \/ ~(Lab!Withdrawing \/ labRow.state # "on")
    BY <2>1, <2>2 DEF LabInv, OnlyOverlapped, Classifies
  <2>5. /\ labReq[q].pc \notin {"off", "delete"} /\ r.pc \notin {"off", "delete"}
        /\ r.pc \in {"classify", "insert"} => pc = "insert"
        /\ labInputs' = labInputs /\ labInputs' \subseteq LabInput
        /\ labRow.state = "none" => labInputs' = {}
        /\ \A i \in labInputs' : i.keeps
    BY <2>1, <2>2 DEF LabInv, Lab!TypeOK, LabInput
  <2> QED BY <1>0, <2>2, <2>3, <2>4, <2>5, LabFrame
<1>3. CASE Lab!KeepInput(q)
  <2> DEFINE i == [keeps |-> labReq[q].consent.keeps, raced |-> labReq[q].raced]
  <2>1. /\ labReq' = [labReq EXCEPT ![q] = Lab!NoReq] /\ labReq[q].pc = "insert"
        /\ \/ labInputs' = labInputs
           \/ labInputs' = labInputs \cup {i} /\ labReq[q].consent.keeps /\ labRow.state # "none"
    BY <1>3 DEF Lab!KeepInput, Lab!Keeps, Lab!At, Lab!Ends
  <2>2. i \in LabInput /\ i.raced = labReq[q].raced /\ i.keeps = labReq[q].consent.keeps
    BY <1>0 DEF LabReq, LabConsent, LabInput
  <2>3. ~labReq[q].raced => ~(Lab!Withdrawing \/ labRow.state # "on")
    BY <2>1 DEF LabInv, OnlyOverlapped, Classifies
  <2> HIDE DEF i
  <2>4. /\ labInputs' \subseteq LabInput /\ (\A k \in labInputs' : k.keeps)
        /\ labRow.state = "none" => labInputs' = {}
    <3>1. labInputs \subseteq LabInput
      BY DEF LabInv, Lab!TypeOK, LabInput
    <3> QED BY <2>1, <2>2, <3>1 DEF LabInv
  <2>5. \A k \in labInputs' :
            k \in labInputs \/ k.raced \/ ~(Lab!Withdrawing \/ labRow.state # "on")
    BY <2>1, <2>2, <2>3
  <2> QED BY <1>0, <2>1, <2>4, <2>5, LabIdle, LabFrame
<1>4. ASSUME NEW d \in Devices, Lab!PushTest(q, d) PROVE LabInv'
  <2> DEFINE r == [Lab!NoReq EXCEPT !.pc = "push", !.device = d, !.token = device[d].token]
  <2>1. device[d].token \in PushTokens \cup {Lab!Nobody}
    BY DEF LabInv, Lab!TypeOK
  <2>2. r \in LabReq /\ r.pc = "push"
    BY <2>1, LabIdle DEF LabReq
  <2>3. /\ labReq' = [labReq EXCEPT ![q] = r] /\ labReq[q].pc = "idle" /\ UNCHANGED labInputs
    BY <1>4 DEF Lab!PushTest, Lab!Starts, Lab!At
  <2> HIDE DEF r
  <2> QED BY <1>0, <2>2, <2>3, LabFrame DEF LabInv, Lab!TypeOK, LabInput
<1>5. CASE Lab!NotePush(q)
  BY <1>0, <1>5, LabIdle, LabFrame DEF Lab!NotePush, Lab!Ends, Lab!At, LabInv, Lab!TypeOK,
     LabInput
<1> QED BY <1>1, <1>2, <1>3, <1>4, <1>5

\* The first statement of a withdrawal marks what it overlaps, and removes the rest.
LEMMA PurgeStep ==
    ASSUME LabInv, LabSized, NEW q \in Requests, NEW pc \in {"off", "delete"}, Lab!Purge(q, pc)
    PROVE  LabInv'
<1>1. /\ labReq' = [x \in Requests |->
             IF x = q THEN [Lab!NoReq EXCEPT !.pc = pc]
             ELSE [labReq[x] EXCEPT !.raced = @ \/ labReq[x].pc \in {"classify", "insert"}]]
      /\ labInputs' = {} /\ UNCHANGED <<labVersion, labRow, device>>
  BY DEF Lab!Purge, Lab!Purges
<1>2. ASSUME NEW x \in Requests
      PROVE  labReq'[x] \in LabReq /\ (Classifies(x)' => labReq'[x].raced)
  <2>1. CASE x = q
    <3>1. labReq'[x] = [Lab!NoReq EXCEPT !.pc = pc]
      BY <1>1, <2>1
    <3>2. labReq'[x] \in LabReq /\ labReq'[x].pc = pc
      BY <3>1, LabIdle DEF LabReq
    <3> QED BY <3>2 DEF Classifies
  <2>2. CASE x # q
    <3> DEFINE b == labReq[x].raced \/ labReq[x].pc \in {"classify", "insert"}
    <3>1. labReq'[x] = [labReq[x] EXCEPT !.raced = b]
      BY <1>1, <2>2
    <3>2. b \in BOOLEAN /\ (labReq[x].pc \in {"classify", "insert"} => b)
      OBVIOUS
    <3>3. labReq[x] \in LabReq
      BY DEF LabInv
    <3> HIDE DEF b
    <3>4. labReq'[x] \in LabReq
      BY <3>1, <3>2, <3>3 DEF LabReq
    <3>5. labReq'[x].raced = b /\ labReq'[x].pc = labReq[x].pc
      BY <3>1, <3>3 DEF LabReq
    <3> QED BY <3>2, <3>4, <3>5 DEF Classifies
  <2> QED BY <2>1, <2>2
<1>3. labReq' = [x \in Requests |-> labReq'[x]]
  BY <1>1
<1>4. labReq' \in [Requests -> LabReq]
  BY <1>2, <1>3
<1>5. Lab!TypeOK'
  BY <1>1, <1>4 DEF LabInv, Lab!TypeOK, LabReq
<1> QED BY <1>1, <1>2, <1>4, <1>5 DEF LabInv, OnlyOverlapped

\* The second statement, after which the consent is off or gone.
LEMMA WithdrawStep ==
    ASSUME LabInv, LabSized, NEW q \in Requests, Lab!Disable(q) \/ Lab!Delete(q)
    PROVE  LabInv'
<1>1. /\ labReq' = [labReq EXCEPT ![q] = Lab!NoReq] /\ Lab!Withdrawing
      /\ UNCHANGED <<labVersion, device>>
      /\ labInputs' = labInputs \/ labInputs' = {}
  BY DEF Lab!Disable, Lab!Delete, Lab!Ends, Lab!At, Lab!Withdrawing
<1>2. labRow' \in LabConsent /\ (labRow'.state = "none" => labInputs' = {})
  <2>1. CASE Lab!Disable(q)
    <3> DEFINE v == IF labRow.state = "none" THEN labVersion ELSE labRow.version
    <3>1. v \in 0..MaxVersions
      BY DEF LabInv, Lab!TypeOK, LabSized
    <3>2. labRow' = [state |-> "off", ai |-> FALSE, keeps |-> FALSE, version |-> v]
      BY <2>1 DEF Lab!Disable
    <3> HIDE DEF v
    <3> QED BY <3>1, <3>2 DEF LabConsent
  <2>2. CASE Lab!Delete(q)
    BY <2>2, LabIdle DEF Lab!Delete
  <2> QED BY <2>1, <2>2
<1>3. /\ labReq' \in [Requests -> LabReq] /\ labReq'[q].pc = "idle"
      /\ \A p \in Requests : p # q => labReq'[p] = labReq[p]
  BY <1>1, LabIdle, LabHandlerMoves
<1>4. Lab!TypeOK'
  BY <1>1, <1>2, <1>3 DEF LabInv, Lab!TypeOK, LabReq, LabConsent
<1>5. OnlyOverlapped'
  BY <1>1, <1>3 DEF LabInv, OnlyOverlapped, Classifies
<1> QED BY <1>1, <1>2, <1>3, <1>4, <1>5 DEF LabInv

\* The consent is given, inputs expire, devices are registered, the service restarts.
LEMMA LabOtherStep ==
    ASSUME LabInv, LabSized,
           \/ \E ai, keeps \in BOOLEAN : Lab!Enable(ai, keeps)
           \/ \E old \in SUBSET labInputs : Lab!PurgeExpired(old)
           \/ \E d \in Devices, a \in Owners :
                 Lab!RevokeDevice(d, a) \/ \E t \in PushTokens : Lab!RegisterDevice(d, a, t)
           \/ \E v \in 1..MaxVersions : Lab!Restart(v)
    PROVE  LabInv'
<1>1. ASSUME NEW ai \in BOOLEAN, NEW keeps \in BOOLEAN, Lab!Enable(ai, keeps) PROVE LabInv'
  <2>1. /\ labRow' = [state |-> "on", ai |-> ai, keeps |-> keeps, version |-> labVersion]
        /\ UNCHANGED <<labVersion, labInputs, device, labReq>>
    BY <1>1 DEF Lab!Enable
  <2>2. labRow' \in LabConsent /\ labRow'.state = "on"
    BY <2>1 DEF LabInv, Lab!TypeOK, LabConsent, LabSized
  <2>3. Lab!Withdrawing' => Lab!Withdrawing
    BY <2>1 DEF Lab!Withdrawing
  <2>4. OnlyOverlapped'
    BY <2>1, <2>2, <2>3 DEF LabInv, OnlyOverlapped, Classifies
  <2>5. Lab!TypeOK'
    BY <2>1, <2>2 DEF LabInv, Lab!TypeOK, LabConsent
  <2> QED BY <2>1, <2>2, <2>4, <2>5 DEF LabInv
<1>2. ASSUME NEW old \in SUBSET labInputs, Lab!PurgeExpired(old) PROVE LabInv'
  <2>1. labInputs' = labInputs \ old /\ UNCHANGED <<labVersion, labRow, device, labReq>>
    BY <1>2 DEF Lab!PurgeExpired
  <2> QED BY <2>1 DEF LabInv, Lab!TypeOK, OnlyOverlapped, Lab!Withdrawing, Classifies
<1>3. ASSUME NEW d \in Devices, NEW a \in Owners,
             Lab!RevokeDevice(d, a) \/ \E t \in PushTokens : Lab!RegisterDevice(d, a, t)
      PROVE  LabInv'
  <2>1. UNCHANGED <<labVersion, labRow, labInputs, labReq>>
    BY <1>3 DEF Lab!RevokeDevice, Lab!RegisterDevice
  <2>2. device' \in [Devices -> LabDevice]
    <3>1. device \in [Devices -> LabDevice]
      BY DEF LabInv, Lab!TypeOK, LabDevice
    <3>2. CASE Lab!RevokeDevice(d, a)
      <4>1. device' = [device EXCEPT ![d].on = FALSE]
        BY <3>2 DEF Lab!RevokeDevice
      <4> QED BY <3>1, <4>1 DEF LabDevice
    <3>3. ASSUME NEW t \in PushTokens, Lab!RegisterDevice(d, a, t)
          PROVE  device' \in [Devices -> LabDevice]
      <4>1. device' = [device EXCEPT ![d] = [account |-> a, token |-> t, on |-> TRUE]]
        BY <3>3 DEF Lab!RegisterDevice
      <4> QED BY <3>1, <4>1 DEF LabDevice
    <3> QED BY <1>3, <3>2, <3>3
  <2>3. Lab!TypeOK'
    BY <2>1, <2>2 DEF LabInv, Lab!TypeOK, LabDevice
  <2> QED BY <2>1, <2>3 DEF LabInv, OnlyOverlapped, Lab!Withdrawing, Classifies
<1>4. ASSUME NEW v \in 1..MaxVersions, Lab!Restart(v) PROVE LabInv'
  <2>1. /\ labVersion' = v /\ labReq' = [q \in Requests |-> Lab!NoReq]
        /\ UNCHANGED <<labRow, labInputs, device>>
    BY <1>4 DEF Lab!Restart
  <2>2. labReq' \in [Requests -> LabReq] /\ \A q \in Requests : labReq'[q].pc = "idle"
    BY <2>1, LabIdle
  <2>3. Lab!TypeOK'
    BY <2>1, <2>2 DEF LabInv, Lab!TypeOK, LabReq
  <2>4. OnlyOverlapped'
    BY <2>1, <2>2 DEF LabInv, OnlyOverlapped, Lab!Withdrawing, Classifies
  <2> QED BY <2>1, <2>2, <2>3, <2>4 DEF LabInv
<1> QED BY <1>1, <1>2, <1>3, <1>4

\* A step of the self-hosted API keeps its invariant.
LEMMA LabNext == LabInv /\ LabSized /\ Lab!Next => LabInv'
BY LabHandlerStep, PurgeStep, WithdrawStep, LabOtherStep DEF Lab!Next

-----------------------------------------------------------------------------
(* Mcp                                                                        *)

Sessions == 1..MaxSessions
Job == [pc : {"none", "asking", "running", "ok", "failed", "ended"},
        status : {"none", "pending", "approved", "denied", "expired"},
        asked : BOOLEAN, timedOut : BOOLEAN, runs : 0..1]
Call == [pc : {"none", "waiting", "answered"}, client : Clients \cup {Gate!Nobody},
         tool : Gate!Tools, reply : {"none", "ok", "error", "stopped", "timeout"},
         late : BOOLEAN]
Listens == SUBSET [by : {"mount", "start"}, tokens : SUBSET Clients]
Commands == [cmd : {"start", "bound", "stop", "tokens"}, tokens : SUBSET Clients]
Bridge == [enabled : BOOLEAN, tokens : SUBSET Clients, owned : BOOLEAN, orphans : 0..1,
           ending : 0..1]

\* A request is pending while its tool waits; it is approved from the moment the tool
\* may run, and what has expired stays so.
JobTruthful(j) ==
    /\ j.pc = "asking" => j.asked /\ j.status \in {"pending", "expired"} /\ j.runs = 0
                          /\ ~j.timedOut
    /\ j.status = "pending" => j.pc = "asking"
    /\ j.asked /\ (j.pc \in {"running", "ok"} \/ j.runs = 1) => j.status = "approved"
    /\ j.status = "approved" => j.pc # "asking" /\ ~j.timedOut

JobsTruthful ==
    /\ job \in [Calls -> [Sessions -> [1..2 -> Job]]]
    /\ \A c \in Calls, s \in Sessions, i \in 1..2 : JobTruthful(job[c][s][i])

\* A session that can remove a listener has one.
HeldListens == \A s \in Sessions : held[s] => listeners[s] # 0

\* The inductive invariant: UserDecides does not say that only a request whose tool
\* waits can still be approved.
GateInv == Gate!TypeOK /\ JobsTruthful /\ HeldListens

GateSized == MaxSessions \in Nat \ {0} /\ MaxChanges \in Nat

LEMMA GateDecides == GateInv => Gate!UserDecides
BY DEF GateInv, JobsTruthful, JobTruthful, Gate!UserDecides, Gate!Sessions, Sessions

LEMMA GateIdle == /\ Gate!NoJob \in Job /\ JobTruthful(Gate!NoJob) /\ Gate!NoJob.pc = "none"
                  /\ Gate!NoJob.status = "none" /\ ~Gate!NoJob.asked /\ ~Gate!NoJob.timedOut
                  /\ Gate!NoJob.runs = 0
                  /\ Gate!NoCall \in Call
BY DEF Gate!NoJob, Job, JobTruthful, Gate!NoCall, Call, Gate!Tools

\* The types of the variables, one by one, now and after a step.
LEMMA GateTypes ==
    Gate!TypeOK <=>
      /\ policy \in Gate!Policies /\ changes \in 0..MaxChanges
      /\ known \in [Sessions -> Gate!Policies] /\ cur \in Sessions
      /\ listeners \in [Sessions -> 0..2] /\ held \in [Sessions -> BOOLEAN]
      /\ listening \in [Sessions -> Listens] /\ ipc \subseteq Commands
      /\ bridge \in Bridge /\ call \in [Calls -> Call]
      /\ \A c \in Calls, s \in Sessions, i \in 1..2 : job[c][s][i] \in Job
BY DEF Gate!TypeOK, Gate!Sessions, Sessions, Call, Listens, Bridge, Job, Commands

LEMMA GateTypesNext ==
    Gate!TypeOK' <=>
      /\ policy' \in Gate!Policies /\ changes' \in 0..MaxChanges
      /\ known' \in [Sessions -> Gate!Policies] /\ cur' \in Sessions
      /\ listeners' \in [Sessions -> 0..2] /\ held' \in [Sessions -> BOOLEAN]
      /\ listening' \in [Sessions -> Listens] /\ ipc' \subseteq Commands
      /\ bridge' \in Bridge /\ call' \in [Calls -> Call]
      /\ \A c \in Calls, s \in Sessions, i \in 1..2 : job'[c][s][i] \in Job
BY DEF Gate!TypeOK, Gate!Sessions, Sessions, Call, Listens, Bridge, Job, Commands

\* A stored policy, a session on its way to listen, no call.
LEMMA GateInit == GateSized /\ Gate!Init => GateInv
<1> SUFFICES ASSUME GateSized, Gate!Init PROVE GateInv
  OBVIOUS
<1>1. JobsTruthful
  BY GateIdle DEF Gate!Init, JobsTruthful, Gate!Sessions, Sessions
<1>2. HeldListens
  BY DEF Gate!Init, HeldListens, Gate!Sessions, Sessions
<1>3. call \in [Calls -> Call]
  BY GateIdle DEF Gate!Init
<1>4. listening \in [Sessions -> Listens]
  BY DEF Gate!Init, Listens, Gate!Sessions, Sessions
<1>5. /\ policy \in Gate!Policies /\ changes \in 0..MaxChanges
      /\ known \in [Sessions -> Gate!Policies] /\ cur \in Sessions
      /\ listeners \in [Sessions -> 0..2] /\ held \in [Sessions -> BOOLEAN]
      /\ ipc \subseteq Commands
  BY DEF Gate!Init, GateSized, Gate!Sessions, Sessions
<1>6. bridge \in Bridge
  BY DEF Gate!Init, Bridge
<1>7. Gate!TypeOK
  BY <1>1, <1>3, <1>4, <1>5, <1>6, GateTypes DEF JobsTruthful
<1> QED BY <1>1, <1>2, <1>7 DEF GateInv

\* startBridge sends its command now or when it listens.
LEMMA StartsTypes ==
    ASSUME Gate!TypeOK, NEW s \in Sessions, NEW p, NEW base \in [Sessions -> Listens],
           NEW sent \in SUBSET Commands, Gate!Starts(s, p, base, sent)
    PROVE  ipc' \subseteq Commands /\ listening' \in [Sessions -> Listens]
<1>1. Gate!Active(p) \in SUBSET Clients
  BY DEF Gate!Active
<1>2. Gate!Cmd("start", Gate!Active(p)) \in Commands
  BY <1>1 DEF Gate!Cmd, Commands
<1>3. ipc \subseteq Commands
  BY GateTypes
<1>4. base[s] \cup {[by |-> "start", tokens |-> Gate!Active(p)]} \in Listens
  BY <1>1 DEF Listens
<1>5. ipc' \subseteq Commands
  BY <1>2, <1>3 DEF Gate!Starts
<1>6. listening' = base \/
      listening' = [base EXCEPT ![s] = @ \cup {[by |-> "start", tokens |-> Gate!Active(p)]}]
  BY DEF Gate!Starts
<1> QED BY <1>4, <1>5, <1>6

\* The application and its session: the calls are not touched.
LEMMA SessionStep ==
    ASSUME GateInv, GateSized,
           \/ \E p \in Gate!Policies : Gate!SetPolicy(p)
           \/ Gate!StartBridge \/ Gate!StopBridge \/ Gate!NewSession
           \/ \E s \in Sessions : \E l \in listening[s] : Gate!EnsureListener(s, l)
    PROVE  GateInv'
<1>1. UNCHANGED <<bridge, call, job>>
  BY DEF Gate!SetPolicy, Gate!StartBridge, Gate!StopBridge, Gate!NewSession,
     Gate!EnsureListener, Gate!Registers
<1>2. JobsTruthful'
  BY <1>1 DEF GateInv, JobsTruthful
<1>3. ASSUME NEW p \in Gate!Policies, Gate!SetPolicy(p) PROVE GateInv'
  <2> DEFINE sent == {Gate!Cmd("tokens", Gate!Active(p))}
                         \cup (IF policy.enabled /\ ~p.enabled THEN {Gate!Cmd("stop", {})} ELSE {})
  <2>1. /\ UNCHANGED <<cur, listeners, held>> /\ policy' = p
        /\ changes < MaxChanges /\ changes' = changes + 1 /\ known' = [known EXCEPT ![cur] = p]
        /\ Gate!Starts(cur, p, listening, sent) \/ (ipc' = ipc \cup sent /\ UNCHANGED listening)
    BY <1>3 DEF Gate!SetPolicy
  <2>2. sent \in SUBSET Commands
    BY DEF Gate!Cmd, Gate!Active, Commands
  <2> HIDE DEF sent
  <2>3. ipc' \subseteq Commands /\ listening' \in [Sessions -> Listens]
    BY <2>1, <2>2, StartsTypes, GateTypes DEF GateInv
  <2>4. changes' \in 0..MaxChanges /\ known' \in [Sessions -> Gate!Policies]
    BY <2>1, GateTypes DEF GateInv, GateSized
  <2>5. Gate!TypeOK'
    BY <1>1, <2>1, <2>3, <2>4, GateTypes, GateTypesNext DEF GateInv
  <2> QED BY <1>2, <2>1, <2>5 DEF GateInv, HeldListens
<1>4. CASE Gate!StartBridge
  <2>1. /\ UNCHANGED <<policy, cur, known, listeners, held>>
        /\ changes < MaxChanges /\ changes' = changes + 1
        /\ Gate!Starts(cur, policy, listening, {})
    BY <1>4 DEF Gate!StartBridge
  <2>2. ipc' \subseteq Commands /\ listening' \in [Sessions -> Listens]
    <3>1. cur \in Sessions /\ listening \in [Sessions -> Listens] /\ {} \in SUBSET Commands
      BY GateTypes DEF GateInv
    <3> QED BY <2>1, <3>1, StartsTypes DEF GateInv
  <2>3. changes' \in 0..MaxChanges
    BY <2>1, GateTypes DEF GateInv, GateSized
  <2>4. Gate!TypeOK'
    BY <1>1, <2>1, <2>2, <2>3, GateTypes, GateTypesNext DEF GateInv
  <2> QED BY <1>2, <2>1, <2>4 DEF GateInv, HeldListens
<1>5. CASE Gate!StopBridge
  <2>1. /\ UNCHANGED <<policy, cur, known, listeners, held, listening>>
        /\ changes < MaxChanges /\ changes' = changes + 1
        /\ ipc' = ipc \cup {Gate!Cmd("stop", {})}
    BY <1>5 DEF Gate!StopBridge, Gate!sessionVars
  <2>2. Gate!Cmd("stop", {}) \in Commands
    BY DEF Gate!Cmd, Commands
  <2>3. changes' \in 0..MaxChanges
    BY <2>1, GateTypes DEF GateInv, GateSized
  <2>4. Gate!TypeOK'
    BY <1>1, <2>1, <2>2, <2>3, GateTypes, GateTypesNext DEF GateInv
  <2> QED BY <1>2, <2>1, <2>4 DEF GateInv, HeldListens
<1>6. CASE Gate!NewSession
  <2> DEFINE base == [listening EXCEPT ![cur + 1] = {[by |-> "mount", tokens |-> {}]}]
  <2>1. /\ UNCHANGED <<policy, changes>> /\ cur < MaxSessions /\ cur' = cur + 1
        /\ known' = [known EXCEPT ![cur + 1] = policy]
        /\ listeners' = [listeners EXCEPT ![cur] = IF held[cur] THEN @ - 1 ELSE @]
        /\ held' = [held EXCEPT ![cur] = FALSE]
        /\ Gate!Starts(cur + 1, policy, base, {})
    BY <1>6 DEF Gate!NewSession
  <2>2. cur \in Sessions /\ cur + 1 \in Sessions
    BY <2>1, GateTypes DEF GateInv, GateSized, Sessions
  <2>3. base \in [Sessions -> Listens]
    <3>1. {[by |-> "mount", tokens |-> {}]} \in Listens
      BY DEF Listens
    <3>2. listening \in [Sessions -> Listens]
      BY GateTypes DEF GateInv
    <3> QED BY <2>2, <3>1, <3>2
  <2> HIDE DEF base
  <2>4. ipc' \subseteq Commands /\ listening' \in [Sessions -> Listens]
    BY <2>1, <2>2, <2>3, StartsTypes DEF GateInv
  <2>5. known' \in [Sessions -> Gate!Policies] /\ held' \in [Sessions -> BOOLEAN]
    BY <2>1, <2>2, GateTypes DEF GateInv
  <2>6. /\ listeners' \in [Sessions -> 0..2] /\ HeldListens'
    <3>1. listeners \in [Sessions -> 0..2] /\ (held[cur] => listeners[cur] # 0)
      BY <2>2, GateTypes DEF GateInv, HeldListens
    <3> DEFINE n == IF held[cur] THEN listeners[cur] - 1 ELSE listeners[cur]
    <3>2. n \in 0..2 /\ listeners' = [listeners EXCEPT ![cur] = n]
      BY <2>1, <2>2, <3>1
    <3> HIDE DEF n
    <3> QED BY <2>1, <2>2, <3>1, <3>2, GateTypes DEF GateInv, HeldListens
  <2>7. Gate!TypeOK'
    BY <1>1, <2>1, <2>2, <2>4, <2>5, <2>6, GateTypes, GateTypesNext DEF GateInv
  <2> QED BY <1>2, <2>6, <2>7 DEF GateInv
<1>7. ASSUME NEW s \in Sessions, NEW l \in listening[s], Gate!EnsureListener(s, l)
      PROVE  GateInv'
  <2>1. /\ UNCHANGED <<policy, changes, cur, known>> /\ listeners[s] < 2
        /\ listening' = [listening EXCEPT ![s] = @ \ {l}]
        /\ listeners' = [listeners EXCEPT ![s] = listeners[s] + 1]
        /\ held' = [held EXCEPT ![s] = TRUE]
        /\ ipc' = ipc \/ ipc' = ipc \cup {Gate!Cmd("start", l.tokens)}
    BY <1>7 DEF Gate!EnsureListener, Gate!Registers
  <2>2. /\ listening \in [Sessions -> Listens] /\ l.tokens \in SUBSET Clients
        /\ listening[s] \ {l} \in Listens
    BY GateTypes DEF GateInv, Listens
  <2>3. listening' \in [Sessions -> Listens]
    BY <2>1, <2>2
  <2>4. Gate!Cmd("start", l.tokens) \in Commands
    BY <2>2 DEF Gate!Cmd, Commands
  <2>5. /\ listeners' \in [Sessions -> 0..2] /\ held' \in [Sessions -> BOOLEAN] /\ HeldListens'
    <3>1. listeners[s] + 1 \in 1..2
      BY <2>1, GateTypes DEF GateInv
    <3> QED BY <2>1, <3>1, GateTypes DEF GateInv, HeldListens
  <2>6. Gate!TypeOK'
    BY <1>1, <2>1, <2>3, <2>4, <2>5, GateTypes, GateTypesNext DEF GateInv
  <2> QED BY <1>2, <2>5, <2>6 DEF GateInv
<1> QED BY <1>3, <1>4, <1>5, <1>6, <1>7

\* The shell: calls end, none is decided.
LEMMA ShellStep ==
    ASSUME GateInv, GateSized,
           \/ \E m \in ipc : Gate!UpdateTokens(m) \/ Gate!Start(m) \/ Gate!Bound(m) \/ Gate!Stop(m)
           \/ Gate!LoopEnds
           \/ \E c \in Calls : Gate!TimesOut(c) \/ Gate!TimeUp(c)
    PROVE  GateInv'
<1>1. UNCHANGED <<policy, changes, cur, known, listeners, held, listening, job>>
  BY DEF Gate!UpdateTokens, Gate!Start, Gate!Bound, Gate!Stop, Gate!LoopEnds, Gate!TimesOut,
     Gate!TimeUp, Gate!sessionVars
<1>2. ipc' \subseteq Commands
  <2>1. Gate!Cmd("bound", {}) \in Commands /\ ipc \subseteq Commands
    BY GateTypes DEF GateInv, Gate!Cmd, Commands
  <2> QED BY <2>1 DEF Gate!UpdateTokens, Gate!Start, Gate!Bound, Gate!Stop, Gate!LoopEnds,
             Gate!TimesOut, Gate!TimeUp
<1>3. bridge \in Bridge /\ call \in [Calls -> Call]
  BY GateTypes DEF GateInv
<1>4. bridge' \in Bridge
  <2>1. ASSUME NEW m \in ipc, Gate!UpdateTokens(m) \/ Gate!Start(m) PROVE bridge' \in Bridge
    <3>1. m.tokens \in SUBSET Clients
      BY GateTypes DEF GateInv, Commands
    <3>2. bridge' = [bridge EXCEPT !.tokens = m.tokens]
      BY <2>1 DEF Gate!UpdateTokens, Gate!Start
    <3> QED BY <1>3, <3>1, <3>2 DEF Bridge
  <2>2. ASSUME NEW m \in ipc, Gate!Bound(m) PROVE bridge' \in Bridge
    <3> DEFINE n == IF bridge.owned THEN bridge.orphans + 1 ELSE bridge.orphans
    <3>1. n \in 0..1
      BY <1>3, <2>2 DEF Gate!Bound, Bridge
    <3>2. bridge' = [bridge EXCEPT !.enabled = TRUE, !.owned = TRUE, !.orphans = n]
      BY <2>2 DEF Gate!Bound
    <3> HIDE DEF n
    <3> QED BY <1>3, <3>1, <3>2 DEF Bridge
  <2>3. ASSUME NEW m \in ipc, Gate!Stop(m) PROVE bridge' \in Bridge
    <3> DEFINE n == IF bridge.owned THEN 1 ELSE bridge.ending
    <3>1. n \in 0..1
      BY <1>3 DEF Bridge
    <3>2. bridge' = [bridge EXCEPT !.enabled = FALSE, !.owned = FALSE, !.ending = n]
      BY <2>3 DEF Gate!Stop
    <3> HIDE DEF n
    <3> QED BY <1>3, <3>1, <3>2 DEF Bridge
  <2>4. CASE Gate!LoopEnds
    <3>1. PICK n \in 0..1 : bridge' = [bridge EXCEPT !.ending = n, !.enabled = FALSE]
      BY <2>4 DEF Gate!LoopEnds
    <3> QED BY <1>3, <3>1 DEF Bridge
  <2> QED BY <1>3, <2>1, <2>2, <2>3, <2>4 DEF Gate!TimesOut, Gate!TimeUp
<1>5. call' \in [Calls -> Call]
  <2>1. ASSUME NEW m \in ipc, Gate!Stop(m) PROVE call' \in [Calls -> Call]
    <3>1. call' = [c \in Calls |-> IF call[c].pc = "waiting"
                       THEN [call[c] EXCEPT !.pc = "answered", !.reply = "stopped"] ELSE call[c]]
      BY <2>1 DEF Gate!Stop
    <3>2. ASSUME NEW c \in Calls PROVE call'[c] \in Call
      <4>1. call[c] \in Call
        BY <1>3
      <4>2. \/ call'[c] = call[c]
            \/ call'[c] = [call[c] EXCEPT !.pc = "answered", !.reply = "stopped"]
        BY <3>1
      <4> QED BY <4>1, <4>2 DEF Call
    <3>3. call' = [c \in Calls |-> call'[c]]
      BY <3>1
    <3> QED BY <3>2, <3>3
  <2>2. ASSUME NEW c \in Calls, Gate!TimesOut(c) \/ Gate!TimeUp(c) PROVE call' \in [Calls -> Call]
    <3>1. call[c] \in Call
      BY <1>3
    <3>2. \/ call' = [call EXCEPT ![c].pc = "answered", ![c].reply = "timeout"]
          \/ call' = [call EXCEPT ![c].late = TRUE]
      BY <2>2 DEF Gate!TimesOut, Gate!Answers, Gate!TimeUp
    <3> DEFINE x == [call[c] EXCEPT !.pc = "answered", !.reply = "timeout"]
               y == [call[c] EXCEPT !.late = TRUE]
    <3>3. x \in Call /\ y \in Call
      BY <3>1 DEF Call
    <3>4. call' = [call EXCEPT ![c] = x] \/ call' = [call EXCEPT ![c] = y]
      BY <1>3, <3>2
    <3> HIDE DEF x, y
    <3> QED BY <1>3, <3>3, <3>4
  <2> QED BY <1>3, <2>1, <2>2 DEF Gate!UpdateTokens, Gate!Start, Gate!Bound, Gate!LoopEnds
<1>6. Gate!TypeOK'
  BY <1>1, <1>2, <1>4, <1>5, GateTypes, GateTypesNext DEF GateInv
<1> QED BY <1>1, <1>6 DEF GateInv, JobsTruthful, HeldListens

\* A client calls: the policy of each session that listens decides whether it asks.
LEMMA CallArrivesStep ==
    ASSUME GateInv, GateSized, NEW c \in Calls, NEW k \in Clients, NEW tool \in Gate!Tools,
           Gate!CallArrives(c, k, tool)
    PROVE  GateInv'
<1>1. UNCHANGED <<policy, changes, cur, known, listeners, held, listening, ipc, bridge>>
  BY DEF Gate!CallArrives, Gate!sessionVars
<1>2. call' \in [Calls -> Call]
  <2> DEFINE x == [Gate!NoCall EXCEPT !.pc = "waiting", !.client = k, !.tool = tool]
  <2>1. x \in Call
    BY GateIdle DEF Call
  <2>2. call' = [call EXCEPT ![c] = x]
    BY DEF Gate!CallArrives
  <2> HIDE DEF x
  <2> QED BY <2>1, <2>2, GateTypes DEF GateInv
<1>3. \A s \in Sessions : Gate!NewJob(s, k, tool) \in Job /\ JobTruthful(Gate!NewJob(s, k, tool))
  <2> TAKE s \in Sessions
  <2> DEFINE f == [Gate!NoJob EXCEPT !.pc = "failed"]
             a == [Gate!NoJob EXCEPT !.pc = "asking", !.status = "pending", !.asked = TRUE]
             r == [Gate!NoJob EXCEPT !.pc = "running"]
  <2>1. f \in Job /\ f.pc = "failed" /\ f.status = "none" /\ ~f.asked
    BY GateIdle DEF Job
  <2>2. a \in Job /\ a.pc = "asking" /\ a.status = "pending" /\ a.asked /\ ~a.timedOut
        /\ a.runs = 0
    BY GateIdle DEF Job
  <2>3. r \in Job /\ r.pc = "running" /\ r.status = "none" /\ ~r.asked
    BY GateIdle DEF Job
  <2>4. Gate!NewJob(s, k, tool) \in {f, a, r}
    BY DEF Gate!NewJob
  <2> HIDE DEF f, a, r
  <2> QED BY <2>1, <2>2, <2>3, <2>4 DEF JobTruthful
<1>4. JobsTruthful'
  <2> DEFINE new == [s \in Sessions |-> [i \in 1..2 |->
                        IF i <= listeners[s] THEN Gate!NewJob(s, k, tool) ELSE Gate!NoJob]]
  <2>1. job' = [job EXCEPT ![c] = new]
    BY DEF Gate!CallArrives, Gate!Sessions, Sessions
  <2>2. /\ new \in [Sessions -> [1..2 -> Job]]
        /\ \A s \in Sessions, i \in 1..2 : JobTruthful(new[s][i])
    BY <1>3, GateIdle
  <2> HIDE DEF new
  <2> QED BY <2>1, <2>2 DEF GateInv, JobsTruthful
<1>5. Gate!TypeOK'
  BY <1>1, <1>2, <1>4, GateTypes, GateTypesNext DEF GateInv, JobsTruthful
<1> QED BY <1>1, <1>4, <1>5 DEF GateInv, HeldListens

\* One tool call moves on, truthfully.
LEMMA JobFrame ==
    ASSUME GateInv, NEW c \in Calls, NEW s \in Sessions, NEW i \in 1..2, NEW j \in Job,
           JobTruthful(j), job' = [job EXCEPT ![c][s][i] = j],
           UNCHANGED <<policy, changes, cur, known, listeners, held, listening, ipc, bridge>>,
           call' \in [Calls -> Call]
    PROVE  GateInv'
<1>1. job' \in [Calls -> [Sessions -> [1..2 -> Job]]]
  BY DEF GateInv, JobsTruthful
<1>2. \A d \in Calls, t \in Sessions, n \in 1..2 :
          job'[d][t][n] = IF d = c /\ t = s /\ n = i THEN j ELSE job[d][t][n]
  BY DEF GateInv, JobsTruthful
<1>3. JobsTruthful'
  BY <1>1, <1>2 DEF GateInv, JobsTruthful
<1>4. Gate!TypeOK'
  BY <1>3, GateTypes, GateTypesNext DEF GateInv, JobsTruthful
<1> QED BY <1>3, <1>4 DEF GateInv, HeldListens

\* The user, the timer and the host.
LEMMA ToolCallStep ==
    ASSUME GateInv, GateSized, NEW c \in Calls, NEW s \in Sessions, NEW i \in 1..2,
           \/ \E d \in {"approved", "denied"} : Gate!Decide(c, s, i, d)
           \/ Gate!ListPending(c, s, i) \/ Gate!TimerFires(c, s, i)
           \/ \E ok \in BOOLEAN : \/ Gate!ExecuteRead(c, s, i, ok)
                                  \/ Gate!ExecuteSaveDraft(c, s, i, ok)
                                  \/ Gate!ExecuteSendDraft(c, s, i, ok)
           \/ Gate!Respond(c, s, i)
    PROVE  GateInv'
<1> DEFINE j == job[c][s][i]
<1>1. j \in Job /\ JobTruthful(j)
  BY DEF GateInv, JobsTruthful
<1>2. call' \in [Calls -> Call]
  <2>1. call \in [Calls -> Call]
    BY GateTypes DEF GateInv
  <2>2. \/ UNCHANGED call
        \/ \E r \in {"ok", "error"} : call' = [call EXCEPT ![c].pc = "answered", ![c].reply = r]
    BY DEF Gate!Decide, Gate!Decides, Gate!ListPending, Gate!TimerFires, Gate!ExecuteRead,
       Gate!ExecuteSaveDraft, Gate!ExecuteSendDraft, Gate!Executes, Gate!Respond, Gate!Answers
  <2>3. ASSUME NEW r \in {"ok", "error"},
               call' = [call EXCEPT ![c].pc = "answered", ![c].reply = r]
        PROVE  call' \in [Calls -> Call]
    <3> DEFINE x == [call[c] EXCEPT !.pc = "answered", !.reply = r]
    <3>1. x \in Call
      BY <2>1 DEF Call
    <3>2. call' = [call EXCEPT ![c] = x]
      BY <2>1, <2>3
    <3> HIDE DEF x
    <3> QED BY <2>1, <3>1, <3>2
  <2> QED BY <2>1, <2>2, <2>3
<1>3. ASSUME NEW x \in Job, JobTruthful(x), Gate!Becomes(c, s, i, x) PROVE GateInv'
  BY <1>2, <1>3, JobFrame DEF Gate!Becomes, Gate!sessionVars
<1>4. ASSUME NEW d \in {"approved", "denied"}, Gate!Decide(c, s, i, d) PROVE GateInv'
  <2>1. j.status = "pending" /\ j.pc = "asking" /\ j.asked /\ ~j.timedOut /\ j.runs = 0
    BY <1>1, <1>4 DEF Gate!Decide, Gate!Decides, JobTruthful
  <2>2. CASE call[c].late
    <3> DEFINE x == [j EXCEPT !.status = "expired"]
    <3>1. /\ x \in Job /\ x.status = "expired" /\ x.pc = "asking" /\ x.asked /\ ~x.timedOut
          /\ x.runs = 0
      BY <1>1, <2>1 DEF Job
    <3>2. Gate!Becomes(c, s, i, x)
      BY <1>4, <2>1, <2>2 DEF Gate!Decide, Gate!Decides
    <3> HIDE DEF x
    <3> QED BY <1>3, <3>1, <3>2 DEF JobTruthful
  <2>3. CASE ~call[c].late
    <3> DEFINE pc == IF d = "approved" THEN "running" ELSE "failed"
               x == [j EXCEPT !.status = d, !.pc = pc]
    <3>1. Gate!Becomes(c, s, i, x)
      BY <1>4, <2>1, <2>3 DEF Gate!Decide, Gate!Decides
    <3>2. pc \in {"running", "failed"} /\ (pc = "running" => d = "approved")
      OBVIOUS
    <3> HIDE DEF pc
    <3>3. x \in Job /\ x.status = d /\ x.pc = pc /\ x.asked /\ ~x.timedOut /\ x.runs = 0
      BY <1>1, <2>1, <3>2 DEF Job
    <3> HIDE DEF x
    <3> QED BY <1>3, <3>1, <3>2, <3>3 DEF JobTruthful
  <2> QED BY <2>2, <2>3
<1>5. CASE Gate!ListPending(c, s, i)
  <2> DEFINE x == [j EXCEPT !.status = "expired"]
  <2>1. Gate!Becomes(c, s, i, x) /\ j.status = "pending"
    BY <1>5 DEF Gate!ListPending
  <2>2. x \in Job /\ x.status = "expired" /\ x.pc = "asking" /\ x.asked /\ ~x.timedOut
        /\ x.runs = 0
    BY <1>1, <2>1 DEF Job, JobTruthful
  <2> HIDE DEF x
  <2> QED BY <1>3, <2>1, <2>2 DEF JobTruthful
<1>6. CASE Gate!TimerFires(c, s, i)
  <2> DEFINE x == [j EXCEPT !.pc = "failed", !.status = "expired", !.timedOut = TRUE]
  <2>1. Gate!Becomes(c, s, i, x) /\ j.pc = "asking"
    BY <1>6 DEF Gate!TimerFires
  <2>2. x \in Job /\ x.status = "expired" /\ x.pc = "failed" /\ x.runs = 0
    BY <1>1, <2>1 DEF Job, JobTruthful
  <2> HIDE DEF x
  <2> QED BY <1>3, <2>1, <2>2 DEF JobTruthful
<1>7. ASSUME NEW ok \in BOOLEAN, NEW tool, Gate!Executes(c, s, i, ok, tool) PROVE GateInv'
  <2> DEFINE pc == IF ok THEN "ok" ELSE "failed"  n == IF ok THEN 1 ELSE 0
             x == [j EXCEPT !.pc = pc, !.runs = n]
  <2>1. Gate!Becomes(c, s, i, x) /\ j.pc = "running"
    BY <1>7 DEF Gate!Executes
  <2>2. pc \in {"ok", "failed"} /\ n \in 0..1
    OBVIOUS
  <2> HIDE DEF pc, n
  <2>3. x \in Job /\ x.pc = pc /\ x.status = j.status /\ x.asked = j.asked
        /\ x.timedOut = j.timedOut
    BY <1>1, <2>2 DEF Job
  <2>4. (j.asked => j.status = "approved") /\ j.status # "pending"
    BY <1>1, <2>1 DEF JobTruthful
  <2> HIDE DEF x
  <2>5. JobTruthful(x)
    BY <1>1, <2>1, <2>2, <2>3, <2>4 DEF JobTruthful
  <2> QED BY <1>3, <2>1, <2>3, <2>5
<1>8. CASE Gate!Respond(c, s, i)
  <2> DEFINE x == [j EXCEPT !.pc = "ended"]
  <2>1. Gate!Becomes(c, s, i, x) /\ j.pc \in {"ok", "failed"}
    BY <1>8 DEF Gate!Respond
  <2>2. x \in Job /\ x.pc = "ended" /\ x.status = j.status /\ x.asked = j.asked
        /\ x.timedOut = j.timedOut /\ x.runs = j.runs
    BY <1>1 DEF Job
  <2> HIDE DEF x
  <2>3. JobTruthful(x)
    BY <1>1, <2>1, <2>2 DEF JobTruthful
  <2> QED BY <1>3, <2>1, <2>2, <2>3
<1> QED BY <1>4, <1>5, <1>6, <1>7, <1>8 DEF Gate!ExecuteRead, Gate!ExecuteSaveDraft,
           Gate!ExecuteSendDraft

\* A step of the MCP session keeps its invariant.
LEMMA GateNext == GateInv /\ GateSized /\ Gate!Next => GateInv'
BY SessionStep, ShellStep, CallArrivesStep, ToolCallStep
   DEF Gate!Next, Gate!Shell, Gate!Webview, Gate!Sessions, Sessions

-----------------------------------------------------------------------------
(* Accounts                                                                   *)

People == Live!Accounts
Keychains == [Live!Services -> [People -> Live!Bundles]]
Attempt == [pc : {"none", "waiting", "called", "code", "token", "stored", "added"},
            of : {{}, Gmail, Microsoft}, acct : People \cup {Live!Nobody}]
SyncReq == [pc : {"idle", "load", "refreshing", "refreshed", "sent", "got"},
            acct : People \cup {Live!Nobody}, retried : BOOLEAN]
Removal == [pc : {"none", "revoking", "deleting", "forget", "boot"},
            acct : People \cup {Live!Nobody}, quiet : BOOLEAN, ok : BOOLEAN]

LiveSized == MaxOps \in Nat /\ MaxFaults \in Nat

\* What is under way is under way for an account.
AccountShape ==
    /\ attempt.pc \in {"code", "token", "stored", "added"} => attempt.acct \in People
    /\ sync.pc # "idle" => sync.acct \in People
    /\ removal.pc # "none" => removal.acct \in People

\* Nothing that is under way for an account can bring it back: its token is gone, and
\* no answer, sign-in or listing that had it before is on its way.
Gone(a) ==
    /\ ~Live!Holds(keychain, a)
    /\ sync.acct = a => sync.pc \in {"idle", "load"}
    /\ attempt.acct = a => attempt.pc # "stored"
    /\ \A S \in boot : a \notin S

RemovedIsGone ==
    \A x \in removed :
        x.quiet => Gone(x.acct) /\ x.acct \notin Live!StoredIds /\ x.acct \notin stored

RemovingIsGone ==
    removal.pc \in {"revoking", "deleting", "forget"} /\ removal.ok /\ removal.quiet =>
        Gone(removal.acct) /\ (removal.pc = "forget" => removal.acct \notin stored)

\* The inductive invariant: RemovedStaysRemoved must also hold of what is under way,
\* from the moment the removal has deleted the token.
LiveInv == Live!TypeOK /\ AccountShape /\ RemovedIsGone /\ RemovingIsGone

LEMMA LiveStays == LiveInv => Live!RemovedStaysRemoved
BY DEF LiveInv, RemovedIsGone, Gone, Live!RemovedStaysRemoved, Live!Left

LEMMA LiveTypes ==
    Live!TypeOK <=>
      /\ honoured \subseteq People /\ keychain \in Keychains
      /\ ids \subseteq People /\ stored \subseteq People /\ accounts \subseteq People
      /\ scalar.gmail \in Gmail \cup {Live!Nobody}
      /\ scalar.microsoft \in Microsoft \cup {Live!Nobody}
      /\ boot \subseteq SUBSET People
      /\ attempt \in Attempt /\ sync \in SyncReq /\ removal \in Removal
      /\ removed \subseteq [acct : People, quiet : BOOLEAN]
      /\ accountOps \in 0..MaxOps /\ accountFaults \in 0..MaxFaults
BY DEF Live!TypeOK, People, Keychains, Attempt, SyncReq, Removal

LEMMA LiveTypesNext ==
    Live!TypeOK' <=>
      /\ honoured' \subseteq People /\ keychain' \in Keychains
      /\ ids' \subseteq People /\ stored' \subseteq People /\ accounts' \subseteq People
      /\ scalar'.gmail \in Gmail \cup {Live!Nobody}
      /\ scalar'.microsoft \in Microsoft \cup {Live!Nobody}
      /\ boot' \subseteq SUBSET People
      /\ attempt' \in Attempt /\ sync' \in SyncReq /\ removal' \in Removal
      /\ removed' \subseteq [acct : People, quiet : BOOLEAN]
      /\ accountOps' \in 0..MaxOps /\ accountFaults' \in 0..MaxFaults
BY DEF Live!TypeOK, People, Keychains, Attempt, SyncReq, Removal

\* What each Keychain call does to the accounts that have a token.
LEMMA KeychainCalls ==
    ASSUME NEW k \in Keychains, NEW a \in People, NEW b \in Live!Bundles
    PROVE  /\ Live!StoreToken(k, a, b) \in Keychains
           /\ Live!DeleteToken(k, a) \in Keychains
           /\ Live!LoadToken(k, a) \in Keychains
           /\ \A x \in People :
                 /\ Live!Holds(Live!StoreToken(k, a, b), x) => x = a \/ Live!Holds(k, x)
                 /\ Live!Holds(Live!DeleteToken(k, a), x) => x # a /\ Live!Holds(k, x)
                 /\ Live!Holds(Live!LoadToken(k, a), x) => Live!Holds(k, x)
           /\ Live!LoadToken(k, a)["oauth"][a] # "none" => Live!Holds(k, a)
<1>1. /\ Live!StoreToken(k, a, b) \in Keychains
      /\ \A x \in People : Live!Holds(Live!StoreToken(k, a, b), x) => x = a \/ Live!Holds(k, x)
  BY DEF Live!StoreToken, Live!Holds, Live!Services, Live!Bundles, Keychains
<1>2. /\ Live!DeleteToken(k, a) \in Keychains
      /\ \A x \in People : Live!Holds(Live!DeleteToken(k, a), x) => x # a /\ Live!Holds(k, x)
  BY DEF Live!DeleteToken, Live!Holds, Live!Services, Live!Bundles, Keychains
<1>3. /\ Live!LoadToken(k, a) \in Keychains
      /\ \A x \in People : Live!Holds(Live!LoadToken(k, a), x) => Live!Holds(k, x)
      /\ Live!LoadToken(k, a)["oauth"][a] # "none" => Live!Holds(k, a)
  BY DEF Live!LoadToken, Live!StoreToken, Live!Holds, Live!Services, Live!Bundles, Keychains
<1> QED BY <1>1, <1>2, <1>3

\* A listing moves tokens from one service to the other and makes none.
LEMMA ListingMovesTokens ==
    ASSUME NEW k \in Keychains
    PROVE  /\ Live!ListAndMigrate(k) \in Keychains
           /\ \A x \in People : Live!Holds(Live!ListAndMigrate(k), x) => Live!Holds(k, x)
BY DEF Live!ListAndMigrate, Live!Holds, Live!Services, Live!Bundles, Keychains, People

\* FirstOf names an account of the set or nobody.
LEMMA FirstOfSet ==
    ASSUME NEW S, NEW old
    PROVE  Live!FirstOf(S, old) \in S \cup {Live!Nobody}
<1>1. CASE S = {}
  BY <1>1 DEF Live!FirstOf
<1>2. CASE S # {}
  <2>1. (CHOOSE a \in S : TRUE) \in S
    BY <1>2
  <2> QED BY <1>2, <2>1 DEF Live!FirstOf
<1> QED BY <1>1, <1>2

\* After a write of the session, the deprecated keys name accounts of the list.
LEMMA SessionWrites ==
    ASSUME NEW S \in SUBSET People, Live!WriteIds(S)
    PROVE  /\ ids' = S /\ Live!StoredIds' = S
           /\ scalar'.gmail \in Gmail \cup {Live!Nobody}
           /\ scalar'.microsoft \in Microsoft \cup {Live!Nobody}
<1>1. /\ ids' = S /\ scalar'.gmail = Live!FirstOf(S \cap Gmail, scalar.gmail)
      /\ scalar'.microsoft = Live!FirstOf(S \cap Microsoft, scalar.microsoft)
  BY DEF Live!WriteIds
<1>2. /\ scalar'.gmail \in (S \cap Gmail) \cup {Live!Nobody}
      /\ scalar'.microsoft \in (S \cap Microsoft) \cup {Live!Nobody}
  BY <1>1, FirstOfSet
<1> QED BY <1>1, <1>2 DEF Live!StoredIds, Live!Scalars

\* The accounts of the session.
LEMMA SessionAccounts == Live!TypeOK => Live!StoredIds \subseteq People
BY LiveTypes DEF Live!StoredIds, Live!Scalars, People, Live!Accounts

\* The records of nobody.
LEMMA LiveIdle == /\ Live!NoAttempt \in Attempt /\ Live!NoAttempt.pc = "none"
                  /\ Live!Idle \in SyncReq /\ Live!Idle.pc = "idle"
                  /\ Live!NoRemoval \in Removal /\ Live!NoRemoval.pc = "none"
BY DEF Live!NoAttempt, Attempt, Live!Idle, SyncReq, Live!NoRemoval, Removal

\* Each action counts an operation or a fault within its bound, or none.
LEMMA LiveCounts ==
    ASSUME Live!TypeOK, LiveSized
    PROVE  /\ Live!Fails => accountFaults' \in 0..MaxFaults /\ accountOps' \in 0..MaxOps
           /\ Live!Acts => accountFaults' \in 0..MaxFaults /\ accountOps' \in 0..MaxOps
           /\ Live!Goes => accountFaults' \in 0..MaxFaults /\ accountOps' \in 0..MaxOps
BY LiveTypes DEF LiveSized, Live!Fails, Live!Acts, Live!Goes, Live!bounds

LEMMA LiveInit == LiveSized /\ Live!Init => LiveInv
<1> SUFFICES ASSUME LiveSized, NEW S \in SUBSET People, NEW s \in Live!Services,
                    honoured = S, stored = S,
                    keychain = [x \in Live!Services |-> [a \in People |->
                        IF x = s /\ a \in S THEN "expired" ELSE "none"]],
                    ids = IF s = "oauth" THEN S ELSE {},
                    scalar = [gmail |-> Live!FirstOf(S \cap Gmail, Live!Nobody),
                              microsoft |-> Live!FirstOf(S \cap Microsoft, Live!Nobody)],
                    accounts = {}, boot = {}, accountOps = 0, accountFaults = 0,
                    attempt = Live!NoAttempt, sync = Live!Idle,
                    removal = Live!NoRemoval, removed = {}
             PROVE  LiveInv
  BY DEF Live!Init, People
<1>1. keychain \in Keychains
  BY DEF Keychains, Live!Bundles
<1>2. /\ scalar.gmail \in Gmail \cup {Live!Nobody}
      /\ scalar.microsoft \in Microsoft \cup {Live!Nobody}
  BY FirstOfSet
<1>3. Live!TypeOK
  BY <1>1, <1>2, LiveIdle, LiveTypes DEF LiveSized
<1>4. AccountShape /\ RemovedIsGone /\ RemovingIsGone
  BY LiveIdle DEF AccountShape, RemovedIsGone, RemovingIsGone
<1> QED BY <1>3, <1>4 DEF LiveInv

\* The step of a sign-in that stores nothing: the shell holds the attempt.
LEMMA AttemptFrame ==
    ASSUME LiveInv, LiveSized, attempt' \in Attempt, attempt'.pc \notin {"stored", "added"},
           attempt'.pc \in {"code", "token"} => attempt'.acct \in People,
           honoured' \subseteq People,
           accountFaults' \in 0..MaxFaults /\ accountOps' \in 0..MaxOps,
           UNCHANGED <<keychain, ids, scalar, stored, accounts, boot, sync, removal, removed>>
    PROVE  LiveInv'
<1>1. Live!TypeOK'
  BY LiveTypes, LiveTypesNext DEF LiveInv
<1>2. AccountShape'
  BY DEF LiveInv, AccountShape
<1>3. \A a : Gone(a) => Gone(a)'
  BY DEF Gone
<1>4. Live!StoredIds' = Live!StoredIds
  BY DEF Live!StoredIds, Live!Scalars
<1>5. RemovedIsGone' /\ RemovingIsGone'
  BY <1>3, <1>4 DEF LiveInv, RemovedIsGone, RemovingIsGone
<1> QED BY <1>1, <1>2, <1>5 DEF LiveInv

\* Begin, callback, exchange of the code.
LEMMA SignInStep ==
    ASSUME LiveInv, LiveSized,
           \/ Live!BeginGmail \/ Live!BeginMicrosoft \/ Live!AcceptCallback
           \/ Live!DeliverCallback \/ Live!CompleteGmail \/ Live!CompleteMicrosoft
           \/ Live!ExchangeGmailCode \/ Live!ExchangeMicrosoftCode
    PROVE  LiveInv'
<1>0. attempt \in Attempt /\ Live!TypeOK /\ honoured \subseteq People
  BY LiveTypes DEF LiveInv
<1>1. ASSUME NEW P \in {Gmail, Microsoft}, Live!Begins(P) PROVE LiveInv'
  <2> DEFINE x == [Live!NoAttempt EXCEPT !.pc = "waiting", !.of = P]
  <2>1. x \in Attempt /\ x.pc = "waiting"
    BY LiveIdle DEF Attempt
  <2>2. attempt' = x /\ Live!Acts
    BY <1>1 DEF Live!Begins
  <2> HIDE DEF x
  <2> QED BY <1>0, <1>1, <2>1, <2>2, LiveCounts, AttemptFrame DEF Live!Begins, Live!session
<1>2. ASSUME NEW accts, accts \subseteq People \cup {Live!Nobody},
             Live!Hears(Live!Called(accts))
      PROVE  LiveInv'
  <2>1. /\ attempt' \in [pc : {"called"}, of : {attempt.of}, acct : accts] \cup {Live!NoAttempt}
        /\ Live!Goes
        /\ UNCHANGED <<honoured, keychain, ids, scalar, stored, accounts, boot, sync, removal,
                       removed>>
    BY <1>2 DEF Live!Hears, Live!Called, Live!session
  <2>2. attempt' \in Attempt /\ attempt'.pc \in {"called", "none"}
    BY <1>0, <1>2, <2>1, LiveIdle DEF Attempt
  <2> QED BY <1>0, <2>1, <2>2, LiveCounts, AttemptFrame
<1>3. attempt.of \cup {Live!Nobody} \subseteq People \cup {Live!Nobody}
  BY <1>0 DEF Attempt, People, Live!Accounts
<1>4. ASSUME NEW P, Live!Completes(P) PROVE LiveInv'
  <2> DEFINE x == [attempt EXCEPT !.pc = "code"]
  <2>1. x \in Attempt /\ x.pc = "code" /\ x.acct = attempt.acct
    BY <1>0 DEF Attempt
  <2>2. attempt' = Live!NoAttempt \/ (attempt' = x /\ attempt.acct # Live!Nobody)
    BY <1>4 DEF Live!Completes
  <2>3. attempt.acct # Live!Nobody => attempt.acct \in People
    BY <1>0 DEF Attempt
  <2>4. /\ Live!Goes
        /\ UNCHANGED <<honoured, keychain, ids, scalar, stored, accounts, boot, sync, removal,
                       removed>>
    BY <1>4 DEF Live!Completes, Live!session
  <2> HIDE DEF x
  <2> QED BY <1>0, <2>1, <2>2, <2>3, <2>4, LiveIdle, LiveCounts, AttemptFrame
<1>5. ASSUME NEW P, Live!Exchanges(P) PROVE LiveInv'
  <2> DEFINE x == [attempt EXCEPT !.pc = "token"]
  <2>1. x \in Attempt /\ x.pc = "token" /\ x.acct = attempt.acct
    BY <1>0 DEF Attempt
  <2>2. attempt.acct \in People
    BY <1>5 DEF Live!Exchanges, LiveInv, AccountShape
  <2>3. /\ \/ honoured' = honoured \cup {attempt.acct} /\ attempt' = x /\ Live!Goes
           \/ Live!Fails /\ attempt' = Live!NoAttempt /\ UNCHANGED honoured
        /\ UNCHANGED <<keychain, ids, scalar, stored, accounts, boot, sync, removal, removed>>
    BY <1>5 DEF Live!Exchanges, Live!session
  <2> HIDE DEF x
  <2>4. /\ attempt' \in Attempt /\ attempt'.pc \in {"none", "token"}
        /\ attempt'.pc = "token" => attempt'.acct \in People
        /\ honoured' \subseteq People
    BY <1>0, <2>1, <2>2, <2>3, LiveIdle
  <2> QED BY <1>0, <2>3, <2>4, LiveCounts, AttemptFrame
<1> QED BY <1>1, <1>2, <1>3, <1>4, <1>5 DEF Live!BeginGmail, Live!BeginMicrosoft,
           Live!AcceptCallback, Live!DeliverCallback, Live!CompleteGmail,
           Live!CompleteMicrosoft, Live!ExchangeGmailCode, Live!ExchangeMicrosoftCode

\* An account that is connected again is not one that was removed, and a removal of it
\* under way counts no more.
LEMMA ConnectsForgets ==
    ASSUME LiveInv, NEW a \in People, Live!Connects(a)
    PROVE  /\ removed' \subseteq removed /\ \A x \in removed' : x.acct # a
           /\ removal' \in Removal
           /\ removal'.pc = removal.pc /\ removal'.acct = removal.acct
           /\ removal'.quiet = removal.quiet
           /\ removal'.ok => removal.ok /\ removal.acct # a
<1>1. removal \in Removal
  BY LiveTypes DEF LiveInv
<1>2. CASE removal.acct = a
  <2>1. removal' = [removal EXCEPT !.ok = FALSE]
    BY <1>2 DEF Live!Connects
  <2> QED BY <1>1, <2>1 DEF Removal, Live!Connects
<1>3. CASE removal.acct # a
  BY <1>1, <1>3 DEF Live!Connects, Removal
<1> QED BY <1>2, <1>3

\* The token is stored, then the account is put into the session.
LEMMA ConnectStep ==
    ASSUME LiveInv, LiveSized,
           \/ Live!FinishGmail \/ Live!FinishMicrosoft
           \/ Live!ConnectGmailWithPkce \/ Live!ConnectMicrosoftWithPkce
    PROVE  LiveInv'
<1> DEFINE a == attempt.acct
<1>0. attempt \in Attempt /\ Live!TypeOK /\ keychain \in Keychains
  BY LiveTypes DEF LiveInv
<1>1. ASSUME NEW P, Live!Finishes(P) PROVE LiveInv'
  <2>0. a \in People /\ attempt.pc = "token"
        /\ UNCHANGED <<honoured, stored, ids, scalar, accounts, boot, sync>>
    BY <1>1 DEF Live!Finishes, Live!session, LiveInv, AccountShape
  <2>1. CASE Live!Fails /\ attempt' = Live!NoAttempt /\ UNCHANGED <<keychain, removal, removed>>
    <3>1. honoured' \subseteq People
      BY <2>0, LiveTypes DEF LiveInv
    <3> QED BY <1>0, <2>0, <2>1, <3>1, LiveIdle, LiveCounts, AttemptFrame
  <2>2. CASE /\ keychain' = Live!StoreToken(keychain, a, "fresh") /\ Live!Connects(a)
             /\ attempt' = [attempt EXCEPT !.pc = "stored"] /\ Live!Goes
    <3>1. attempt' \in Attempt /\ attempt'.pc = "stored" /\ attempt'.acct = a
      BY <1>0, <2>2 DEF Attempt
    <3>2. /\ keychain' \in Keychains
          /\ \A x \in People : Live!Holds(keychain', x) => x = a \/ Live!Holds(keychain, x)
      BY <1>0, <2>0, <2>2, KeychainCalls DEF Live!Bundles
    <3>3. Live!TypeOK'
      BY <1>0, <2>0, <2>2, <3>1, <3>2, ConnectsForgets, LiveCounts, LiveTypes, LiveTypesNext
    <3>4. AccountShape'
      BY <2>0, <2>2, <3>1, ConnectsForgets DEF LiveInv, AccountShape
    <3>5. \A x \in People : x # a /\ Gone(x) => Gone(x)'
      BY <2>0, <3>1, <3>2 DEF Gone, Live!Holds
    <3>6. RemovedIsGone'
      <4>1. Live!StoredIds' = Live!StoredIds
        BY <2>0 DEF Live!StoredIds, Live!Scalars
      <4>2. \A x \in removed' : x \in removed /\ x.acct # a /\ x.acct \in People
        BY <2>0, <2>2, ConnectsForgets, LiveTypes DEF LiveInv
      <4> QED BY <2>0, <3>5, <4>1, <4>2 DEF LiveInv, RemovedIsGone
    <3>7. RemovingIsGone'
      BY <2>0, <2>2, <3>5, ConnectsForgets DEF LiveInv, RemovingIsGone, AccountShape
    <3> QED BY <3>3, <3>4, <3>6, <3>7 DEF LiveInv
  <2> QED BY <1>1, <2>1, <2>2 DEF Live!Finishes
<1>2. ASSUME NEW P, Live!Adds(P) PROVE LiveInv'
  <2>0. /\ a \in People /\ attempt.pc = "stored" /\ Live!Goes
        /\ attempt' = [attempt EXCEPT !.pc = "added"]
        /\ Live!WriteIds(Live!StoredIds \cup {a}) /\ Live!Connects(a)
        /\ UNCHANGED <<honoured, keychain, stored, accounts, boot, sync>>
    BY <1>2 DEF Live!Adds, LiveInv, AccountShape
  <2>1. attempt' \in Attempt /\ attempt'.pc = "added" /\ attempt'.acct = a
    BY <1>0, <2>0 DEF Attempt
  <2>2. /\ Live!StoredIds' = Live!StoredIds \cup {a} /\ ids' \subseteq People
        /\ scalar'.gmail \in Gmail \cup {Live!Nobody}
        /\ scalar'.microsoft \in Microsoft \cup {Live!Nobody}
    BY <1>0, <2>0, SessionAccounts, SessionWrites
  <2>3. Live!TypeOK'
    BY <1>0, <2>0, <2>1, <2>2, ConnectsForgets, LiveCounts, LiveTypes, LiveTypesNext
  <2>4. AccountShape'
    BY <2>0, <2>1, ConnectsForgets DEF LiveInv, AccountShape
  <2>5. \A x \in People : Gone(x) => Gone(x)'
    BY <2>0, <2>1 DEF Gone, Live!Holds
  <2>6. RemovedIsGone'
    <3>1. \A x \in removed' : x \in removed /\ x.acct # a /\ x.acct \in People
      BY <2>0, ConnectsForgets, LiveTypes DEF LiveInv
    <3> QED BY <2>0, <2>2, <2>5, <3>1 DEF LiveInv, RemovedIsGone
  <2>7. RemovingIsGone'
    BY <2>0, <2>5, ConnectsForgets DEF LiveInv, RemovingIsGone, AccountShape
  <2> QED BY <2>3, <2>4, <2>6, <2>7 DEF LiveInv
<1> QED BY <1>1, <1>2 DEF Live!FinishGmail, Live!FinishMicrosoft, Live!ConnectGmailWithPkce,
           Live!ConnectMicrosoftWithPkce

\* A listing names the accounts that have a token, so none that is gone.
LEMMA ListingStep ==
    ASSUME LiveInv, LiveSized, Live!Start \/ Live!StartAfterSignIn \/ Live!StartAfterRemoval
    PROVE  LiveInv'
<1>0. attempt \in Attempt /\ Live!TypeOK /\ keychain \in Keychains /\ removal \in Removal
  BY LiveTypes DEF LiveInv
<1>1. /\ keychain' = Live!ListAndMigrate(keychain) /\ Live!Goes
      /\ boot' = boot \cup {{a \in People : Live!Holds(keychain, a)}}
      /\ UNCHANGED <<honoured, ids, scalar, stored, accounts, sync, removed>>
      /\ attempt' = attempt \/ attempt' = Live!NoAttempt
      /\ removal' = removal \/ removal' = Live!NoRemoval
  <2>1. Live!ListAccountIds
    BY DEF Live!Start, Live!StartAfterSignIn, Live!StartAfterRemoval
  <2>2. /\ attempt' = attempt \/ attempt' = Live!NoAttempt
        /\ removal' = removal \/ removal' = Live!NoRemoval
    BY DEF Live!Start, Live!StartAfterSignIn, Live!StartAfterRemoval
  <2> QED BY <2>1, <2>2 DEF Live!ListAccountIds, People
<1>2. keychain' \in Keychains
      /\ \A x \in People : Live!Holds(keychain', x) => Live!Holds(keychain, x)
  BY <1>0, <1>1, ListingMovesTokens
<1>3. \A x : Live!Holds(keychain, x)' = Live!Holds(keychain', x)
  BY DEF Live!Holds
<1>4. attempt' \in Attempt /\ removal' \in Removal
  BY <1>0, <1>1, LiveIdle
<1>5. Live!TypeOK'
  BY <1>0, <1>1, <1>2, <1>4, LiveCounts, LiveTypes, LiveTypesNext
<1>6. AccountShape'
  BY <1>1, LiveIdle DEF LiveInv, AccountShape
<1>7. \A x \in People : Gone(x) => Gone(x)'
  BY <1>1, <1>2, <1>3, LiveIdle DEF Gone
<1>8. Live!StoredIds' = Live!StoredIds
  BY <1>1 DEF Live!StoredIds, Live!Scalars
<1>9. RemovedIsGone'
  <2>1. \A x \in removed : x.acct \in People
    BY LiveTypes DEF LiveInv
  <2> QED BY <1>1, <1>7, <1>8, <2>1 DEF LiveInv, RemovedIsGone
<1>10. RemovingIsGone'
  BY <1>1, <1>7, LiveIdle DEF LiveInv, RemovingIsGone, AccountShape
<1> QED BY <1>5, <1>6, <1>9, <1>10 DEF LiveInv

\* A new runtime has the accounts of the session and of one listing.
LEMMA CreateRuntimeStep ==
    ASSUME LiveInv, LiveSized, NEW S \in boot, Live!CreateRuntime(S)
    PROVE  LiveInv'
<1>0. Live!TypeOK /\ S \subseteq People
  BY LiveTypes DEF LiveInv
<1>1. /\ boot' = boot \ {S}
      /\ UNCHANGED <<honoured, keychain, stored, attempt, sync, removal, removed>>
  BY DEF Live!CreateRuntime
<1>2. PICK T \in {S, {}} : /\ Live!WriteIds(Live!StoredIds \cup T)
                           /\ accounts' = Live!StoredIds \cup T
                           /\ Live!Goes \/ Live!Fails
  BY DEF Live!CreateRuntime
<1>3. /\ Live!StoredIds' = Live!StoredIds \cup T /\ ids' \subseteq People
      /\ accounts' \subseteq People
      /\ scalar'.gmail \in Gmail \cup {Live!Nobody}
      /\ scalar'.microsoft \in Microsoft \cup {Live!Nobody}
  BY <1>0, <1>2, SessionAccounts, SessionWrites
<1>4. Live!TypeOK'
  BY <1>0, <1>1, <1>2, <1>3, LiveCounts, LiveTypes, LiveTypesNext
<1>5. AccountShape'
  BY <1>1 DEF LiveInv, AccountShape
<1>6. \A x : Gone(x) => Gone(x)' /\ x \notin T
  BY <1>1 DEF Gone, Live!Holds
<1>7. RemovedIsGone' /\ RemovingIsGone'
  BY <1>1, <1>3, <1>6 DEF LiveInv, RemovedIsGone, RemovingIsGone
<1> QED BY <1>4, <1>5, <1>7 DEF LiveInv

\* The steps of a request: a request that is further than its start is not for an account
\* that is gone, so it stores neither a token nor rows of one.
LEMMA RequestFrame ==
    ASSUME LiveInv, LiveSized, keychain' \in Keychains, sync' \in SyncReq,
           sync'.pc # "idle" => sync'.acct \in People, stored' \subseteq People,
           \/ Live!Goes \/ Live!Fails \/ Live!Acts,
           \A a \in People : Gone(a) =>
               /\ ~Live!Holds(keychain', a)
               /\ a \in stored' => a \in stored
               /\ sync'.acct = a => sync'.pc \in {"idle", "load"},
           UNCHANGED <<honoured, ids, scalar, accounts, boot, attempt, removal, removed>>
    PROVE  LiveInv'
<1>1. Live!TypeOK'
  BY LiveCounts, LiveTypes, LiveTypesNext DEF LiveInv
<1>2. AccountShape'
  BY DEF LiveInv, AccountShape
<1>3. \A a \in People : Gone(a) => Gone(a)' /\ (a \notin stored => a \notin stored')
  BY DEF Gone, Live!Holds
<1>4. Live!StoredIds' = Live!StoredIds
  BY DEF Live!StoredIds, Live!Scalars
<1>5. RemovedIsGone'
  <2>1. \A x \in removed : x.acct \in People
    BY LiveTypes DEF LiveInv
  <2> QED BY <1>3, <1>4, <2>1 DEF LiveInv, RemovedIsGone
<1>6. RemovingIsGone'
  BY <1>3 DEF LiveInv, RemovingIsGone, AccountShape
<1> QED BY <1>1, <1>2, <1>5, <1>6 DEF LiveInv

\* A request goes on only with a token the Keychain held.
LEMMA AuthorizeNeedsToken ==
    ASSUME LiveInv, sync.acct \in People, NEW r \in BOOLEAN, Live!Authorize(r)
    PROVE  /\ keychain' \in Keychains /\ sync' \in SyncReq
           /\ \A x \in People : Live!Holds(keychain', x) => Live!Holds(keychain, x)
           /\ \/ sync'.pc = "idle"
              \/ sync'.acct = sync.acct /\ Live!Holds(keychain, sync.acct)
<1> DEFINE k == Live!LoadToken(keychain, sync.acct)
           b == k["oauth"][sync.acct]
           p == IF b = "fresh" /\ ~r THEN "sent" ELSE "refreshing"
           x == [sync EXCEPT !.retried = r, !.pc = p]
<1>1. keychain \in Keychains /\ sync \in SyncReq
  BY LiveTypes DEF LiveInv
<1>2. p \in {"sent", "refreshing"}
  OBVIOUS
<1>3. keychain' = k /\ sync' = IF b = "none" THEN Live!Idle ELSE x
  BY DEF Live!Authorize
<1>4. /\ k \in Keychains
      /\ b # "none" => Live!Holds(keychain, sync.acct)
      /\ \A y \in People : Live!Holds(k, y) => Live!Holds(keychain, y)
  <2>1. "none" \in Live!Bundles
    BY DEF Live!Bundles
  <2> QED BY <1>1, <2>1, KeychainCalls
<1> HIDE DEF k, b, p
<1>5. x \in SyncReq /\ x.acct = sync.acct
  BY <1>1, <1>2 DEF SyncReq
<1> HIDE DEF x
<1> QED BY <1>3, <1>4, <1>5, LiveIdle

\* A synchronisation begins.
LEMMA SyncStep ==
    ASSUME LiveInv, LiveSized, NEW a \in People, Live!Sync(a)
    PROVE  LiveInv'
<1> DEFINE x == [Live!Idle EXCEPT !.pc = "load", !.acct = a]
<1>0. keychain \in Keychains /\ stored \subseteq People
  BY LiveTypes DEF LiveInv
<1>1. x \in SyncReq /\ x.pc = "load" /\ x.acct = a
  BY LiveIdle DEF SyncReq
<1>2. /\ sync' = x /\ Live!Acts
      /\ UNCHANGED <<honoured, keychain, ids, scalar, stored, accounts, boot, attempt, removal,
                     removed>>
  BY DEF Live!Sync, Live!session
<1> HIDE DEF x
<1> QED BY <1>0, <1>1, <1>2, RequestFrame DEF Gone

\* The request finds its token, or a refreshed one is stored.
LEMMA TokenStep ==
    ASSUME LiveInv, LiveSized, Live!AccessToken \/ Live!StoreRefreshed
    PROVE  LiveInv'
<1>0. /\ Live!TypeOK /\ keychain \in Keychains /\ sync \in SyncReq /\ stored \subseteq People
      /\ Live!Idle \in SyncReq /\ Live!Idle.pc = "idle"
  BY LiveTypes, LiveIdle DEF LiveInv
<1>1. CASE Live!AccessToken
  <2>1. /\ sync.acct \in People /\ Live!Authorize(FALSE) /\ Live!Goes
        /\ UNCHANGED <<honoured, ids, scalar, stored, accounts, boot, attempt, removal, removed>>
    BY <1>1 DEF Live!AccessToken, Live!session, LiveInv, AccountShape
  <2>2. /\ keychain' \in Keychains /\ sync' \in SyncReq
        /\ \A x \in People : Live!Holds(keychain', x) => Live!Holds(keychain, x)
        /\ \/ sync'.pc = "idle"
           \/ sync'.acct = sync.acct /\ Live!Holds(keychain, sync.acct)
    BY <2>1, AuthorizeNeedsToken
  <2> QED BY <1>0, <2>1, <2>2, RequestFrame DEF Gone
<1>2. CASE Live!StoreRefreshed
  <2> DEFINE x == [sync EXCEPT !.pc = "sent"]
  <2>1. x \in SyncReq /\ x.acct = sync.acct
    BY <1>0 DEF SyncReq
  <2>2. /\ sync.acct \in People /\ sync.pc = "refreshed" /\ sync' = x /\ Live!Goes
        /\ keychain' = Live!StoreToken(keychain, sync.acct, "fresh")
        /\ UNCHANGED <<honoured, ids, scalar, stored, accounts, boot, attempt, removal, removed>>
    BY <1>2 DEF Live!StoreRefreshed, Live!session, LiveInv, AccountShape
  <2> HIDE DEF x
  <2>3. /\ keychain' \in Keychains
        /\ \A y \in People :
              Live!Holds(keychain', y) => y = sync.acct \/ Live!Holds(keychain, y)
    BY <1>0, <2>2, KeychainCalls DEF Live!Bundles
  <2> QED BY <1>0, <2>1, <2>2, <2>3, RequestFrame DEF Gone
<1> QED BY <1>1, <1>2

\* The provider refreshes the token and answers; the answer is stored.
LEMMA AnsweringStep ==
    ASSUME LiveInv, LiveSized,
           \/ Live!RefreshGmail \/ Live!RefreshMicrosoft
           \/ Live!GoogleAnswers \/ Live!GraphAnswers \/ Live!StoreRows
    PROVE  LiveInv'
<1>0. /\ Live!TypeOK /\ keychain \in Keychains /\ sync \in SyncReq /\ stored \subseteq People
      /\ Live!Idle \in SyncReq /\ Live!Idle.pc = "idle"
  BY LiveTypes, LiveIdle DEF LiveInv
<1>1. ASSUME NEW P, Live!Refreshes(P) PROVE LiveInv'
  <2> DEFINE x == [sync EXCEPT !.pc = "refreshed"]
  <2>1. x \in SyncReq /\ x.acct = sync.acct
    BY <1>0 DEF SyncReq
  <2>2. /\ sync.acct \in People /\ sync.pc = "refreshing"
        /\ sync' = x \/ sync' = Live!Idle
        /\ Live!Goes \/ Live!Fails
        /\ UNCHANGED <<honoured, keychain, ids, scalar, stored, accounts, boot, attempt, removal,
                       removed>>
    BY <1>1 DEF Live!Refreshes, Live!session, LiveInv, AccountShape
  <2> HIDE DEF x
  <2> QED BY <1>0, <2>1, <2>2, RequestFrame DEF Gone
<1>2. ASSUME NEW P, Live!Answers(P) PROVE LiveInv'
  <2> DEFINE x == [sync EXCEPT !.pc = "got"]
  <2>1. x \in SyncReq /\ x.acct = sync.acct
    BY <1>0 DEF SyncReq
  <2>2. /\ sync.acct \in People /\ sync.pc = "sent"
        /\ Live!Goes \/ Live!Fails
        /\ \/ UNCHANGED keychain /\ (sync' = x \/ sync' = Live!Idle)
           \/ Live!Authorize(TRUE)
        /\ UNCHANGED <<honoured, ids, scalar, stored, accounts, boot, attempt, removal, removed>>
    BY <1>2 DEF Live!Answers, Live!session, LiveInv, AccountShape
  <2> HIDE DEF x
  <2>3. ~Gone(sync.acct)
    BY <2>2 DEF Gone
  <2>4. CASE Live!Authorize(TRUE)
    <3>1. /\ keychain' \in Keychains /\ sync' \in SyncReq
          /\ \A y \in People : Live!Holds(keychain', y) => Live!Holds(keychain, y)
          /\ sync'.pc = "idle" \/ sync'.acct = sync.acct
      BY <2>2, <2>4, AuthorizeNeedsToken
    <3> QED BY <1>0, <2>2, <2>3, <3>1, RequestFrame DEF Gone
  <2>5. CASE UNCHANGED keychain /\ (sync' = x \/ sync' = Live!Idle)
    BY <1>0, <2>1, <2>2, <2>3, <2>5, RequestFrame DEF Gone
  <2> QED BY <2>2, <2>4, <2>5
<1>3. CASE Live!StoreRows
  <2> DEFINE x == [sync EXCEPT !.pc = "load", !.retried = FALSE]
  <2>1. x \in SyncReq /\ x.acct = sync.acct
    BY <1>0 DEF SyncReq
  <2>2. /\ sync.acct \in People /\ sync.pc = "got" /\ Live!Goes
        /\ stored' = stored \cup {sync.acct}
        /\ sync' = x \/ sync' = Live!Idle
        /\ UNCHANGED <<honoured, keychain, ids, scalar, accounts, boot, attempt, removal, removed>>
    BY <1>3 DEF Live!StoreRows, Live!session, LiveInv, AccountShape
  <2> HIDE DEF x
  <2> QED BY <1>0, <2>1, <2>2, RequestFrame DEF Gone
<1> QED BY <1>1, <1>2, <1>3 DEF Live!RefreshGmail, Live!RefreshMicrosoft, Live!GoogleAnswers,
           Live!GraphAnswers

\* An access token that expires is still a token.
LEMMA ExpiryStep ==
    ASSUME LiveInv, LiveSized, NEW a \in People, Live!TokenExpires(a)
    PROVE  LiveInv'
<1>1. /\ keychain["oauth"][a] = "fresh" /\ Live!Goes
      /\ keychain' = [keychain EXCEPT !["oauth"][a] = "expired"]
      /\ UNCHANGED <<honoured, ids, scalar, stored, accounts, boot, attempt, sync, removal,
                     removed>>
  BY DEF Live!TokenExpires, Live!session
<1>2. /\ Live!TypeOK /\ keychain \in Keychains /\ sync \in SyncReq /\ stored \subseteq People
      /\ sync.pc # "idle" => sync.acct \in People
  BY LiveTypes DEF LiveInv, AccountShape
<1>3. /\ keychain' \in Keychains
      /\ \A x \in People : Live!Holds(keychain', x) => Live!Holds(keychain, x)
  BY <1>1, <1>2 DEF Live!Holds, Live!Services, Live!Bundles, Keychains
<1> QED BY <1>1, <1>2, <1>3, RequestFrame DEF Gone

\* A step of a removal brings nothing back.
LEMMA RemovalFrame ==
    ASSUME LiveInv, LiveSized, keychain' \in Keychains, removal' \in Removal,
           \A x \in People : Live!Holds(keychain', x) => Live!Holds(keychain, x),
           removal'.pc # "none" => removal'.acct \in People,
           RemovingIsGone', stored' \subseteq stored, honoured' \subseteq honoured,
           accountFaults' \in 0..MaxFaults /\ accountOps' \in 0..MaxOps,
           UNCHANGED <<ids, scalar, accounts, boot, attempt, sync, removed>>
    PROVE  LiveInv'
<1>1. Live!TypeOK'
  BY LiveTypes, LiveTypesNext DEF LiveInv
<1>2. AccountShape'
  BY DEF LiveInv, AccountShape
<1>3. \A x \in People : Gone(x) => Gone(x)'
  BY DEF Gone, Live!Holds
<1>4. Live!StoredIds' = Live!StoredIds
  BY DEF Live!StoredIds, Live!Scalars
<1>5. RemovedIsGone'
  <2>1. \A x \in removed : x.acct \in People
    BY LiveTypes DEF LiveInv
  <2> QED BY <1>3, <1>4, <2>1 DEF LiveInv, RemovedIsGone
<1> QED BY <1>1, <1>2, <1>5 DEF LiveInv

\* The command deletes the token; the removal is quiet when nothing else is under way for
\* the account.
LEMMA RemovesStep ==
    ASSUME LiveInv, LiveSized, NEW a \in People, NEW token \in Keychains,
           \A x \in People : Live!Holds(token, x) => Live!Holds(keychain, x),
           NEW tells \in BOOLEAN, Live!Removes(a, token, tells),
           accountOps < MaxOps, accountOps' = accountOps + 1,
           UNCHANGED <<honoured, stored, ids, scalar, accounts, boot, attempt, sync, removed>>
    PROVE  LiveInv'
<1> DEFINE quiet == ~Live!Busy(a)
           pc == IF tells THEN "revoking" ELSE "deleting"
           begun == [pc |-> pc, acct |-> a, quiet |-> quiet, ok |-> TRUE]
           failed == [begun EXCEPT !.ok = FALSE]
<1>0. /\ accountFaults \in 0..MaxFaults /\ accountOps \in 0..MaxOps
      /\ MaxFaults \in Nat /\ MaxOps \in Nat
  BY LiveTypes DEF LiveInv, LiveSized
<1>1. \/ keychain' = Live!DeleteToken(token, a) /\ removal' = begun /\ UNCHANGED accountFaults
      \/ /\ accountFaults < MaxFaults /\ accountFaults' = accountFaults + 1
         /\ keychain' = token /\ removal' = failed
  BY DEF Live!Removes
<1>2. quiet \in BOOLEAN
  BY DEF Live!Busy
<1>3. pc \in {"revoking", "deleting"}
  OBVIOUS
<1>4. quiet => /\ sync.acct # a /\ \A S \in boot : a \notin S
               /\ attempt.acct = a => attempt.pc # "stored"
  BY DEF Live!Busy
<1> HIDE DEF quiet, pc
<1>5. /\ begun \in Removal /\ begun.acct = a /\ begun.quiet = quiet
      /\ begun.pc \in {"revoking", "deleting"}
  BY <1>2, <1>3 DEF Removal
<1>6. failed \in Removal /\ failed.acct = a /\ failed.ok = FALSE
  BY <1>2, <1>3 DEF Removal
<1> HIDE DEF begun, failed
<1>7. /\ keychain' \in Keychains
      /\ \A x \in People : Live!Holds(keychain', x) => Live!Holds(keychain, x)
      /\ keychain' = Live!DeleteToken(token, a) => ~Live!Holds(keychain', a)
  <2>1. "none" \in Live!Bundles
    BY DEF Live!Bundles
  <2> QED BY <1>1, <2>1, KeychainCalls
<1>8. RemovingIsGone'
  <2>1. CASE keychain' = Live!DeleteToken(token, a) /\ removal' = begun
    <3>1. quiet => Gone(a)'
      BY <1>4, <1>7, <2>1 DEF Gone, Live!Holds
    <3> QED BY <1>5, <2>1, <3>1 DEF RemovingIsGone
  <2>2. CASE removal' = failed
    BY <1>6, <2>2 DEF RemovingIsGone
  <2> QED BY <1>1, <2>1, <2>2
<1> QED BY <1>0, <1>1, <1>5, <1>6, <1>7, <1>8, RemovalFrame

LEMMA RemoveStep ==
    ASSUME LiveInv, LiveSized, NEW a \in People,
           Live!RemoveGmail(a) \/ Live!DisconnectMicrosoft(a)
    PROVE  LiveInv'
<1>0. keychain \in Keychains
  BY LiveTypes DEF LiveInv
<1>1. CASE Live!DisconnectMicrosoft(a)
  <2>1. /\ Live!Removes(a, keychain, FALSE) /\ accountOps < MaxOps
        /\ accountOps' = accountOps + 1
        /\ UNCHANGED <<honoured, stored, ids, scalar, accounts, boot, attempt, sync, removed>>
    BY <1>1 DEF Live!DisconnectMicrosoft, Live!session
  <2> QED BY <1>0, <2>1, RemovesStep
<1>2. CASE Live!RemoveGmail(a)
  <2> DEFINE k == Live!LoadToken(keychain, a)
             quiet == ~Live!Busy(a)
             x == [pc |-> "forget", acct |-> a, quiet |-> quiet, ok |-> FALSE]
  <2>1. /\ accountOps < MaxOps /\ accountOps' = accountOps + 1
        /\ UNCHANGED <<honoured, stored, ids, scalar, accounts, boot, attempt, sync, removed>>
        /\ \/ Live!Removes(a, k, Live!Holds(k, a))
           \/ /\ accountFaults < MaxFaults /\ accountFaults' = accountFaults + 1
              /\ UNCHANGED keychain /\ removal' = x
    BY <1>2 DEF Live!RemoveGmail, Live!session
  <2>2. /\ k \in Keychains
        /\ \A y \in People : Live!Holds(k, y) => Live!Holds(keychain, y)
    <3>1. "none" \in Live!Bundles
      BY DEF Live!Bundles
    <3> QED BY <1>0, <3>1, KeychainCalls
  <2>3. quiet \in BOOLEAN /\ Live!Holds(k, a) \in BOOLEAN
    BY DEF Live!Busy, Live!Holds
  <2> HIDE DEF k, quiet
  <2>4. CASE Live!Removes(a, k, Live!Holds(k, a))
    BY <2>1, <2>2, <2>3, <2>4, RemovesStep
  <2>5. CASE /\ accountFaults < MaxFaults /\ accountFaults' = accountFaults + 1
             /\ UNCHANGED keychain /\ removal' = x
    <3>1. x \in Removal /\ x.acct = a /\ x.ok = FALSE
      BY <2>3 DEF Removal
    <3> HIDE DEF x
    <3>2. RemovingIsGone'
      BY <2>5, <3>1 DEF RemovingIsGone
    <3>3. /\ accountFaults \in 0..MaxFaults /\ accountOps \in 0..MaxOps
          /\ MaxFaults \in Nat /\ MaxOps \in Nat
      BY LiveTypes DEF LiveInv, LiveSized
    <3> QED BY <1>0, <2>1, <2>5, <3>1, <3>2, <3>3, RemovalFrame
  <2> QED BY <2>1, <2>4, <2>5
<1> QED BY <1>1, <1>2

\* The provider is told, then the rows go.
LEMMA RevokeStep ==
    ASSUME LiveInv, LiveSized, Live!Revoke \/ Live!DeleteRows
    PROVE  LiveInv'
<1>0. keychain \in Keychains /\ removal \in Removal /\ Live!TypeOK
  BY LiveTypes DEF LiveInv
<1>1. CASE Live!Revoke
  <2> DEFINE x == [removal EXCEPT !.pc = "deleting"]
  <2>1. /\ x \in Removal /\ x.acct = removal.acct /\ x.ok = removal.ok
        /\ x.quiet = removal.quiet /\ x.pc = "deleting"
    BY <1>0 DEF Removal
  <2>2. /\ removal.pc = "revoking" /\ removal.acct \in People /\ removal' = x
        /\ Live!Goes \/ Live!Fails
        /\ honoured' \subseteq honoured
        /\ UNCHANGED <<keychain, stored, ids, scalar, accounts, boot, attempt, sync, removed>>
    BY <1>1 DEF Live!Revoke, Live!session, LiveInv, AccountShape
  <2> HIDE DEF x
  <2>3. RemovingIsGone'
    BY <2>1, <2>2 DEF LiveInv, RemovingIsGone, Gone, Live!Holds
  <2> QED BY <1>0, <2>1, <2>2, <2>3, LiveCounts, RemovalFrame
<1>2. CASE Live!DeleteRows
  <2> DEFINE x == [removal EXCEPT !.pc = "forget"]
             y == [removal EXCEPT !.pc = "forget", !.ok = FALSE]
  <2>1. /\ x \in Removal /\ x.acct = removal.acct /\ x.ok = removal.ok
        /\ x.quiet = removal.quiet /\ x.pc = "forget"
        /\ y \in Removal /\ y.acct = removal.acct /\ y.ok = FALSE
    BY <1>0 DEF Removal
  <2>2. /\ removal.pc = "deleting" /\ removal.acct \in People
        /\ \/ removal' = x /\ stored' = stored \ {removal.acct} /\ Live!Goes
           \/ removal' = y /\ stored' = stored /\ Live!Fails
        /\ UNCHANGED <<honoured, keychain, ids, scalar, accounts, boot, attempt, sync, removed>>
    BY <1>2 DEF Live!DeleteRows, Live!session, LiveInv, AccountShape
  <2> HIDE DEF x, y
  <2>3. RemovingIsGone'
    BY <2>1, <2>2 DEF LiveInv, RemovingIsGone, Gone, Live!Holds
  <2> QED BY <1>0, <2>1, <2>2, <2>3, LiveCounts, RemovalFrame
<1> QED BY <1>1, <1>2

\* The session forgets the account: its removal went through.
LEMMA ForgetStep ==
    ASSUME LiveInv, LiveSized, Live!RemoveLiveAccount
    PROVE  LiveInv'
<1> DEFINE a == removal.acct
           left == Live!StoredIds \ {a}
           x == [removal EXCEPT !.pc = "boot"]
           y == [acct |-> a, quiet |-> removal.quiet]
<1>0. removal \in Removal /\ Live!TypeOK /\ left \subseteq People /\ accounts \subseteq People
  BY LiveTypes, SessionAccounts DEF LiveInv
<1>1. x \in Removal /\ x.acct = a /\ x.pc = "boot"
  BY <1>0 DEF Removal
<1>2. /\ a \in People /\ removal.pc = "forget" /\ Live!Goes /\ Live!WriteIds(left)
      /\ accounts' = {} \/ accounts' = accounts
      /\ removal' = Live!NoRemoval \/ removal' = x
      /\ removed' = removed \/ (removal.ok /\ removed' = removed \cup {y})
      /\ UNCHANGED <<honoured, keychain, stored, boot, attempt, sync>>
  BY DEF Live!RemoveLiveAccount, LiveInv, AccountShape
<1>3. /\ Live!StoredIds' = left /\ ids' \subseteq People
      /\ scalar'.gmail \in Gmail \cup {Live!Nobody}
      /\ scalar'.microsoft \in Microsoft \cup {Live!Nobody}
  BY <1>0, <1>2, SessionWrites
<1>4. y \in [acct : People, quiet : BOOLEAN] /\ y.acct = a /\ y.quiet = removal.quiet
  BY <1>0, <1>2 DEF Removal
<1>5. Live!StoredIds' \subseteq Live!StoredIds /\ a \notin Live!StoredIds'
  BY <1>3
<1> HIDE DEF left, x, y
<1>6. Live!TypeOK'
  <2>1. removed' \subseteq [acct : People, quiet : BOOLEAN]
    BY <1>0, <1>2, <1>4, LiveTypes
  <2> QED BY <1>0, <1>1, <1>2, <1>3, <2>1, LiveIdle, LiveCounts, LiveTypes, LiveTypesNext
<1>7. AccountShape'
  BY <1>1, <1>2, LiveIdle DEF LiveInv, AccountShape
<1>8. \A b : Gone(b) => Gone(b)'
  BY <1>2 DEF Gone, Live!Holds
<1>9. removal.ok /\ removal.quiet => Gone(a) /\ a \notin stored
  BY <1>2 DEF LiveInv, RemovingIsGone
<1>10. RemovedIsGone'
  BY <1>2, <1>4, <1>5, <1>8, <1>9 DEF LiveInv, RemovedIsGone
<1>11. RemovingIsGone'
  BY <1>1, <1>2, LiveIdle DEF RemovingIsGone
<1> QED BY <1>6, <1>7, <1>10, <1>11 DEF LiveInv

\* The end of the application leaves the Keychain, the session and the database.
LEMMA QuitStep ==
    ASSUME LiveInv, LiveSized, Live!Quit
    PROVE  LiveInv'
<1>1. /\ Live!Fails /\ accounts' = {} /\ boot' = {} /\ removal' = Live!NoRemoval
      /\ sync' = Live!Idle /\ attempt' = Live!NoAttempt
      /\ UNCHANGED <<honoured, keychain, ids, scalar, stored, removed>>
  BY DEF Live!Quit
<1>2. Live!TypeOK'
  BY <1>1, LiveIdle, LiveCounts, LiveTypes, LiveTypesNext DEF LiveInv
<1>3. AccountShape' /\ RemovingIsGone'
  BY <1>1, LiveIdle DEF AccountShape, RemovingIsGone
<1>4. \A a : Gone(a) => Gone(a)'
  BY <1>1, LiveIdle DEF Gone, Live!Holds
<1>5. Live!StoredIds' = Live!StoredIds
  BY <1>1 DEF Live!StoredIds, Live!Scalars
<1>6. RemovedIsGone'
  BY <1>1, <1>4, <1>5 DEF LiveInv, RemovedIsGone
<1> QED BY <1>2, <1>3, <1>6 DEF LiveInv

LEMMA LiveNext == LiveInv /\ LiveSized /\ Live!Next => LiveInv'
BY SignInStep, ConnectStep, ListingStep, CreateRuntimeStep, SyncStep, TokenStep,
   AnsweringStep, ExpiryStep, RemoveStep, RevokeStep, ForgetStep, QuitStep DEF Live!Next, People

-----------------------------------------------------------------------------
(* The two parts with proofs of their own.  Push and PushP, and Key and KeyP,  *)
(* are instances of one module, whose definitions must be told to be the same. *)

LEMMA PushSame == /\ Push!Init <=> PushP!Init
                  /\ Push!TypeOK <=> PushP!TypeOK
                  /\ Push!HintKept <=> PushP!HintKept
                  /\ Push!NoDuplicatePush <=> PushP!NoDuplicatePush
                  /\ Push!RevokedRoutesOff <=> PushP!RevokedRoutesOff
BY DEF Push!Init, PushP!Init, Push!NoReq, PushP!NoReq, Push!NoRoute, PushP!NoRoute,
       Push!NoPush, PushP!NoPush, Push!Nobody, PushP!Nobody, Push!TypeOK, PushP!TypeOK,
       Push!HintKept, PushP!HintKept, Push!NoDuplicatePush, PushP!NoDuplicatePush,
       Push!RevokedRoutesOff, PushP!RevokedRoutesOff

LEMMA PushRouteStepsSame ==
    ASSUME NEW q, NEW d, NEW r
    PROVE  /\ Push!RegisterArrives(q, d, r) <=> PushP!RegisterArrives(q, d, r)
           /\ Push!Register(q) <=> PushP!Register(q)
           /\ Push!Revoke(q, d) <=> PushP!Revoke(q, d)
           /\ Push!CleanUp(q) <=> PushP!CleanUp(q)
<1> USE DEF Push!routeVars, PushP!routeVars, Push!eventVars, PushP!eventVars, Push!NoReq,
            PushP!NoReq, Push!NoRoute, PushP!NoRoute, Push!NoPush, PushP!NoPush,
            Push!Nobody, PushP!Nobody, Push!At, PushP!At, Push!Ends, PushP!Ends,
            Push!Starts, PushP!Starts
<1>1. Push!RegisterArrives(q, d, r) <=> PushP!RegisterArrives(q, d, r)
  BY DEF Push!RegisterArrives, PushP!RegisterArrives
<1>2. Push!Register(q) <=> PushP!Register(q)
  BY DEF Push!Register, PushP!Register
<1>3. \A S : Push!Cardinality(S) = PushP!Cardinality(S)
  BY DEF Push!Cardinality, PushP!Cardinality
<1>4. Push!Revoke(q, d) <=> PushP!Revoke(q, d)
  BY <1>3 DEF Push!Revoke, PushP!Revoke
<1>5. Push!CleanUp(q) <=> PushP!CleanUp(q)
  BY DEF Push!CleanUp, PushP!CleanUp, Push!CleansUp, PushP!CleansUp
<1> QED BY <1>1, <1>2, <1>4, <1>5

LEMMA PushEventStepsSame ==
    ASSUME NEW q, NEW e, NEW r
    PROVE  /\ Push!EventArrives(q, e, r) <=> PushP!EventArrives(q, e, r)
           /\ Push!InsertEvent(q) <=> PushP!InsertEvent(q)
           /\ Push!SendToQueue(q) <=> PushP!SendToQueue(q)
           /\ Push!SendFails(q) <=> PushP!SendFails(q)
<1> USE DEF Push!routeVars, PushP!routeVars, Push!eventVars, PushP!eventVars, Push!NoReq,
            PushP!NoReq, Push!NoRoute, PushP!NoRoute, Push!NoPush, PushP!NoPush,
            Push!Nobody, PushP!Nobody, Push!At, PushP!At, Push!Ends, PushP!Ends,
            Push!Starts, PushP!Starts
<1>1. Push!EventArrives(q, e, r) <=> PushP!EventArrives(q, e, r)
  BY DEF Push!EventArrives, PushP!EventArrives
<1>2. Push!InsertEvent(q) <=> PushP!InsertEvent(q)
  BY DEF Push!InsertEvent, PushP!InsertEvent, Push!Inserts, PushP!Inserts
<1>3. /\ Push!SendToQueue(q) <=> PushP!SendToQueue(q)
      /\ Push!SendFails(q) <=> PushP!SendFails(q)
  BY DEF Push!SendToQueue, PushP!SendToQueue, Push!SendFails, PushP!SendFails
<1> QED BY <1>1, <1>2, <1>3

LEMMA PushNextSame == Push!Next <=> PushP!Next
<1> USE DEF Push!routeVars, PushP!routeVars, Push!eventVars, PushP!eventVars, Push!NoReq,
            PushP!NoReq, Push!NoRoute, PushP!NoRoute, Push!NoPush, PushP!NoPush,
            Push!Nobody, PushP!Nobody, Push!At, PushP!At, Push!Ends, PushP!Ends,
            Push!Starts, PushP!Starts
<1>1. \A q \in Requests : Push!Handle(q) <=> PushP!Handle(q)
  BY PushRouteStepsSame, PushEventStepsSame DEF Push!Handle, PushP!Handle
<1>2. \A c \in Consumers : Push!Consume(c) <=> PushP!Consume(c)
  BY DEF Push!Consume, PushP!Consume, Push!Take, PushP!Take, Push!Retry, PushP!Retry,
         Push!ProviderAccepts, PushP!ProviderAccepts, Push!ProviderRefuses,
         PushP!ProviderRefuses, Push!ProviderFails, PushP!ProviderFails, Push!Settle,
         PushP!Settle, Push!Notifies, PushP!Notifies, Push!AnswerLost, PushP!AnswerLost,
         Push!RecordDelivered, PushP!RecordDelivered, Push!RecordFailed,
         PushP!RecordFailed, Push!StoreFails, PushP!StoreFails
<1>3. Push!DeleteAccount <=> PushP!DeleteAccount
  BY DEF Push!DeleteAccount, PushP!DeleteAccount
<1>4. \A old \in SUBSET Events, idle \in SUBSET Routes :
         Push!Retention(old, idle) <=> PushP!Retention(old, idle)
  BY DEF Push!Retention, PushP!Retention, Push!UnderWay, PushP!UnderWay
<1>6. \A e \in Events : Push!Redelivers(e) <=> PushP!Redelivers(e)
  BY DEF Push!Redelivers, PushP!Redelivers
<1>5. \A n : Push!EndpointGoes(n) <=> PushP!EndpointGoes(n)
  BY DEF Push!EndpointGoes, PushP!EndpointGoes
<1> QED BY <1>1, <1>2, <1>3, <1>4, <1>5, <1>6 DEF Push!Next, PushP!Next

LEMMA KeySame == /\ Key!Init <=> KeyP!Init
                 /\ Key!TypeOK <=> KeyP!TypeOK
                 /\ Key!VaultOpensDatabase <=> KeyP!VaultOpensDatabase
BY DEF Key!Init, KeyP!Init, Key!CurrentSchema, KeyP!CurrentSchema, Key!Groups, KeyP!Groups,
       Key!NoWrap, KeyP!NoWrap, Key!NoDb, KeyP!NoDb, Key!Off, KeyP!Off, Key!TypeOK,
       KeyP!TypeOK, Key!VaultOpensDatabase, KeyP!VaultOpensDatabase, Key!InReach,
       KeyP!InReach, Key!Found, KeyP!Found

LEMMA KeyNextSame == Key!Next <=> KeyP!Next
BY DEF Key!Next, KeyP!Next, Key!Start, KeyP!Start, Key!Closed, KeyP!Closed, Key!Off,
       KeyP!Off, Key!disk, KeyP!disk, Key!DatabaseRepair, KeyP!DatabaseRepair, Key!Load,
       KeyP!Load, Key!Goes, KeyP!Goes, Key!Fails, KeyP!Fails, Key!Found, KeyP!Found,
       Key!NoWrap, KeyP!NoWrap, Key!NoDb, KeyP!NoDb, Key!Purge, KeyP!Purge, Key!Groups,
       KeyP!Groups, Key!To, KeyP!To, Key!Add, KeyP!Add, Key!Wrap, KeyP!Wrap, Key!Open,
       KeyP!Open, Key!Migrate, KeyP!Migrate, Key!StoreMail, KeyP!StoreMail, Key!SetSafeMode,
       KeyP!SetSafeMode, Key!ExportRecoveryBundle, KeyP!ExportRecoveryBundle,
       Key!ResetBegins, KeyP!ResetBegins, Key!ResetEnds, KeyP!ResetEnds, Key!Quit,
       KeyP!Quit, Key!RemoveFirst, KeyP!RemoveFirst, Key!RemoveLast, KeyP!RemoveLast,
       Key!CurrentSchema, KeyP!CurrentSchema

-----------------------------------------------------------------------------
(* The whole                                                                  *)

\* The inductive invariant of each part; the parts share no state.
ServicesInv == PushP!IInv /\ OptInInv /\ LabInv /\ GateInv /\ LiveInv /\ KeyP!IInv

LEMMA AllSized == /\ PushP!Sized /\ OpSized /\ LabSized
                  /\ GateSized /\ LiveSized /\ KeyP!Sized
BY ServicesAssumption DEF PushP!Sized, OpSized, LabSized, GateSized, LiveSized, KeyP!Sized

LEMMA ServicesInit == Init => ServicesInv
<1>1. Push!Init => PushP!IInv
  BY AllSized, PushSame, PushP!InitIInv
<1>2. Key!Init => KeyP!IInv
  BY AllSized, KeySame, KeyP!InitIInv
<1> QED BY <1>1, <1>2, AllSized, OptInInit, LabInit, GateInit, LiveInit DEF Init, ServicesInv

\* What a part keeps while another one takes a step.
LEMMA PartsStay ==
    ASSUME ServicesInv
    PROVE  /\ UNCHANGED pushVars => PushP!IInv'
           /\ UNCHANGED optInVars => OptInInv'
           /\ UNCHANGED labVars => LabInv'
           /\ UNCHANGED mcpVars => GateInv'
           /\ UNCHANGED accountVars => LiveInv'
           /\ UNCHANGED vaultVars => KeyP!IInv'
<1>1. UNCHANGED pushVars => PushP!IInv'
  <2>1. UNCHANGED pushVars => UNCHANGED PushP!vars
    BY DEF pushVars, PushP!vars
  <2> QED BY <2>1, AllSized, PushP!NextIInv DEF ServicesInv
<1>2. UNCHANGED vaultVars => KeyP!IInv'
  <2>1. UNCHANGED vaultVars => UNCHANGED KeyP!vars
    BY DEF vaultVars, KeyP!vars
  <2> QED BY <2>1, AllSized, KeyP!NextIInv DEF ServicesInv
<1>3. UNCHANGED optInVars => OptInInv'
  BY DEF ServicesInv, optInVars, OptInInv, OptIn!TypeOK, OpHandlerShape, OpsNumbered,
     OpsTruthful, TokenSomewhere, ConsentRead, OptIn!NothingWithoutConsent, OptIn!HasRow
<1>4. UNCHANGED labVars => LabInv'
  BY DEF ServicesInv, labVars, LabInv, Lab!TypeOK, OnlyOverlapped, Classifies,
     Lab!Withdrawing
<1>5. UNCHANGED mcpVars => GateInv'
  BY DEF ServicesInv, mcpVars, GateInv, Gate!TypeOK, JobsTruthful, HeldListens
<1>6. UNCHANGED accountVars => LiveInv'
  BY DEF ServicesInv, accountVars, LiveInv, Live!TypeOK, AccountShape, RemovedIsGone,
     RemovingIsGone, Gone, Live!Holds, Live!StoredIds, Live!Scalars
<1> QED BY <1>1, <1>2, <1>3, <1>4, <1>5, <1>6

LEMMA ServicesNext ==
    ServicesInv /\ [Next]_<<part, pushVars, optInVars, labVars, mcpVars, accountVars,
                            vaultVars>> => ServicesInv'
<1> SUFFICES ASSUME ServicesInv,
                    Next \/ UNCHANGED <<part, pushVars, optInVars, labVars, mcpVars,
                                        accountVars, vaultVars>>
             PROVE  ServicesInv'
  OBVIOUS
<1>1. Push!Next => PushP!IInv'
  BY AllSized, PushNextSame, PushP!NextIInv DEF ServicesInv
<1>2. OptIn!Next => OptInInv'
  BY AllSized, OptInNext DEF ServicesInv
<1>3. Lab!Next => LabInv'
  BY AllSized, LabNext DEF ServicesInv
<1>4. Gate!Next => GateInv'
  BY AllSized, GateNext DEF ServicesInv
<1>5. Live!Next => LiveInv'
  BY AllSized, LiveNext DEF ServicesInv
<1>6. Key!Next => KeyP!IInv'
  BY AllSized, KeyNextSame, KeyP!NextIInv DEF ServicesInv
<1>7. /\ UNCHANGED pushVars \/ Push!Next
      /\ UNCHANGED optInVars \/ OptIn!Next
      /\ UNCHANGED labVars \/ Lab!Next
      /\ UNCHANGED mcpVars \/ Gate!Next
      /\ UNCHANGED accountVars \/ Live!Next
      /\ UNCHANGED vaultVars \/ Key!Next
  BY DEF Next
<1> QED BY <1>1, <1>2, <1>3, <1>4, <1>5, <1>6, <1>7, PartsStay DEF ServicesInv

\* The parts keep their inductive invariants, whichever of them runs.
THEOREM Invariant == Spec => []ServicesInv
BY ServicesInit, ServicesNext, PTL DEF Spec

\* TypeOK: the variables of the six parts keep their types.
THEOREM TypeCorrect == Spec => []TypeOK
<1>1. ServicesInv => TypeOK
  BY PushSame, KeySame DEF ServicesInv, TypeOK, PushP!IInv, KeyP!IInv, KeyP!FileInv, OptInInv,
     LabInv, GateInv, LiveInv
<1> QED BY <1>1, Invariant, PTL

\* HintKept (postEvent, consumePush): no failure between the provider, the store and the
\* queue of the relay loses a hint whose sender got 202.
THEOREM AnsweredHintKept == Spec => []HintKept
<1>1. ServicesInv => HintKept
  BY PushSame DEF ServicesInv, PushP!IInv, HintKept
<1> QED BY <1>1, Invariant, PTL

\* NoDuplicatePush (consumePush): an event is pushed once, unless the answer of the
\* provider or its record was lost or the queue delivered the message once too often.
THEOREM PushedOnce == Spec => []NoDuplicatePush
<1>1. ServicesInv => NoDuplicatePush
  BY PushSame, PushP!OverIsOnce DEF ServicesInv, NoDuplicatePush
<1> QED BY <1>1, Invariant, PTL

\* RevokedRoutesOff (revokeDevice): a device whose revocation was answered has no route
\* that is on, but for a registration that overlapped it.
THEOREM RevokedHasNoRoute == Spec => []RevokedRoutesOff
<1>1. ServicesInv => RevokedRoutesOff
  BY PushSame DEF ServicesInv, PushP!IInv, RevokedRoutesOff
<1> QED BY <1>1, Invariant, PTL

\* ConsentKept (the opt-in processor, the self-hosted API): what is retained was
\* accepted under a consent that let inputs be retained, and not under one withdrawn
\* since, but for a classification that overlapped the withdrawal.
THEOREM RetainedUnderConsent == Spec => []ConsentKept
<1>1. ServicesInv => ConsentKept
  BY LabKept DEF ServicesInv, OptInInv, ConsentKept
<1> QED BY <1>1, Invariant, PTL

\* TokenAccountedFor (DELETE consent, consumeRevocations): a token that was handed over is
\* in its consent, in a revocation, answered for by the provider (2xx or 400) or shown as
\* expired, unless a later consent replaced it or it came while a withdrawal was under way.
THEOREM TokenNotForgotten == Spec => []TokenAccountedFor
<1>1. ServicesInv => TokenAccountedFor
  BY OptInAccounts DEF ServicesInv, TokenAccountedFor
<1> QED BY <1>1, Invariant, PTL

\* UserDecides (requestApproval, decide, the timers): a tool that asks runs only after the
\* user said yes in time, whatever sessions and listeners there are.
THEOREM ToolWaitsForUser == Spec => []UserDecides
<1>1. ServicesInv => UserDecides
  BY GateDecides DEF ServicesInv, UserDecides
<1> QED BY <1>1, Invariant, PTL

\* RemovedStaysRemoved (disconnect, remove_account, listAccountIds): an account that was
\* removed while nothing else was under way for it does not come back.
THEOREM RemovedNeverReturns == Spec => []RemovedStaysRemoved
<1>1. ServicesInv => RemovedStaysRemoved
  BY LiveStays DEF ServicesInv, RemovedStaysRemoved
<1> QED BY <1>1, Invariant, PTL

\* VaultOpensDatabase (open_or_create, reset_local_database): no crash leaves a database
\* without its vault key, nor without the wrapping key unless that was lost while it was
\* stored anew.
THEOREM DatabaseOpens == Spec => []VaultOpensDatabase
<1>1. ServicesInv => VaultOpensDatabase
  BY KeySame, KeyP!InvOpens DEF ServicesInv, VaultOpensDatabase
<1> QED BY <1>1, Invariant, PTL
=============================================================================
