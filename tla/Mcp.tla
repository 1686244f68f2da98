-------------------------------- MODULE Mcp --------------------------------
(* AI clients and the mail of the user: the loopback bridge in the desktop    *)
(* shell (mcp_bridge.rs), the session of the webview that listens to it       *)
(* (mcp-live.ts, App.tsx) and the tools with their policy and approval gate   *)
(* (packages/mcp).                                                            *)
(*                                                                            *)
(* Commands of the webview reach the shell in any order.  A session belongs   *)
(* to a runtime of the application; the next one is made when that changes.   *)
(* The webview handles one event at a time; a tool that asks waits for the    *)
(* user or for its timer, which the clock lets fire once the time is up.      *)
EXTENDS Naturals, FiniteSets

CONSTANTS
    Calls, Clients, MaxSessions,
    Modes,        \* approval modes: ask_writes, ask, allowlisted
    MaxChanges    \* what the user does in the settings

VARIABLES
    policy,     \* mcpPolicy of the application
    changes,    \* how often the user was in the settings
    cur,        \* the current session
    known,      \* known[s]: the policy session s was last given
    listeners,  \* listeners[s]: event listeners that lead to session s
    held,       \* held[s]: whether session s can remove one of them
    listening,  \* listening[s]: listen calls on their way, with tokens to start with
    ipc,        \* commands on their way to the shell
    bridge,     \* the state of the bridge in the shell
    call,       \* call[c]: a connection of a client
    job         \* job[c][s][i]: the tool call c as the i-th listener of s runs it

vars == <<policy, changes, cur, known, listeners, held, listening, ipc, bridge, call, job>>
sessionVars == <<cur, known, listeners, held, listening>>

Sessions == 1..MaxSessions
Tools == {"read", "draft", "send"}
\* What a client may do: the interface creates clients that may not send, a policy
\* that was stored may have others.
Grants == {"new", "revoked", "phase1", "all"}
Nobody == "nobody"
NoCall == [pc |-> "none", client |-> Nobody, tool |-> "read", reply |-> "none", late |-> FALSE]
NoJob == [pc |-> "none", status |-> "none", asked |-> FALSE, timedOut |-> FALSE,
          runs |-> 0]
Policies == [enabled : BOOLEAN, mode : Modes, grant : [Clients -> Grants]]

Active(p) == {k \in Clients : p.grant[k] \in {"phase1", "all"}}
ClientHasScope(p, k, tool) == p.grant[k] = "all" \/ tool # "send"

\* Send asks in every mode.
RequiresApproval(p, tool) ==
    tool = "send" \/ p.mode = "ask" \/ (p.mode = "ask_writes" /\ tool = "draft")

TypeOK ==
    /\ policy \in Policies /\ changes \in 0..MaxChanges /\ known \in [Sessions -> Policies]
    /\ cur \in Sessions
    /\ listeners \in [Sessions -> 0..2] /\ held \in [Sessions -> BOOLEAN]
    /\ listening \in [Sessions ->
           SUBSET [by : {"mount", "start"}, tokens : SUBSET Clients]]
    /\ ipc \subseteq [cmd : {"start", "bound", "stop", "tokens"}, tokens : SUBSET Clients]
    /\ bridge \in [enabled : BOOLEAN, tokens : SUBSET Clients, owned : BOOLEAN,
                   orphans : 0..1, ending : 0..1]
    /\ call \in [Calls -> [pc : {"none", "waiting", "answered"},
                           client : Clients \cup {Nobody}, tool : Tools,
                           reply : {"none", "ok", "error", "stopped", "timeout"}, late : BOOLEAN]]
    /\ \A c \in Calls, s \in Sessions, i \in 1..2 :
          job[c][s][i] \in [pc : {"none", "asking", "running", "ok", "failed", "ended"},
                            status : {"none", "pending", "approved", "denied", "expired"},
                            asked : BOOLEAN, timedOut : BOOLEAN, runs : 0..1]

\* The application has just begun: a stored policy, no runtime, a session that is
\* on its way to listen.
Init ==
    /\ policy \in Policies /\ \A k \in Clients : policy.grant[k] # "revoked"
    /\ changes = 0 /\ cur = 1
    /\ known = [s \in Sessions |-> policy]
    /\ listeners = [s \in Sessions |-> 0]
    /\ held = [s \in Sessions |-> FALSE]
    /\ listening = [s \in Sessions |-> IF s = 1 THEN {[by |-> "mount", tokens |-> {}]}
                                       ELSE {}]
    /\ ipc = {}
    /\ bridge = [enabled |-> FALSE, tokens |-> {}, owned |-> FALSE, orphans |-> 0,
                 ending |-> 0]
    /\ call = [c \in Calls |-> NoCall]
    /\ job = [c \in Calls |-> [s \in Sessions |-> [i \in 1..2 |-> NoJob]]]

-----------------------------------------------------------------------------
(* The application and its session *)

HasRuntime(s) == s > 1
Cmd(cmd, tokens) == [cmd |-> cmd, tokens |-> tokens]

\* startBridge: the tokens are read, then the listener is ensured, then the command
\* is sent; a session that holds a listener sends it at once.
Starts(s, p, base, sent) ==
    IF p.enabled /\ Active(p) # {} /\ HasRuntime(s)
    THEN IF held[s]
         THEN /\ ipc' = ipc \cup sent \cup {Cmd("start", Active(p))}
              /\ listening' = base
         ELSE /\ ipc' = ipc \cup sent
              /\ listening' = [base EXCEPT ![s] =
                                  @ \cup {[by |-> "start", tokens |-> Active(p)]}]
    ELSE ipc' = ipc \cup sent /\ listening' = base

\* Settings change: the session gets the policy and the shell the tokens; disabling
\* stops the bridge, a change of the switch or of the clients starts it if it may.
SetPolicy(p) ==
    /\ p # policy /\ changes < MaxChanges
    /\ changes' = changes + 1
    /\ \A k \in Clients :
          \/ p.grant[k] = policy.grant[k]
          \/ policy.grant[k] = "new" /\ p.grant[k] = "phase1" /\ p.enabled
          \/ policy.grant[k] \in {"phase1", "all"} /\ p.grant[k] = "revoked"
    /\ policy' = p
    /\ known' = [known EXCEPT ![cur] = p]
    /\ LET sent == {Cmd("tokens", Active(p))}
                       \cup (IF policy.enabled /\ ~p.enabled THEN {Cmd("stop", {})} ELSE {})
       IN  IF p.enabled # policy.enabled \/ p.grant # policy.grant
           THEN Starts(cur, p, listening, sent)
           ELSE ipc' = ipc \cup sent /\ UNCHANGED listening
    /\ UNCHANGED <<cur, listeners, held, bridge, call, job>>

\* The buttons of the settings; without an active client startBridge fails.
StartBridge ==
    /\ changes < MaxChanges /\ changes' = changes + 1
    /\ Starts(cur, policy, listening, {})
    /\ UNCHANGED <<policy, cur, known, listeners, held, bridge, call, job>>

StopBridge ==
    /\ changes < MaxChanges /\ changes' = changes + 1
    /\ ipc' = ipc \cup {Cmd("stop", {})}
    /\ UNCHANGED <<policy, sessionVars, bridge, call, job>>

\* Another runtime: the old session removes the listener it holds, the new one
\* begins to listen, and the effect that starts the bridge runs right behind it.
NewSession ==
    /\ cur < MaxSessions
    /\ cur' = cur + 1
    /\ known' = [known EXCEPT ![cur + 1] = policy]
    /\ listeners' = [listeners EXCEPT ![cur] = IF held[cur] THEN @ - 1 ELSE @]
    /\ held' = [held EXCEPT ![cur] = FALSE]
    /\ Starts(cur + 1, policy,
              [listening EXCEPT ![cur + 1] = {[by |-> "mount", tokens |-> {}]}], {})
    /\ UNCHANGED <<policy, changes, bridge, call, job>>

Registers(s, l, count) ==
    /\ l \in listening[s]
    /\ listening' = [listening EXCEPT ![s] = @ \ {l}]
    /\ listeners' = [listeners EXCEPT ![s] = count]
    /\ held' = [held EXCEPT ![s] = TRUE]
    /\ ipc' = IF l.by = "start" THEN ipc \cup {Cmd("start", l.tokens)} ELSE ipc
    /\ UNCHANGED <<policy, changes, cur, known, bridge, call, job>>

\* ensureListener asks whether a listener is held before it awaits listen: two calls
\* that overlap register two, and a session that is gone by then registers one too.
EnsureListener(s, l) == listeners[s] < 2 /\ Registers(s, l, listeners[s] + 1)

-----------------------------------------------------------------------------
(* The bridge *)

UpdateTokens(m) ==
    /\ m \in ipc /\ m.cmd = "tokens"
    /\ ipc' = ipc \ {m}
    /\ bridge' = [bridge EXCEPT !.tokens = m.tokens]
    /\ UNCHANGED <<policy, changes, sessionVars, call, job>>

\* The tokens are taken; a bridge that is not enabled binds its port.
Start(m) ==
    /\ m \in ipc /\ m.cmd = "start"
    /\ bridge' = [bridge EXCEPT !.tokens = m.tokens]
    /\ ipc' = (ipc \ {m}) \cup (IF bridge.enabled THEN {} ELSE {Cmd("bound", {})})
    /\ UNCHANGED <<policy, changes, sessionVars, call, job>>

\* The accept loop runs; the loop of a start that overlapped can be stopped no more.
Bound(m) ==
    /\ m \in ipc /\ m.cmd = "bound"
    /\ bridge.owned => bridge.orphans = 0
    /\ ipc' = ipc \ {m}
    /\ bridge' = [bridge EXCEPT !.enabled = TRUE, !.owned = TRUE,
                                !.orphans = IF bridge.owned THEN @ + 1 ELSE @]
    /\ UNCHANGED <<policy, changes, sessionVars, call, job>>

\* The accept loop is told to end and every call that waits is answered.
Stop(m) ==
    /\ m \in ipc /\ m.cmd = "stop"
    /\ bridge.owned => bridge.ending = 0
    /\ ipc' = ipc \ {m}
    /\ bridge' = [bridge EXCEPT !.enabled = FALSE, !.owned = FALSE,
                                !.ending = IF bridge.owned THEN 1 ELSE @]
    /\ call' = [c \in Calls |-> IF call[c].pc = "waiting"
                                THEN [call[c] EXCEPT !.pc = "answered", !.reply = "stopped"]
                                ELSE call[c]]
    /\ UNCHANGED <<policy, changes, sessionVars, job>>

\* A loop that ends says so once more, also when another one runs by then.
LoopEnds ==
    /\ bridge.ending = 1
    /\ bridge' = [bridge EXCEPT !.ending = 0, !.enabled = FALSE]
    /\ UNCHANGED <<policy, changes, sessionVars, ipc, call, job>>

\* handleBridgeRequest: MCP is enabled, there is a runtime, the client is known and
\* may use the tool; then the tool asks or runs.
NewJob(s, k, tool) ==
    LET p == known[s]
    IN  IF ~p.enabled \/ ~HasRuntime(s) \/ k \notin Active(p) \/ ~ClientHasScope(p, k, tool)
        THEN [NoJob EXCEPT !.pc = "failed"]
        ELSE IF RequiresApproval(p, tool)
             THEN [NoJob EXCEPT !.pc = "asking", !.status = "pending", !.asked = TRUE]
             ELSE [NoJob EXCEPT !.pc = "running"]

\* A call with a token of the bridge: it waits, the event goes to every listener.
CallArrives(c, k, tool) ==
    /\ bridge.owned \/ bridge.orphans > 0
    /\ k \in bridge.tokens
    /\ call[c] = NoCall
    /\ call' = [call EXCEPT ![c] = [NoCall EXCEPT !.pc = "waiting", !.client = k,
                                                  !.tool = tool]]
    /\ job' = [job EXCEPT ![c] = [s \in Sessions |-> [i \in 1..2 |->
                  IF i <= listeners[s] THEN NewJob(s, k, tool) ELSE NoJob]]]
    /\ UNCHANGED <<policy, changes, sessionVars, ipc, bridge>>

Answers(c, reply) ==
    /\ call[c].pc = "waiting"
    /\ call' = [call EXCEPT ![c].pc = "answered", ![c].reply = reply]

TimesOut(c) ==
    Answers(c, "timeout") /\ UNCHANGED <<policy, changes, sessionVars, ipc, bridge, job>>

-----------------------------------------------------------------------------
(* The tool call *)

Becomes(c, s, i, j) ==
    /\ job' = [job EXCEPT ![c][s][i] = j]
    /\ UNCHANGED <<policy, changes, sessionVars, ipc, bridge>>

Decides(c, s, i, decision, open) ==
    LET j == job[c][s][i]
    IN  /\ s = cur /\ open
        /\ Becomes(c, s, i,
              IF call[c].late /\ j.status = "pending" THEN [j EXCEPT !.status = "expired"]
              ELSE [j EXCEPT !.status = decision,
                             !.pc = IF @ # "asking" THEN @
                                    ELSE IF decision = "approved" THEN "running"
                                    ELSE "failed"])
        /\ UNCHANGED call

\* Mutant of Decide: a request that expired may still be decided.
MutantDecidesLate(c, s, i, decision) ==
    Decides(c, s, i, decision, job[c][s][i].status \in {"pending", "expired"})

\* The user decides a request of the current session that is pending; one whose
\* time is up expires instead.
Decide(c, s, i, decision) ==
    Decides(c, s, i, decision, job[c][s][i].status = "pending")

\* Five minutes later the time of the requests of a call is up.
TimeUp(c) ==
    /\ ~call[c].late
    /\ \E s \in Sessions, i \in 1..2 : job[c][s][i].pc = "asking"
    /\ call' = [call EXCEPT ![c].late = TRUE]
    /\ UNCHANGED <<policy, changes, sessionVars, ipc, bridge, job>>

\* listPending, on any change of the gate: what is over time expires.
ListPending(c, s, i) ==
    /\ job[c][s][i].status = "pending" /\ call[c].late
    /\ Becomes(c, s, i, [job[c][s][i] EXCEPT !.status = "expired"]) /\ UNCHANGED call

\* waitForDecision gives up.
TimerFires(c, s, i) ==
    LET j == job[c][s][i]
    IN  /\ j.pc = "asking" /\ call[c].late
        /\ Becomes(c, s, i, [j EXCEPT !.pc = "failed", !.status = "expired",
                                      !.timedOut = TRUE])
        /\ UNCHANGED call

\* The host does what the tool stands for, or fails: it looks up mail or events, or
\* puts a draft or a message in the outbox.
Executes(c, s, i, ok, tool) ==
    /\ job[c][s][i].pc = "running" /\ call[c].tool = tool
    /\ Becomes(c, s, i, [job[c][s][i] EXCEPT !.pc = IF ok THEN "ok" ELSE "failed",
                                             !.runs = IF ok THEN 1 ELSE 0])
    /\ UNCHANGED call

ExecuteRead(c, s, i, ok) == Executes(c, s, i, ok, "read")
ExecuteSaveDraft(c, s, i, ok) == Executes(c, s, i, ok, "draft")
ExecuteSendDraft(c, s, i, ok) == Executes(c, s, i, ok, "send")

\* mcp_bridge_respond: the first answer while the call waits is the one it gets.
Respond(c, s, i) ==
    LET j == job[c][s][i]
    IN  /\ j.pc \in {"ok", "failed"}
        /\ Becomes(c, s, i, [j EXCEPT !.pc = "ended"])
        /\ IF call[c].pc = "waiting"
           THEN Answers(c, IF j.pc = "ok" THEN "ok" ELSE "error")
           ELSE UNCHANGED call

-----------------------------------------------------------------------------
Shell ==
    \/ \E m \in ipc : UpdateTokens(m) \/ Start(m) \/ Bound(m) \/ Stop(m)
    \/ LoopEnds
    \/ \E c \in Calls : TimesOut(c) \/ TimeUp(c)
    \/ \E c \in Calls, k \in Clients, tool \in Tools : CallArrives(c, k, tool)

Webview ==
    \/ \E p \in Policies : SetPolicy(p)
    \/ StartBridge \/ StopBridge \/ NewSession
    \/ \E s \in Sessions : \E l \in listening[s] : EnsureListener(s, l)
    \/ \E c \in Calls, s \in Sessions, i \in 1..2 :
          \/ \E d \in {"approved", "denied"} : Decide(c, s, i, d)
          \/ ListPending(c, s, i) \/ TimerFires(c, s, i)
          \/ \E ok \in BOOLEAN :
                ExecuteRead(c, s, i, ok) \/ ExecuteSaveDraft(c, s, i, ok)
                    \/ ExecuteSendDraft(c, s, i, ok)
          \/ Respond(c, s, i)

Next == Shell \/ Webview

Spec == Init /\ [][Next]_vars

-----------------------------------------------------------------------------
(* Properties *)

\* A tool that asked does what it stands for exactly if the user approved this very
\* request in time: nothing runs that was denied, expired or never answered, and no
\* click that counted as an approval is lost to the timer.
UserDecides ==
    \A c \in Calls, s \in Sessions, i \in 1..2 :
        LET j == job[c][s][i]
        IN  j.asked =>
              /\ j.pc \in {"running", "ok"} \/ j.runs = 1 => j.status = "approved"
              /\ j.status = "approved" => j.pc # "asking" /\ ~j.timedOut
=============================================================================
