------------------------------ MODULE Homelab ------------------------------
(* The self-hosted API (services/homelab-api): consent of one account, what   *)
(* classification retains under it, and the push devices.  Every statement    *)
(* commits by itself and handlers interleave between statements; one that     *)
(* fails or is stopped takes no further step.  A client is the consent dialog *)
(* with HttpRemoteOptInService (packages/remote-opt-in).                      *)
EXTENDS Naturals, FiniteSets

CONSTANTS
    Requests,     \* handlers that may be running at once
    Accounts, Devices, Tokens,   \* owners, devices and their push tokens
    MaxVersions   \* disclosures the service is started with

VARIABLES
    version,  \* consentDisclosureVersion of the running service
    row,      \* the row of account_consents
    inputs,   \* retained_inputs, by what their classification went through
    device,   \* device[d]: the row of the push device
    req       \* req[q]: a running handler

vars == <<version, row, inputs, device, req>>

Nobody == "nobody"
NoConsent == [state |-> "none", ai |-> FALSE, keeps |-> FALSE, version |-> 0]
NoDevice == [account |-> Nobody, token |-> Nobody, on |-> FALSE]
NoReq == [pc |-> "idle", consent |-> NoConsent, raced |-> FALSE, device |-> Nobody,
          token |-> Nobody]

TypeOK ==
    /\ version \in 1..MaxVersions
    /\ row \in [state : {"none", "on", "off"}, ai : BOOLEAN, keeps : BOOLEAN,
                version : 0..MaxVersions]
    /\ inputs \subseteq [keeps : BOOLEAN, raced : BOOLEAN]
    /\ device \in [Devices -> [account : Accounts \cup {Nobody},
                               token : Tokens \cup {Nobody}, on : BOOLEAN]]
    /\ \A q \in Requests :
          /\ req[q].pc \in {"idle", "classify", "insert", "off", "delete", "push", "pushed"}
          /\ req[q].token \in Tokens \cup {Nobody}

Init ==
    /\ version = 1 /\ row = NoConsent
    /\ inputs = {}
    /\ device = [d \in Devices |-> NoDevice]
    /\ req = [q \in Requests |-> NoReq]

At(q, pc) == req[q].pc = pc
Starts(q, r) == At(q, "idle") /\ req' = [req EXCEPT ![q] = r]
Ends(q) == req' = [req EXCEPT ![q] = NoReq]
Withdrawing == \E q \in Requests : req[q].pc \in {"off", "delete"}

-----------------------------------------------------------------------------
(* Consent *)

\* PUT with enabled: the disclosure must be the current one.
Enable(ai, keeps) ==
    /\ row' = [state |-> "on", ai |-> ai, keeps |-> keeps, version |-> version]
    /\ UNCHANGED <<version, inputs, device, req>>

Purges(q, pc, left) ==
    /\ At(q, "idle")
    /\ inputs' = left
    /\ req' = [x \in Requests |->
          IF x = q THEN [NoReq EXCEPT !.pc = pc]
          ELSE [req[x] EXCEPT !.raced = @ \/ req[x].pc \in {"classify", "insert"}]]
    /\ UNCHANGED <<version, row, device>>

\* Mutant of Purge: the inputs are left to expire.
MutantKeepsInputs(q, pc) == Purges(q, pc, inputs)

\* Both a PUT that disables and a DELETE first remove the retained inputs.
Purge(q, pc) == Purges(q, pc, {})

\* PUT, second statement: the row is kept and says off.
Disable(q) ==
    /\ At(q, "off")
    /\ row' = [state |-> "off", ai |-> FALSE, keeps |-> FALSE,
               version |-> IF row.state = "none" THEN version ELSE row.version]
    /\ Ends(q)
    /\ UNCHANGED <<version, inputs, device>>

\* DELETE, second statement: the row goes, and with it what refers to it.
Delete(q) ==
    /\ At(q, "delete")
    /\ row' = NoConsent /\ inputs' = {}
    /\ Ends(q)
    /\ UNCHANGED <<version, device>>

\* Inputs whose time is up go when the next classification begins.
PurgeExpired(old) ==
    /\ old # {} /\ old \subseteq inputs
    /\ inputs' = inputs \ old
    /\ UNCHANGED <<version, row, device, req>>

-----------------------------------------------------------------------------
(* Classification *)

\* The consent is read: on, and to the current disclosure.
Classify(q) ==
    /\ row.state = "on" /\ row.version = version
    /\ Starts(q, [NoReq EXCEPT !.pc = "classify", !.consent = row, !.raced = Withdrawing])
    /\ UNCHANGED <<version, row, inputs, device>>

\* Rules, and the remote model when the consent read allows it: it may take long.
ClassifyMessage(q) ==
    /\ At(q, "classify")
    /\ req' = [req EXCEPT ![q].pc = "insert"]
    /\ UNCHANGED <<version, row, inputs, device>>

Keeps(q, allowed) ==
    /\ At(q, "insert")
    /\ inputs' = IF allowed /\ row.state # "none"
                 THEN inputs \cup {[keeps |-> req[q].consent.keeps, raced |-> req[q].raced]}
                 ELSE inputs
    /\ Ends(q)
    /\ UNCHANGED <<version, row, device>>

\* Mutant of KeepInput: the consent is read again after the model has answered.
MutantReadsAgain(q) == Keeps(q, row.keeps)

\* The input is stored if the consent read retains inputs; its row must be there.
KeepInput(q) == Keeps(q, req[q].consent.keeps)

-----------------------------------------------------------------------------
(* Push devices *)

\* Whoever registers a device id has it from then on; an account has at most one
\* device that is on with a token.
RegisterDevice(d, a, t) ==
    /\ \A x \in Devices \ {d} : ~(device[x].on /\ device[x].account = a
                                    /\ device[x].token = t)
    /\ device' = [device EXCEPT ![d] = [account |-> a, token |-> t, on |-> TRUE]]
    /\ UNCHANGED <<version, row, inputs, req>>

RevokeDevice(d, a) ==
    /\ device[d].on /\ device[d].account = a
    /\ device' = [device EXCEPT ![d].on = FALSE]
    /\ UNCHANGED <<version, row, inputs, req>>

\* The test push reads the row, sends, and notes the time in whatever row the
\* device then has.
PushTest(q, d) ==
    /\ device[d].on
    /\ Starts(q, [NoReq EXCEPT !.pc = "push", !.device = d, !.token = device[d].token])
    /\ UNCHANGED <<version, row, inputs, device>>

SendApns(q) ==
    /\ At(q, "push")
    /\ req' = [req EXCEPT ![q].pc = "pushed"]
    /\ UNCHANGED <<version, row, inputs, device>>

NotePush(q) == At(q, "pushed") /\ Ends(q) /\ UNCHANGED <<version, row, inputs, device>>

\* The service is started with another disclosure, or stops: handlers end.
Restart(v) ==
    /\ v \in {version, version + 1} /\ v <= MaxVersions
    /\ version' = v
    /\ req' = [q \in Requests |-> NoReq]
    /\ UNCHANGED <<row, inputs, device>>

-----------------------------------------------------------------------------
Next ==
    \/ \E ai, keeps \in BOOLEAN : Enable(ai, keeps)
    \/ \E q \in Requests :
          \/ \E pc \in {"off", "delete"} : Purge(q, pc)
          \/ Disable(q) \/ Delete(q)
          \/ Classify(q) \/ ClassifyMessage(q) \/ KeepInput(q)
          \/ \E d \in Devices : PushTest(q, d)
          \/ SendApns(q) \/ NotePush(q)
    \/ \E old \in SUBSET inputs : PurgeExpired(old)
    \/ \E d \in Devices, a \in Accounts :
          RevokeDevice(d, a) \/ \E t \in Tokens : RegisterDevice(d, a, t)
    \/ \E v \in 1..MaxVersions : Restart(v)

Spec == Init /\ [][Next]_vars

-----------------------------------------------------------------------------
(* Properties *)

\* Every retained input was classified under a consent that let inputs be retained;
\* once a withdrawal is through, the only ones that remain are those of a
\* classification that overlapped it; and without a row there are none at all,
\* whatever was under way (createHomelabApp, PUT and DELETE consent).  A later consent
\* that retains nothing leaves the inputs there are until their time is up.
KeptUnderConsent ==
    /\ \A i \in inputs : i.keeps
    /\ row.state # "on" /\ ~Withdrawing => \A i \in inputs : i.raced
    /\ row.state = "none" => inputs = {}
=============================================================================
