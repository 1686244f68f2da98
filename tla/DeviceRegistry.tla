-------------------------- MODULE DeviceRegistry --------------------------
(* Accounts and devices in the blind relay (services/blind-relay): the first  *)
(* device bootstraps the account, further ones are approved with an invite,   *)
(* and each request of a device is signed with a timestamp and a nonce.       *)
(* A handler awaits one D1 statement or batch after the other; statement and  *)
(* batch are atomic, handlers interleave.  A handler that fails or is stopped *)
(* is one that takes no further step.                                         *)
(*                                                                            *)
(* One account.  Times are in units of the model; the code has REPLAY_TTL and *)
(* INVITE_TTL of 10 minutes and MAX_CLOCK_SKEW of 5.                          *)
EXTENDS Integers, FiniteSets

CONSTANTS
    Devices,       \* device ids
    MaxLetters,    \* how many signed requests there are, each with its nonce
    Requests,      \* handlers that may be running at once
    MaxInvites,    \* how many invite tokens there are
    MaxTime,       \* the last moment of the model
    Skew,          \* MAX_CLOCK_SKEW_SECONDS
    ReplayTtl,     \* REPLAY_TTL_SECONDS
    InviteTtl,     \* INVITE_TTL_SECONDS
    Latency,       \* how long a handler may take up to its nonce
    MaxBootstraps  \* how often the account is created

Nobody == "nobody"

ASSUME DeviceRegistryAssumption ==
    /\ MaxTime \in Nat /\ Skew \in Nat /\ ReplayTtl \in Nat /\ InviteTtl \in Nat
    /\ MaxLetters \in Nat /\ MaxInvites \in Nat
    /\ Latency \in Nat /\ MaxBootstraps \in Nat
    /\ Nobody \notin Devices
    /\ Skew + Latency < ReplayTtl

VARIABLES
    now,       \* the clock of the service
    boots,     \* how often the account has been created
    account,   \* whether it exists
    devices,   \* devices[d]: the row of device d
    invites,   \* invites[i]: the row of invite i
    nonces,    \* the letters whose nonce is stored
    letters,   \* letters[m]: what device signed when, and what for
    req,       \* req[q]: a running handler
    accepted,  \* accepted[m]: how often m has got past its nonce, up to two
    claimed    \* claimed[i]: devices that invite i has approved

vars == <<now, boots, account, devices, invites, nonces, letters, req, accepted,
          claimed>>

-----------------------------------------------------------------------------
Letters == 1..MaxLetters
Invites == 1..MaxInvites
Ops == {"invite", "revoke", "delete"}
Letter == [boot : 0..MaxBootstraps, by : Devices \cup {Nobody}, ts : Nat,
           op : Ops, target : Devices \cup {Nobody}]
Unsigned == [boot |-> 0, by |-> Nobody, ts |-> 0, op |-> "invite", target |-> Nobody]

\* An invite: not there (yet or any more), open, or used.
Invite == [status : {"none", "open", "used"}, expires : Nat]
NoInvite == [status |-> "none", expires |-> 0]

\* A handler: at is its Date.now() while that matters; the letter, or the invite
\* and the device, it works on.
Req == [pc : {"idle", "nonce", "act", "cleanup", "approve"}, at : Nat,
        letter : 0..MaxLetters, invite : 0..MaxInvites,
        device : Devices \cup {Nobody}]
NoReq == [pc |-> "idle", at |-> 0, letter |-> 0, invite |-> 0,
          device |-> Nobody]

TypeOK ==
    /\ now \in 0..MaxTime
    /\ boots \in 0..MaxBootstraps
    /\ account \in BOOLEAN
    /\ devices \in [Devices -> {"none", "approved", "revoked"}]
    /\ invites \in [Invites -> Invite]
    /\ nonces \subseteq Letters
    /\ letters \in [Letters -> Letter]
    /\ req \in [Requests -> Req]
    /\ accepted \in [Letters -> 0..2]
    /\ claimed \in [Invites -> SUBSET Devices]

Init ==
    /\ now = 0
    /\ boots = 0
    /\ account = FALSE
    /\ devices = [d \in Devices |-> "none"]
    /\ invites = [i \in Invites |-> NoInvite]
    /\ nonces = {}
    /\ letters = [m \in Letters |-> Unsigned]
    /\ req = [q \in Requests |-> NoReq]
    /\ accepted = [m \in Letters |-> 0]
    /\ claimed = [i \in Invites |-> {}]

At(q, pc) == req[q].pc = pc
GoTo(q, pc) == req' = [req EXCEPT ![q].pc = pc]
Ends(q) == req' = [req EXCEPT ![q] = NoReq]
Approved == {d \in Devices : devices[d] = "approved"}

-----------------------------------------------------------------------------
(* Bootstrap, and the clients *)

Bootstrap(d) ==
    /\ ~account /\ boots < MaxBootstraps
    /\ boots' = boots + 1
    /\ account' = TRUE
    /\ devices' = [devices EXCEPT ![d] = "approved"]
    /\ UNCHANGED <<now, invites, nonces, letters, req, accepted, claimed>>

\* A device signs a request, the first moment it could be accepted: its clock
\* is ahead by all that is allowed.  Any other clock is a later arrival.  What
\* it revokes is in its list of approved devices.
Sign(m, d, op, t) ==
    /\ letters[m] = Unsigned /\ \A k \in 1..(m - 1) : letters[k] # Unsigned
    /\ devices[d] = "approved"
    /\ IF op = "revoke" THEN t \in Approved ELSE t = Nobody
    /\ letters' = [letters EXCEPT ![m] =
           [boot |-> boots, by |-> d, ts |-> now + Skew, op |-> op, target |-> t]]
    /\ UNCHANGED <<now, boots, account, devices, invites, nonces, req, accepted,
                   claimed>>

-----------------------------------------------------------------------------
(* verifyDeviceRequest *)

\* A letter arrives, for the first time or again: its timestamp must be near,
\* its device approved.  (The row is read a moment behind the clock; a device
\* that is approved then was approved before.)
Arrives(q, m) ==
    /\ At(q, "idle") /\ letters[m] # Unsigned
    /\ now - letters[m].ts \in -Skew..Skew
    /\ letters[m].by \in Approved
    /\ req' = [req EXCEPT ![q] = [NoReq EXCEPT !.pc = "nonce", !.at = now,
                                               !.letter = m]]
    /\ UNCHANGED <<now, boots, account, devices, invites, nonces, letters, accepted,
                   claimed>>

\* The nonce is inserted if it is new and the device row is still there.
InsertNonce(q) ==
    /\ At(q, "nonce")
    /\ LET m == req[q].letter
       IN  IF m \notin nonces /\ devices[letters[m].by] # "none"
           THEN /\ nonces' = nonces \cup {m}
                /\ accepted' = [accepted EXCEPT ![m] = IF @ = 2 THEN 2 ELSE @ + 1]
                /\ req' = [req EXCEPT ![q].pc = "act", ![q].at = 0]
           ELSE Ends(q) /\ UNCHANGED <<nonces, accepted>>
    /\ UNCHANGED <<now, boots, account, devices, invites, letters, claimed>>

-----------------------------------------------------------------------------
(* The handlers behind it *)

ActsOn(q, op) == At(q, "act") /\ letters[req[q].letter].op = op

\* A token that no row has and no device has been approved with.
Fresh(i) == invites[i] = NoInvite /\ claimed[i] = {}

InsertsInvite(q, expires) ==
    /\ ActsOn(q, "invite")
    /\ \/ /\ devices[letters[req[q].letter].by] # "none"
          /\ \E i \in Invites :
                /\ Fresh(i) /\ \A j \in 1..(i - 1) : ~Fresh(j)
                /\ invites' = [invites EXCEPT ![i] =
                       [status |-> "open", expires |-> expires]]
       \/ /\ \/ devices[letters[req[q].letter].by] = "none"
             \/ \A i \in Invites : ~Fresh(i)
          /\ UNCHANGED invites
    /\ Ends(q)
    /\ UNCHANGED <<now, boots, account, devices, nonces, letters, accepted, claimed>>

\* Mutant of CreateInvite: the lifetime is subtracted.
MutantBornExpired(q) == InsertsInvite(q, now - InviteTtl)

\* An invite is inserted; without the row of its device that fails.
CreateInvite(q) == InsertsInvite(q, now + InviteTtl)

Revokes(q, allowed) ==
    /\ ActsOn(q, "revoke")
    /\ IF allowed
       THEN /\ devices' = [devices EXCEPT ![letters[req[q].letter].target] = "revoked"]
            /\ GoTo(q, "cleanup")
       ELSE Ends(q) /\ UNCHANGED devices
    /\ UNCHANGED <<now, boots, account, invites, nonces, letters, accepted, claimed>>

\* Mutant of RevokeDevice: the approved devices are not counted.
MutantRevokesLast(q) == Revokes(q, letters[req[q].letter].target \in Approved)

\* The update carries its own count of the approved devices.
RevokeDevice(q) ==
    Revokes(q, letters[req[q].letter].target \in Approved /\ Cardinality(Approved) > 1)

\* The nonces of the revoked device are deleted.
CleanUp(q) ==
    /\ At(q, "cleanup")
    /\ nonces' = {m \in nonces : letters[m].by # letters[req[q].letter].target}
    /\ Ends(q)
    /\ UNCHANGED <<now, boots, account, devices, invites, letters, accepted, claimed>>

\* The account goes, and with it all rows that refer to it.
DeleteAccount(q) ==
    /\ ActsOn(q, "delete")
    /\ account' = FALSE
    /\ devices' = [d \in Devices |-> "none"]
    /\ invites' = [i \in Invites |-> NoInvite]
    /\ nonces' = {}
    /\ Ends(q)
    /\ UNCHANGED <<now, boots, letters, accepted, claimed>>

-----------------------------------------------------------------------------
(* Claiming an invite: the account token is enough *)

Open(i, at) == invites[i].status = "open" /\ invites[i].expires > at

\* The invite must be open, in a first look.
ClaimArrives(q, i, d) ==
    /\ At(q, "idle") /\ Open(i, now)
    /\ req' = [req EXCEPT ![q] = [NoReq EXCEPT !.pc = "approve", !.at = now,
                                               !.invite = i, !.device = d]]
    /\ UNCHANGED <<now, boots, account, devices, invites, nonces, letters, accepted,
                   claimed>>

Approves(q, allowed) ==
    /\ At(q, "approve")
    /\ LET i == req[q].invite
           d == req[q].device
       IN  IF allowed
           THEN /\ devices' = [devices EXCEPT ![d] = "approved"]
                /\ invites' = [invites EXCEPT ![i].status = "used"]
                /\ claimed' = [claimed EXCEPT ![i] = @ \cup {d}]
           ELSE UNCHANGED <<devices, invites, claimed>>
    /\ Ends(q)
    /\ UNCHANGED <<now, boots, account, nonces, letters, accepted>>

\* Mutants of ApproveDevice: the invite is not looked at again; a device that
\* has a row is approved again.
MutantClaimsUsed(q) ==
    Approves(q, /\ invites[req[q].invite] # NoInvite
                /\ devices[req[q].device] = "none")
MutantReapproves(q) == Approves(q, Open(req[q].invite, req[q].at))

\* The batch inserts the device from the invite if it is still open and marks
\* the invite; a device that has a row already fails the batch.
ApproveDevice(q) ==
    Approves(q, /\ Open(req[q].invite, req[q].at)
                /\ devices[req[q].device] = "none")

-----------------------------------------------------------------------------
(* The hourly task, and time *)

\* Mutant of Retention: a nonce is kept as long as the clock skew only.
MutantForgetsEarly ==
    /\ nonces' = {m \in nonces : letters[m].ts + Skew > now}
    /\ UNCHANGED <<now, boots, account, devices, invites, letters, req, accepted,
                   claimed>>

Retention ==
    /\ nonces' = {m \in nonces : letters[m].ts + ReplayTtl > now}
    /\ invites' = [i \in Invites |->
                      IF invites[i].expires <= now \/ invites[i].status = "used"
                      THEN NoInvite ELSE invites[i]]
    /\ UNCHANGED <<now, boots, account, devices, letters, req, accepted, claimed>>

\* Time passes; no handler takes longer than Latency up to its nonce.
Tick ==
    /\ now < MaxTime
    /\ \A q \in Requests : At(q, "nonce") => now < req[q].at + Latency
    /\ now' = now + 1
    /\ UNCHANGED <<boots, account, devices, invites, nonces, letters, req, accepted,
                   claimed>>

-----------------------------------------------------------------------------
Step(q) ==
    \/ \E m \in Letters : Arrives(q, m)
    \/ InsertNonce(q)
    \/ CreateInvite(q) \/ RevokeDevice(q) \/ CleanUp(q) \/ DeleteAccount(q)
    \/ \E i \in Invites, d \in Devices : ClaimArrives(q, i, d)
    \/ ApproveDevice(q)

Next ==
    \/ \E d \in Devices : Bootstrap(d)
    \/ \E m \in Letters, d \in Devices, op \in Ops, t \in Devices \cup {Nobody} :
          Sign(m, d, op, t)
    \/ \E q \in Requests : Step(q)
    \/ Retention \/ Tick

Spec == Init /\ [][Next]_vars

-----------------------------------------------------------------------------
(* Properties *)

\* An invite approves one device, whoever claims it, however often and at once,
\* and whatever the hourly task removes meanwhile.
InviteApprovesOne == \A i \in Invites : Cardinality(claimed[i]) <= 1

\* An account always has a device that can still act for it, even when devices
\* revoke each other at the same time ("cannot revoke the last device").
AccountHasDevice == account => Approved # {}

\* The device that signed m was revoked before, in an earlier life of the account.
RevokedEarlier(m) ==
    \E k \in Letters : /\ letters[k].op = "revoke" /\ letters[k].target = letters[m].by
                       /\ letters[k].boot < letters[m].boot

\* A signed request that is delivered again is not carried out again, as long
\* as it could still be accepted: no nonce is forgotten too early.  Left out are
\* devices that have been revoked and accounts created anew, whose nonces go; and
\* a device revoked before the account was created anew, whose new nonces go when
\* the handler of the old revocation is still at work.
AcceptedOnce ==
    \A m \in Letters :
        accepted[m] = 2 => \/ letters[m].by \notin Approved \/ letters[m].boot < boots
                          \/ RevokedEarlier(m)

\* A revoked device is never approved again while the account exists.
RevokedForGood ==
    [][\A d \in Devices : devices[d] = "revoked" => devices'[d] # "approved"]_vars
=============================================================================
