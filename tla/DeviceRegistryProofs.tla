------------------------ MODULE DeviceRegistryProofs ------------------------
(* Proofs about DeviceRegistry for any number of devices, handlers, letters,  *)
(* invites and lives of the account: the types, that an invite approves one   *)
(* device, that the account keeps a device, that a letter is accepted once    *)
(* and that a revocation is for good.                                         *)
EXTENDS DeviceRegistry, FiniteSetTheorems, TLAPS

Signed(m) == letters[m].by \in Devices

\* What a signed letter says, and that only signed ones have been accepted.
LetterShape ==
    \A m \in Letters :
        /\ letters[m] # Unsigned => Signed(m)
        /\ letters[m].boot <= boots
        /\ accepted[m] > 0 => Signed(m)

\* What a handler works on; it goes on to clean up only after a revocation.
HandlerShape ==
    \A q \in Requests :
        /\ req[q].pc \in {"nonce", "act", "cleanup"} =>
              req[q].letter \in Letters /\ Signed(req[q].letter)
        /\ req[q].pc = "cleanup" => /\ letters[req[q].letter].op = "revoke"
                                    /\ letters[req[q].letter].target \in Devices
        /\ req[q].pc = "approve" => req[q].invite \in Invites /\ req[q].device \in Devices

\* An invite that has approved a device is not open, and has approved just it.
InviteSpent ==
    \A i \in Invites :
        \/ claimed[i] = {}
        \/ invites[i].status # "open" /\ \E d \in Devices : claimed[i] = {d}

\* Without the account there are no rows of devices and invites.
RowsNeedAccount ==
    ~account => /\ \A d \in Devices : devices[d] = "none"
                /\ \A i \in Invites : invites[i] = NoInvite

\* Who has signed for this account has a row as long as it is there.
SignersKnown ==
    account => \A m \in Letters :
        Signed(m) /\ letters[m].boot = boots => devices[letters[m].by] # "none"

\* A handler reaches its nonce while its letter is still fresh.
ArrivesInTime ==
    \A q \in Requests : req[q].pc = "nonce" =>
        /\ now <= req[q].at + Latency
        /\ req[q].at <= letters[req[q].letter].ts + Skew

\* Nonces are cleaned up for a device that is revoked, unless the account has gone
\* since the revocation was asked for.
CleansRevoked ==
    \A q \in Requests : req[q].pc = "cleanup" =>
        \/ devices[letters[req[q].letter].target] = "revoked"
        \/ letters[req[q].letter].boot < boots
        \/ ~account

\* A letter that can still be accepted as far as its device and account go.
Current(m) ==
    /\ letters[m].by \in Approved /\ letters[m].boot = boots
    /\ ~RevokedEarlier(m)

\* The nonce of an accepted letter is there for as long as the letter is fresh.
NonceKept ==
    \A m \in Letters : Current(m) =>
        /\ accepted[m] # 2
        /\ accepted[m] = 1 => m \in nonces \/ letters[m].ts + ReplayTtl <= now

IInv ==
    /\ TypeOK /\ LetterShape /\ HandlerShape /\ InviteSpent /\ RowsNeedAccount
    /\ SignersKnown /\ ArrivesInTime /\ CleansRevoked /\ NonceKept
    /\ AccountHasDevice
-----------------------------------------------------------------------------
(* What a handler carries after a step *)

LEMMA RequestTypes ==
    /\ NoReq \in Req /\ NoReq.pc = "idle" /\ NoInvite \in Invite /\ Unsigned \in Letter
    /\ NoInvite.status = "none"
    /\ Unsigned.by = Nobody /\ Unsigned.op = "invite" /\ Unsigned.boot = 0
BY DeviceRegistryAssumption
   DEF NoReq, Req, NoInvite, Invite, Unsigned, Letter, Ops, Letters, Invites

\* The steps of a handler, as what it carries afterwards.
LEMMA HandlerSteps ==
    ASSUME TypeOK, HandlerShape, NEW q \in Requests
    PROVE  /\ \A m \in Letters : Arrives(q, m) => \E x \in Req :
                 /\ req' = [req EXCEPT ![q] = x]
                 /\ x.pc = "nonce" /\ x.at = now /\ x.letter = m
           /\ InsertNonce(q) => \E x \in Req :
                 /\ req' = [req EXCEPT ![q] = x]
                 /\ \/ x.pc = "act" /\ x.letter = req[q].letter
                    \/ x.pc = "idle"
           /\ GoTo(q, "cleanup") => \E x \in Req :
                 /\ req' = [req EXCEPT ![q] = x]
                 /\ x.pc = "cleanup" /\ x.letter = req[q].letter
           /\ \A i \in Invites, d \in Devices : ClaimArrives(q, i, d) => \E x \in Req :
                 /\ req' = [req EXCEPT ![q] = x]
                 /\ x.pc = "approve" /\ x.invite = i /\ x.device = d
           /\ Ends(q) => \E x \in Req :
                 req' = [req EXCEPT ![q] = x] /\ x.pc = "idle"
<1>1. /\ req \in [Requests -> Req] /\ req[q] \in Req /\ NoReq \in Req /\ NoReq.pc = "idle"
      /\ now \in Nat /\ Letters \subseteq 0..MaxLetters /\ Invites \subseteq 0..MaxInvites
  BY RequestTypes, DeviceRegistryAssumption DEF TypeOK, Letters, Invites
<1>2. ASSUME NEW m \in Letters, Arrives(q, m)
      PROVE  \E x \in Req : /\ req' = [req EXCEPT ![q] = x]
                             /\ x.pc = "nonce" /\ x.at = now /\ x.letter = m
  <2> DEFINE x == [NoReq EXCEPT !.pc = "nonce", !.at = now, !.letter = m]
  <2>1. x \in Req /\ x.pc = "nonce" /\ x.at = now /\ x.letter = m
    BY <1>1 DEF Req
  <2>2. req' = [req EXCEPT ![q] = x]
    BY <1>2 DEF Arrives
  <2> HIDE DEF x
  <2> QED
    BY <2>1, <2>2
<1>3. ASSUME InsertNonce(q)
      PROVE  \E x \in Req : /\ req' = [req EXCEPT ![q] = x]
                             /\ \/ x.pc = "act" /\ x.letter = req[q].letter
                                \/ x.pc = "idle"
  <2> DEFINE x == [req[q] EXCEPT !.pc = "act", !.at = 0]
  <2>1. x \in Req /\ x.pc = "act" /\ x.letter = req[q].letter
    BY <1>1 DEF Req
  <2>2. \/ req' = [req EXCEPT ![q].pc = "act", ![q].at = 0]
        \/ req' = [req EXCEPT ![q] = NoReq]
    BY <1>3 DEF InsertNonce, Ends
  <2>3. req' = [req EXCEPT ![q] = x] \/ req' = [req EXCEPT ![q] = NoReq]
    BY <1>1, <2>2 DEF Req
  <2> HIDE DEF x
  <2> QED
    BY <1>1, <2>1, <2>3
<1>4. ASSUME GoTo(q, "cleanup")
      PROVE  \E x \in Req : /\ req' = [req EXCEPT ![q] = x]
                             /\ x.pc = "cleanup" /\ x.letter = req[q].letter
  <2> DEFINE x == [req[q] EXCEPT !.pc = "cleanup"]
  <2>1. x \in Req /\ x.pc = "cleanup" /\ x.letter = req[q].letter
    BY <1>1 DEF Req
  <2>2. req' = [req EXCEPT ![q] = x]
    BY <1>1, <1>4 DEF GoTo
  <2> HIDE DEF x
  <2> QED
    BY <2>1, <2>2
<1>5. ASSUME NEW i \in Invites, NEW d \in Devices, ClaimArrives(q, i, d)
      PROVE  \E x \in Req : /\ req' = [req EXCEPT ![q] = x]
                             /\ x.pc = "approve" /\ x.invite = i /\ x.device = d
  <2> DEFINE x == [NoReq EXCEPT !.pc = "approve", !.at = now, !.invite = i, !.device = d]
  <2>1. x \in Req /\ x.pc = "approve" /\ x.invite = i /\ x.device = d
    BY <1>1 DEF Req
  <2>2. req' = [req EXCEPT ![q] = x]
    BY <1>5 DEF ClaimArrives
  <2> HIDE DEF x
  <2> QED
    BY <2>1, <2>2
<1>6. Ends(q) => \E x \in Req : req' = [req EXCEPT ![q] = x] /\ x.pc = "idle"
  BY <1>1 DEF Ends
<1> QED
  BY <1>2, <1>3, <1>4, <1>5, <1>6

-----------------------------------------------------------------------------
(* What each step does to the invariant *)

\* A handler moves and nothing else does.
LEMMA OnlyHandlerMoves ==
    ASSUME IInv, NEW q \in Requests, NEW x \in Req,
           req' = [req EXCEPT ![q] = x],
           UNCHANGED <<now, boots, account, devices, invites, nonces, letters, accepted,
                       claimed>>,
           \/ x.pc = "idle"
           \/ /\ x.pc = "nonce" /\ x.at = now /\ x.letter \in Letters /\ Signed(x.letter)
              /\ now <= letters[x.letter].ts + Skew
           \/ x.pc = "approve" /\ x.invite \in Invites /\ x.device \in Devices
    PROVE  IInv'
<1>1. /\ req' \in [Requests -> Req] /\ req'[q] = x
      /\ \A p \in Requests : p # q => req'[p] = req[p]
  BY DEF IInv, TypeOK
<1>2. TypeOK'
  BY <1>1 DEF IInv, TypeOK
<1>3. HandlerShape'
  BY <1>1 DEF IInv, HandlerShape, Signed
<1>4. ArrivesInTime'
  BY <1>1, DeviceRegistryAssumption DEF IInv, TypeOK, ArrivesInTime
<1>5. CleansRevoked'
  BY <1>1 DEF IInv, CleansRevoked
<1>6. LetterShape' /\ InviteSpent' /\ RowsNeedAccount' /\ SignersKnown' /\ NonceKept'
      /\ AccountHasDevice'
  BY DEF IInv, LetterShape, InviteSpent, RowsNeedAccount, SignersKnown, NonceKept, Signed,
         Current, RevokedEarlier, Approved, AccountHasDevice
<1> QED
  BY <1>2, <1>3, <1>4, <1>5, <1>6 DEF IInv

\* The account is created: letters of an earlier one are not current.
LEMMA BootstrapKeeps ==
    ASSUME IInv, NEW d \in Devices, Bootstrap(d)
    PROVE  IInv'
<1>1. /\ ~account /\ boots' = boots + 1 /\ account' = TRUE /\ boots \in Nat
      /\ \A e \in Devices : devices'[e] = IF e = d THEN "approved" ELSE "none"
      /\ UNCHANGED <<now, invites, nonces, letters, req, accepted, claimed>>
  BY DeviceRegistryAssumption DEF Bootstrap, IInv, TypeOK, RowsNeedAccount
<1>2. TypeOK'
  BY DeviceRegistryAssumption DEF Bootstrap, IInv, TypeOK
<1>3. \A m \in Letters : letters[m].boot \in Nat /\ letters[m].boot < boots'
  BY <1>1, DeviceRegistryAssumption DEF IInv, TypeOK, LetterShape, Letter
<1>4. LetterShape' /\ HandlerShape' /\ InviteSpent' /\ ArrivesInTime'
  BY <1>1, <1>3 DEF IInv, LetterShape, HandlerShape, InviteSpent, ArrivesInTime, Signed
<1>5. RowsNeedAccount' /\ SignersKnown'
  BY <1>1, <1>3 DEF RowsNeedAccount, SignersKnown
<1>6. CleansRevoked'
  BY <1>1, <1>3 DEF IInv, CleansRevoked, HandlerShape
<1>7. NonceKept'
  BY <1>1, <1>3 DEF NonceKept, Current
<1>8. AccountHasDevice'
  BY <1>1 DEF AccountHasDevice, Approved
<1> QED
  BY <1>2, <1>4, <1>5, <1>6, <1>7, <1>8 DEF IInv

\* A letter is new when it is signed, and its device is known then.
LEMMA SignKeeps ==
    ASSUME IInv, NEW m \in Letters, NEW d \in Devices, NEW op \in Ops,
           NEW t \in Devices \cup {Nobody}, Sign(m, d, op, t)
    PROVE  IInv'
<1> DEFINE l == [boot |-> boots, by |-> d, ts |-> now + Skew, op |-> op, target |-> t]
<1>1. l \in Letter /\ l.boot = boots /\ l.by = d
  BY DeviceRegistryAssumption DEF IInv, TypeOK, Letter
<1>2. /\ letters[m] = Unsigned /\ devices[d] = "approved"
      /\ letters' = [letters EXCEPT ![m] = l]
      /\ UNCHANGED <<now, boots, account, devices, invites, nonces, req, accepted, claimed>>
  BY DEF Sign
<1> HIDE DEF l
<1>3. /\ letters'[m] = l /\ letters' \in [Letters -> Letter]
      /\ \A k \in Letters : k # m => letters'[k] = letters[k]
      /\ \A k \in Letters : Signed(k) => k # m /\ letters'[k] = letters[k]
  BY <1>1, <1>2, RequestTypes, DeviceRegistryAssumption DEF IInv, TypeOK, Signed
<1>4. TypeOK'
  BY <1>2, <1>3 DEF IInv, TypeOK
<1>5. LetterShape' /\ HandlerShape'
  BY <1>1, <1>2, <1>3 DEF IInv, TypeOK, LetterShape, HandlerShape, Signed
<1>6. InviteSpent' /\ RowsNeedAccount' /\ AccountHasDevice'
  BY <1>2 DEF IInv, InviteSpent, RowsNeedAccount, AccountHasDevice, Approved
<1>7. SignersKnown'
  BY <1>1, <1>2, <1>3 DEF IInv, SignersKnown, Signed
<1>8. ArrivesInTime' /\ CleansRevoked'
  BY <1>2, <1>3 DEF IInv, ArrivesInTime, CleansRevoked, HandlerShape
<1>9. NonceKept'
  <2>1. ASSUME NEW k \in Letters, Current(k)', k # m PROVE Current(k)
    <3>1. ASSUME RevokedEarlier(k) PROVE FALSE
      <4>1. PICK j \in Letters : /\ letters[j].op = "revoke" /\ letters[j].target = letters[k].by
                                /\ letters[j].boot < letters[k].boot
        BY <3>1 DEF RevokedEarlier
      <4>2. j # m
        BY <4>1, <1>2, RequestTypes
      <4> QED
        BY <4>1, <4>2, <2>1, <1>3 DEF Current, RevokedEarlier
    <3> QED
      BY <2>1, <3>1, <1>2, <1>3 DEF Current, Approved
  <2>2. accepted[m] = 0
    BY <1>2, RequestTypes, DeviceRegistryAssumption DEF IInv, TypeOK, LetterShape, Signed
  <2> QED
    BY <2>1, <2>2, <1>2, <1>3 DEF IInv, NonceKept
<1> QED
  BY <1>4, <1>5, <1>6, <1>7, <1>8, <1>9 DEF IInv

\* A letter whose nonce is new is still fresh, so it has not been accepted before.
LEMMA InsertNonceKeeps ==
    ASSUME IInv, NEW q \in Requests, InsertNonce(q)
    PROVE  IInv'
<1> DEFINE m == req[q].letter
<1>1. PICK x \in Req : /\ req' = [req EXCEPT ![q] = x]
                       /\ \/ x.pc = "act" /\ x.letter = m
                          \/ x.pc = "idle"
  BY HandlerSteps DEF IInv
<1>2. /\ req[q].pc = "nonce" /\ m \in Letters /\ Signed(m)
      /\ UNCHANGED <<now, boots, account, devices, invites, letters, claimed>>
      /\ \/ UNCHANGED <<nonces, accepted>>
         \/ /\ m \notin nonces /\ nonces' = nonces \cup {m}
            /\ accepted' = [accepted EXCEPT ![m] = IF @ = 2 THEN 2 ELSE @ + 1]
  BY DEF InsertNonce, At, IInv, HandlerShape
<1>a. accepted \in [Letters -> 0..2]
  BY DEF IInv, TypeOK
<1> HIDE DEF m
<1>3. /\ req' \in [Requests -> Req] /\ req'[q] = x
      /\ \A p \in Requests : p # q => req'[p] = req[p]
  BY <1>1 DEF IInv, TypeOK
<1>4. /\ \A k \in Letters : k # m => accepted'[k] = accepted[k]
      /\ accepted' \in [Letters -> 0..2] /\ nonces \subseteq nonces'
      /\ \/ accepted'[m] = accepted[m] /\ accepted[m] # 1
         \/ accepted'[m] = accepted[m] /\ nonces' = nonces
         \/ accepted[m] = 0 /\ accepted'[m] = 1 /\ m \in nonces'
         \/ accepted[m] = 1 /\ accepted'[m] = 2 /\ m \notin nonces
  <2>1. CASE UNCHANGED <<nonces, accepted>>
    BY <2>1, <1>a
  <2>2. CASE /\ m \notin nonces /\ nonces' = nonces \cup {m}
             /\ accepted' = [accepted EXCEPT ![m] = IF @ = 2 THEN 2 ELSE @ + 1]
    <3>1. accepted[m] \in {0, 1, 2}
      BY <1>a, <1>2
    <3>2. accepted'[m] = IF accepted[m] = 2 THEN 2 ELSE accepted[m] + 1
      BY <2>2, <1>a, <1>2
    <3> QED
      BY <2>2, <3>1, <3>2, <1>a, <1>2
  <2> QED
    BY <2>1, <2>2, <1>2
<1>5. TypeOK'
  BY <1>2, <1>3, <1>4 DEF IInv, TypeOK
<1>6. LetterShape' /\ HandlerShape'
  BY <1>1, <1>2, <1>3, <1>4 DEF IInv, LetterShape, HandlerShape, Signed
<1>7. InviteSpent' /\ RowsNeedAccount' /\ SignersKnown' /\ AccountHasDevice'
  BY <1>2 DEF IInv, InviteSpent, RowsNeedAccount, SignersKnown, AccountHasDevice, Approved, Signed
<1>8. ArrivesInTime' /\ CleansRevoked'
  BY <1>1, <1>2, <1>3 DEF IInv, ArrivesInTime, CleansRevoked, m
<1>9. NonceKept'
  <2>1. now < letters[m].ts + ReplayTtl
    BY <1>2, DeviceRegistryAssumption DEF IInv, TypeOK, ArrivesInTime, Letter, Req, m
  <2>2. \A k \in Letters : Current(k)' <=> Current(k)
    BY <1>2 DEF Current, RevokedEarlier, Approved
  <2>3. ASSUME NEW k \in Letters, Current(k), k # m
        PROVE  /\ accepted'[k] # 2
               /\ accepted'[k] = 1 => k \in nonces' \/ letters[k].ts + ReplayTtl <= now
    BY <2>3, <1>4 DEF IInv, NonceKept
  <2>4. ASSUME Current(m)
        PROVE  /\ accepted'[m] # 2
               /\ accepted'[m] = 1 => m \in nonces' \/ letters[m].ts + ReplayTtl <= now
    <3>1. /\ accepted[m] # 2
          /\ accepted[m] = 1 => m \in nonces \/ letters[m].ts + ReplayTtl <= now
      BY <2>4, <1>2 DEF IInv, NonceKept
    <3>2. ~(letters[m].ts + ReplayTtl <= now)
      BY <2>1, <1>2, DeviceRegistryAssumption DEF IInv, TypeOK, Letter
    <3> QED
      BY <3>1, <3>2, <1>4
  <2> QED
    BY <2>2, <2>3, <2>4, <1>2 DEF NonceKept
<1> QED
  BY <1>5, <1>6, <1>7, <1>8, <1>9 DEF IInv

\* An invite that is inserted has approved no device.
LEMMA CreateInviteKeeps ==
    ASSUME IInv, NEW q \in Requests, CreateInvite(q)
    PROVE  IInv'
<1>1. PICK x \in Req : req' = [req EXCEPT ![q] = x] /\ x.pc = "idle"
  BY HandlerSteps DEF IInv, CreateInvite, InsertsInvite
<1>2. /\ UNCHANGED <<now, boots, account, devices, nonces, letters, accepted, claimed>>
      /\ \/ UNCHANGED invites
         \/ /\ devices[letters[req[q].letter].by] # "none" /\ Signed(req[q].letter)
            /\ \E i \in Invites : /\ claimed[i] = {}
                                  /\ invites' = [invites EXCEPT ![i] =
                                         [status |-> "open", expires |-> now + InviteTtl]]
  BY DEF CreateInvite, InsertsInvite, ActsOn, At, Fresh, IInv, HandlerShape
<1>3. now + InviteTtl \in Nat
  BY DeviceRegistryAssumption DEF IInv, TypeOK
<1>4. /\ req' \in [Requests -> Req] /\ req'[q] = x
      /\ \A p \in Requests : p # q => req'[p] = req[p]
  BY <1>1 DEF IInv, TypeOK
<1>5. TypeOK'
  <2>1. [status |-> "open", expires |-> now + InviteTtl] \in Invite
    BY <1>3 DEF Invite
  <2>2. invites' \in [Invites -> Invite]
    BY <1>2, <2>1 DEF IInv, TypeOK
  <2> QED
    BY <1>2, <1>4, <2>2 DEF IInv, TypeOK
<1>6. InviteSpent'
  BY <1>2 DEF IInv, TypeOK, InviteSpent
<1>7. RowsNeedAccount'
  BY <1>2 DEF IInv, RowsNeedAccount, Signed
<1>8. HandlerShape' /\ ArrivesInTime' /\ CleansRevoked'
  BY <1>1, <1>2, <1>4 DEF IInv, HandlerShape, ArrivesInTime, CleansRevoked, Signed
<1>9. LetterShape' /\ SignersKnown' /\ NonceKept' /\ AccountHasDevice'
  BY <1>2 DEF IInv, LetterShape, SignersKnown, NonceKept, AccountHasDevice, Current,
              RevokedEarlier, Approved, Signed
<1> QED
  BY <1>5, <1>6, <1>7, <1>8, <1>9 DEF IInv
\* A revocation leaves another approved device, and counts for this account.
LEMMA RevokeDeviceKeeps ==
    ASSUME IInv, NEW q \in Requests, RevokeDevice(q)
    PROVE  IInv'
<1> DEFINE k == req[q].letter
           t == letters[k].target
<1>1. /\ k \in Letters /\ Signed(k) /\ letters[k].op = "revoke"
      /\ UNCHANGED <<now, boots, account, invites, nonces, letters, accepted, claimed>>
      /\ \/ UNCHANGED devices /\ Ends(q)
         \/ /\ t \in Approved /\ Cardinality(Approved) > 1 /\ GoTo(q, "cleanup")
            /\ devices' = [devices EXCEPT ![t] = "revoked"]
  BY DEF RevokeDevice, Revokes, ActsOn, At, IInv, HandlerShape
<1> HIDE DEF k, t
<1>2. CASE UNCHANGED devices /\ Ends(q)
  BY <1>1, <1>2, HandlerSteps, OnlyHandlerMoves DEF IInv
<1>3. CASE /\ t \in Approved /\ Cardinality(Approved) > 1 /\ GoTo(q, "cleanup")
           /\ devices' = [devices EXCEPT ![t] = "revoked"]
  <2>1. PICK x \in Req : /\ req' = [req EXCEPT ![q] = x]
                         /\ x.pc = "cleanup" /\ x.letter = k
    BY <1>3, HandlerSteps DEF IInv, k
  <2>2. /\ req' \in [Requests -> Req] /\ req'[q] = x
        /\ \A p \in Requests : p # q => req'[p] = req[p]
        /\ t \in Devices /\ devices[t] = "approved" /\ devices'[t] = "revoked"
        /\ \A d \in Devices : d # t => devices'[d] = devices[d]
        /\ devices' \in [Devices -> {"none", "approved", "revoked"}]
    BY <2>1, <1>3 DEF IInv, TypeOK, Approved
  <2>3. TypeOK'
    BY <1>1, <2>2 DEF IInv, TypeOK
  <2>4. LetterShape' /\ HandlerShape' /\ InviteSpent' /\ ArrivesInTime'
    BY <1>1, <2>1, <2>2
       DEF IInv, LetterShape, HandlerShape, InviteSpent, ArrivesInTime, Signed, t
  <2>5. RowsNeedAccount' /\ SignersKnown'
    BY <1>1, <2>2 DEF IInv, RowsNeedAccount, SignersKnown, Signed
  <2>6. CleansRevoked'
    <3>1. letters' = letters /\ boots' = boots /\ account' = account
      BY <1>1
    <3>2. devices'[letters[k].target] = "revoked"
      BY <2>2 DEF t
    <3>3. \A d \in Devices : devices[d] = "revoked" => devices'[d] = "revoked"
      BY <2>2
    <3> QED
      BY <3>1, <3>2, <3>3, <2>1, <2>2 DEF IInv, CleansRevoked, HandlerShape
  <2>7. NonceKept'
    <3>1. \A m \in Letters : Current(m)' => Current(m)
      BY <1>1, <2>2 DEF Current, RevokedEarlier, Approved
    <3> QED
      BY <3>1, <1>1 DEF IInv, NonceKept
  <2>8. AccountHasDevice'
    <3>1. Approved # {t}
      BY <1>3, FS_Singleton
    <3>2. PICK d \in Approved : d # t
      BY <1>3, <3>1
    <3> QED
      BY <2>2, <3>2 DEF AccountHasDevice, Approved
  <2> QED
    BY <2>3, <2>4, <2>5, <2>6, <2>7, <2>8 DEF IInv
<1> QED
  BY <1>1, <1>2, <1>3

\* The nonces that go are of a device that is revoked, or of one that was revoked
\* before the account was created anew.
LEMMA CleanUpKeeps ==
    ASSUME IInv, NEW q \in Requests, CleanUp(q)
    PROVE  IInv'
<1> DEFINE k == req[q].letter
<1>1. /\ k \in Letters /\ letters[k].op = "revoke"
      /\ nonces' = {m \in nonces : letters[m].by # letters[k].target} /\ Ends(q)
      /\ UNCHANGED <<now, boots, account, devices, invites, letters, accepted, claimed>>
      /\ \/ devices[letters[k].target] = "revoked"
         \/ letters[k].boot < boots
         \/ ~account
  BY DEF CleanUp, At, IInv, HandlerShape, CleansRevoked
<1>2. PICK x \in Req : req' = [req EXCEPT ![q] = x] /\ x.pc = "idle"
  BY <1>1, HandlerSteps DEF IInv
<1> HIDE DEF k
<1>3. /\ req' \in [Requests -> Req] /\ req'[q] = x
      /\ \A p \in Requests : p # q => req'[p] = req[p]
  BY <1>2 DEF IInv, TypeOK
<1>4. TypeOK'
  BY <1>1, <1>3 DEF IInv, TypeOK
<1>5. HandlerShape' /\ ArrivesInTime' /\ CleansRevoked'
  BY <1>1, <1>2, <1>3 DEF IInv, HandlerShape, ArrivesInTime, CleansRevoked, Signed
<1>6. LetterShape' /\ InviteSpent' /\ RowsNeedAccount' /\ SignersKnown' /\ AccountHasDevice'
  BY <1>1 DEF IInv, LetterShape, InviteSpent, RowsNeedAccount, SignersKnown, Signed,
              AccountHasDevice, Approved
<1>7. NonceKept'
  <2>1. SUFFICES ASSUME NEW m \in Letters, Current(m)
                 PROVE  m \in nonces => m \in nonces'
    BY <1>1 DEF IInv, NonceKept, Current, RevokedEarlier, Approved
  <2>2. devices[letters[m].by] = "approved" /\ account
    BY <2>1 DEF IInv, Current, Approved, RowsNeedAccount
  <2>3. letters[k].boot < boots => letters[m].by # letters[k].target
    BY <2>1, <1>1 DEF Current, RevokedEarlier
  <2> QED
    BY <2>2, <2>3, <1>1
<1> QED
  BY <1>4, <1>5, <1>6, <1>7 DEF IInv

\* With the account all its rows go.
LEMMA DeleteAccountKeeps ==
    ASSUME IInv, NEW q \in Requests, DeleteAccount(q)
    PROVE  IInv'
<1>1. /\ account' = FALSE /\ nonces' = {} /\ Ends(q)
      /\ devices' = [d \in Devices |-> "none"] /\ invites' = [i \in Invites |-> NoInvite]
      /\ UNCHANGED <<now, boots, letters, accepted, claimed>>
  BY DEF DeleteAccount
<1>2. PICK x \in Req : req' = [req EXCEPT ![q] = x] /\ x.pc = "idle"
  BY <1>1, HandlerSteps DEF IInv
<1>3. /\ req' \in [Requests -> Req] /\ req'[q] = x
      /\ \A p \in Requests : p # q => req'[p] = req[p]
  BY <1>2 DEF IInv, TypeOK
<1>4. TypeOK'
  BY <1>1, <1>3, RequestTypes DEF IInv, TypeOK
<1>5. HandlerShape' /\ ArrivesInTime' /\ LetterShape'
  BY <1>1, <1>2, <1>3 DEF IInv, HandlerShape, ArrivesInTime, LetterShape, Signed
<1>6. InviteSpent'
  BY <1>1, RequestTypes DEF IInv, InviteSpent
<1>7. RowsNeedAccount' /\ SignersKnown' /\ CleansRevoked' /\ AccountHasDevice'
  BY <1>1 DEF RowsNeedAccount, SignersKnown, CleansRevoked, AccountHasDevice
<1>8. NonceKept'
  BY <1>1 DEF NonceKept, Current, Approved
<1> QED
  BY <1>4, <1>5, <1>6, <1>7, <1>8 DEF IInv

\* A device that is approved had no row, so no letter of it is current; its invite
\* was open and has approved nothing yet.
LEMMA ApproveDeviceKeeps ==
    ASSUME IInv, NEW q \in Requests, ApproveDevice(q)
    PROVE  IInv'
<1> DEFINE i == req[q].invite
           d == req[q].device
<1>1. /\ i \in Invites /\ d \in Devices /\ Ends(q)
      /\ UNCHANGED <<now, boots, account, nonces, letters, accepted>>
      /\ \/ UNCHANGED <<devices, invites, claimed>>
         \/ /\ invites[i].status = "open" /\ devices[d] = "none"
            /\ devices' = [devices EXCEPT ![d] = "approved"]
            /\ invites' = [invites EXCEPT ![i].status = "used"]
            /\ claimed' = [claimed EXCEPT ![i] = @ \cup {d}]
  BY DEF ApproveDevice, Approves, At, Open, IInv, HandlerShape
<1> HIDE DEF i, d
<1>2. PICK x \in Req : req' = [req EXCEPT ![q] = x] /\ x.pc = "idle"
  BY <1>1, HandlerSteps DEF IInv
<1>3. CASE UNCHANGED <<devices, invites, claimed>>
  BY <1>1, <1>2, <1>3, OnlyHandlerMoves
<1>4. CASE /\ invites[i].status = "open" /\ devices[d] = "none"
           /\ devices' = [devices EXCEPT ![d] = "approved"]
           /\ invites' = [invites EXCEPT ![i].status = "used"]
           /\ claimed' = [claimed EXCEPT ![i] = @ \cup {d}]
  <2>1. /\ req' \in [Requests -> Req] /\ req'[q] = x
        /\ \A p \in Requests : p # q => req'[p] = req[p]
        /\ devices' \in [Devices -> {"none", "approved", "revoked"}]
        /\ devices'[d] = "approved"
        /\ \A e \in Devices : e # d => devices'[e] = devices[e]
    BY <1>1, <1>2, <1>4 DEF IInv, TypeOK
  <2>2. claimed[i] = {} /\ claimed'[i] = {d} /\ claimed' \in [Invites -> SUBSET Devices]
        /\ \A j \in Invites : j # i => claimed'[j] = claimed[j]
    BY <1>1, <1>4 DEF IInv, TypeOK, InviteSpent
  <2>3. invites' \in [Invites -> Invite] /\ invites'[i].status = "used"
        /\ \A j \in Invites : j # i => invites'[j] = invites[j]
    BY <1>1, <1>4 DEF IInv, TypeOK, Invite
  <2>4. account
    BY <1>1, <1>4, RequestTypes DEF IInv, RowsNeedAccount
  <2>5. TypeOK'
    BY <1>1, <2>1, <2>2, <2>3 DEF IInv, TypeOK
  <2>6. LetterShape' /\ HandlerShape' /\ ArrivesInTime'
    BY <1>1, <1>2, <2>1 DEF IInv, LetterShape, HandlerShape, ArrivesInTime, Signed
  <2>7. InviteSpent'
    BY <1>1, <2>2, <2>3 DEF IInv, InviteSpent
  <2>8. RowsNeedAccount' /\ SignersKnown' /\ AccountHasDevice'
    BY <1>1, <2>1, <2>4
       DEF IInv, RowsNeedAccount, SignersKnown, AccountHasDevice, Approved, Signed
  <2>9. CleansRevoked'
    BY <1>1, <1>2, <1>4, <2>1 DEF IInv, CleansRevoked, HandlerShape
  <2>10. NonceKept'
    <3>1. \A m \in Letters : Current(m)' => Current(m)
      BY <1>1, <1>4, <2>1, <2>4
         DEF IInv, SignersKnown, Current, RevokedEarlier, Approved, Signed
    <3> QED
      BY <3>1, <1>1 DEF IInv, NonceKept
  <2> QED
    BY <2>5, <2>6, <2>7, <2>8, <2>9, <2>10 DEF IInv
<1> QED
  BY <1>1, <1>3, <1>4

\* The hourly task forgets nonces of letters that are too old to be accepted.
LEMMA RetentionKeeps ==
    ASSUME IInv, Retention
    PROVE  IInv'
<1>1. /\ nonces' = {m \in nonces : letters[m].ts + ReplayTtl > now}
      /\ UNCHANGED <<now, boots, account, devices, letters, req, accepted, claimed>>
      /\ invites' = [i \in Invites |->
             IF invites[i].expires <= now \/ invites[i].status = "used"
             THEN NoInvite ELSE invites[i]]
  BY DEF Retention
<1>2. invites' \in [Invites -> Invite]
      /\ \A i \in Invites : invites'[i] = NoInvite \/ invites'[i] = invites[i]
  BY <1>1, RequestTypes DEF IInv, TypeOK
<1>3. TypeOK'
  BY <1>1, <1>2 DEF IInv, TypeOK
<1>4. InviteSpent' /\ RowsNeedAccount'
  BY <1>1, <1>2, RequestTypes DEF IInv, InviteSpent, RowsNeedAccount
<1>5. LetterShape' /\ HandlerShape' /\ SignersKnown' /\ ArrivesInTime' /\ CleansRevoked'
      /\ AccountHasDevice'
  BY <1>1 DEF IInv, LetterShape, HandlerShape, SignersKnown, ArrivesInTime, CleansRevoked,
              AccountHasDevice, Approved, Signed
<1>6. NonceKept'
  <2>1. \A m \in Letters : letters[m].ts + ReplayTtl \in Nat
    BY DeviceRegistryAssumption DEF IInv, TypeOK, Letter
  <2> QED
    BY <1>1, <2>1 DEF IInv, TypeOK, NonceKept, Current, RevokedEarlier, Approved
<1> QED
  BY <1>3, <1>4, <1>5, <1>6 DEF IInv

LEMMA TickKeeps ==
    ASSUME IInv, Tick
    PROVE  IInv'
<1>1. /\ now \in Nat /\ now' = now + 1 /\ now < MaxTime
      /\ \A q \in Requests : req[q].pc = "nonce" => now < req[q].at + Latency
      /\ UNCHANGED <<boots, account, devices, invites, nonces, letters, req, accepted, claimed>>
  BY DeviceRegistryAssumption DEF Tick, At, IInv, TypeOK
<1>2. TypeOK'
  BY <1>1, DeviceRegistryAssumption DEF IInv, TypeOK
<1>3. ArrivesInTime'
  <2>1. \A q \in Requests : req[q].at \in Nat
    BY DEF IInv, TypeOK, Req
  <2> QED
    BY <1>1, <2>1, DeviceRegistryAssumption DEF IInv, ArrivesInTime
<1>4. NonceKept'
  <2>1. \A m \in Letters : letters[m].ts + ReplayTtl \in Nat
    BY DeviceRegistryAssumption DEF IInv, TypeOK, Letter
  <2> QED
    BY <1>1, <2>1 DEF IInv, NonceKept, Current, RevokedEarlier, Approved
<1>5. LetterShape' /\ HandlerShape' /\ InviteSpent' /\ RowsNeedAccount' /\ SignersKnown'
      /\ CleansRevoked' /\ AccountHasDevice'
  BY <1>1 DEF IInv, LetterShape, HandlerShape, InviteSpent, RowsNeedAccount, SignersKnown,
              CleansRevoked, AccountHasDevice, Approved, Signed
<1> QED
  BY <1>2, <1>3, <1>4, <1>5 DEF IInv

-----------------------------------------------------------------------------
(* The theorems *)

LEMMA InitInvariant == Init => IInv
<1> SUFFICES ASSUME Init PROVE IInv
  OBVIOUS
<1>1. /\ \A q \in Requests : req[q].pc = "idle"
      /\ \A m \in Letters : letters[m] = Unsigned /\ accepted[m] = 0
      /\ \A i \in Invites : claimed[i] = {}
      /\ \A d \in Devices : devices[d] = "none"
      /\ ~account /\ boots = 0
      /\ \A i \in Invites : invites[i] = NoInvite
  BY RequestTypes DEF Init
<1>2. TypeOK
  <2>1. /\ letters \in [Letters -> Letter] /\ req \in [Requests -> Req]
        /\ invites \in [Invites -> Invite]
    BY RequestTypes DEF Init
  <2>2. /\ devices \in [Devices -> {"none", "approved", "revoked"}]
        /\ nonces \subseteq Letters /\ claimed \in [Invites -> SUBSET Devices]
        /\ accepted \in [Letters -> 0..2]
    BY DEF Init
  <2>4. account \in BOOLEAN
    BY DEF Init
  <2>3. now \in 0..MaxTime /\ boots \in 0..MaxBootstraps
    BY DeviceRegistryAssumption DEF Init
  <2> QED
    BY <2>1, <2>2, <2>3, <2>4 DEF TypeOK
<1> QED
  BY <1>1, <1>2, RequestTypes
     DEF IInv, LetterShape, HandlerShape, InviteSpent, RowsNeedAccount, SignersKnown,
         ArrivesInTime, CleansRevoked, NonceKept, Current, Approved, AccountHasDevice

\* The invariant is inductive: one step per action.
LEMMA InvariantKept == IInv /\ [Next]_vars => IInv'
<1> SUFFICES ASSUME IInv, [Next]_vars PROVE IInv'
  OBVIOUS
<1>1. ASSUME NEW d \in Devices, Bootstrap(d) PROVE IInv'
  BY <1>1, BootstrapKeeps
<1>2. ASSUME NEW m \in Letters, NEW d \in Devices, NEW op \in Ops,
             NEW t \in Devices \cup {Nobody}, Sign(m, d, op, t)
      PROVE  IInv'
  BY <1>2, SignKeeps
<1>3. ASSUME NEW q \in Requests, Step(q) PROVE IInv'
  <2>1. ASSUME NEW m \in Letters, Arrives(q, m) PROVE IInv'
    <3>1. /\ UNCHANGED <<now, boots, account, devices, invites, nonces, letters, accepted,
                         claimed>>
          /\ Signed(m) /\ now <= letters[m].ts + Skew
      BY <2>1, DeviceRegistryAssumption
         DEF Arrives, Approved, Signed, IInv, TypeOK, Letter
    <3> QED
      BY <2>1, <3>1, HandlerSteps, OnlyHandlerMoves DEF IInv
  <2>2. CASE InsertNonce(q)
    BY <2>2, InsertNonceKeeps
  <2>3. CASE CreateInvite(q)
    BY <2>3, CreateInviteKeeps
  <2>4. CASE RevokeDevice(q)
    BY <2>4, RevokeDeviceKeeps
  <2>5. CASE CleanUp(q)
    BY <2>5, CleanUpKeeps
  <2>6. CASE DeleteAccount(q)
    BY <2>6, DeleteAccountKeeps
  <2>7. ASSUME NEW i \in Invites, NEW d \in Devices, ClaimArrives(q, i, d) PROVE IInv'
    <3>1. UNCHANGED <<now, boots, account, devices, invites, nonces, letters, accepted, claimed>>
      BY <2>7 DEF ClaimArrives
    <3> QED
      BY <2>7, <3>1, HandlerSteps, OnlyHandlerMoves DEF IInv
  <2>8. CASE ApproveDevice(q)
    BY <2>8, ApproveDeviceKeeps
  <2> QED
    BY <1>3, <2>1, <2>2, <2>3, <2>4, <2>5, <2>6, <2>7, <2>8 DEF Step
<1>4. CASE Retention
  BY <1>4, RetentionKeeps
<1>5. CASE Tick
  BY <1>5, TickKeeps
<1>6. CASE UNCHANGED vars
  BY <1>6 DEF vars, IInv, TypeOK, LetterShape, HandlerShape, InviteSpent, RowsNeedAccount,
              SignersKnown, ArrivesInTime, CleansRevoked, NonceKept, AccountHasDevice,
              Current, RevokedEarlier, Approved, Signed
<1> QED
  BY <1>1, <1>2, <1>3, <1>4, <1>5, <1>6 DEF Next

THEOREM Invariant == Spec => []IInv
BY InitInvariant, InvariantKept, PTL DEF Spec

\* The tables of the relay keep their types.
THEOREM TypeCorrect == Spec => []TypeOK
<1>1. IInv => TypeOK
  BY DEF IInv
<1> QED
  BY <1>1, Invariant, PTL

\* An invite approves one device, whoever claims it at once and whatever the hourly
\* task removes meanwhile.
THEOREM InviteIsForOne == Spec => []InviteApprovesOne
<1>1. IInv => InviteApprovesOne
  <2> SUFFICES ASSUME IInv, NEW i \in Invites PROVE Cardinality(claimed[i]) <= 1
    BY DEF InviteApprovesOne
  <2>1. CASE claimed[i] = {}
    BY <2>1, FS_EmptySet
  <2>2. ASSUME NEW d \in Devices, claimed[i] = {d} PROVE Cardinality(claimed[i]) <= 1
    <3>1. Cardinality({d}) = 1
      BY FS_Singleton
    <3> QED
      BY <2>2, <3>1
  <2> QED
    BY <2>1, <2>2 DEF IInv, InviteSpent
<1> QED
  BY <1>1, Invariant, PTL

\* Devices that revoke each other at the same time leave one that can act.
THEOREM AccountKeepsDevice == Spec => []AccountHasDevice
<1>1. IInv => AccountHasDevice
  BY DEF IInv
<1> QED
  BY <1>1, Invariant, PTL

\* No letter is carried out twice: its nonce outlives its timestamp.
THEOREM LetterAcceptedOnce == Spec => []AcceptedOnce
<1>1. IInv => AcceptedOnce
  <2> SUFFICES ASSUME IInv, NEW m \in Letters, accepted[m] = 2,
                      letters[m].by \in Approved, ~(letters[m].boot < boots)
               PROVE  RevokedEarlier(m)
    BY DEF AcceptedOnce
  <2>1. letters[m].boot = boots
    <3>1. letters[m] \in Letter /\ boots \in Nat /\ letters[m].boot <= boots
      BY DeviceRegistryAssumption DEF IInv, TypeOK, LetterShape
    <3>2. letters[m].boot \in Nat
      BY <3>1, DeviceRegistryAssumption DEF Letter
    <3> QED
      BY <3>1, <3>2
  <2> QED
    BY <2>1 DEF IInv, NonceKept, Current
<1> QED
  BY <1>1, Invariant, PTL

\* A revoked device is never approved again while the account exists.
THEOREM RevokedStaysRevoked == Spec => RevokedForGood
<1>1. IInv /\ [Next]_vars =>
         [\A d \in Devices : devices[d] = "revoked" => devices'[d] # "approved"]_vars
  <2> SUFFICES ASSUME IInv, Next, NEW d \in Devices, devices[d] = "revoked"
               PROVE  devices'[d] # "approved"
    OBVIOUS
  <2>1. account /\ devices \in [Devices -> {"none", "approved", "revoked"}]
    BY DEF IInv, TypeOK, RowsNeedAccount
  <2>2. \A e \in Devices : ~Bootstrap(e)
    BY <2>1 DEF Bootstrap
  <2>3. ASSUME NEW q \in Requests, Step(q) PROVE devices'[d] # "approved"
    <3>1. CASE RevokeDevice(q)
      BY <3>1, <2>1 DEF RevokeDevice, Revokes
    <3>2. CASE ApproveDevice(q)
      BY <3>2, <2>1 DEF ApproveDevice, Approves
    <3>3. CASE DeleteAccount(q)
      BY <3>3 DEF DeleteAccount
    <3>4. CASE UNCHANGED devices
      BY <3>4
    <3> QED
      BY <2>3, <3>1, <3>2, <3>3, <3>4
         DEF Step, Arrives, InsertNonce, CreateInvite, InsertsInvite, CleanUp, ClaimArrives
  <2> QED
    BY <2>2, <2>3 DEF Next, Sign, Retention, Tick
<1> QED
  BY <1>1, Invariant, PTL DEF Spec, RevokedForGood
=============================================================================
