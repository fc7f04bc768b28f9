----------------------------- MODULE StreamProofs -----------------------------
(* The stream side, for any number of commands, processes, requests, files   *)
(* and runs: the replay ledger reserves and starts a replay once, a replayed *)
(* record is what it says it is, a producer run that exits with status 0 has *)
(* delivered what it could read, the lifecycle job loses and repeats nothing *)
(* unexplained, and the MDM publisher publishes its authority's plan whole.  *)
EXTENDS LifecycleJob, MdmPublisher, DlqReplay, ReplayLedger, FiniteSetTheorems, SequenceTheorems, TLAPS

-----------------------------------------------------------------------------
(* The ledger.  That an identity is reserved once rests on the write lock:   *)
(* what a client has read is still so when it writes.                        *)

Calling == {"begin", "read", "write"}

AttemptRecords == [id : Identities, req : Requests \cup {"none"}, status : Statuses]

CallRecords ==
  [pc : Calling \cup {"idle"}, kind : {"none", "reserve", "transition"},
   id : Identities \cup {"none"}, req : Requests \cup {"none"},
   to : Targets \cup {"none"}, read : Statuses \cup {"absent", "none"}]

LedgerTypes ==
  /\ ledger \in [DOMAIN ledger -> [status : Statuses, request : Requests]]
  /\ DOMAIN ledger \subseteq Identities
  /\ attempts \in Seq(AttemptRecords)
  /\ call \in [Clients -> CallRecords]
  /\ left \in [Clients -> Nat]
  /\ started \in [Identities -> Nat]

(* A call of reserve has passed its validation; each call has an identity. *)
CallsValid ==
  \A c \in Clients : call[c].pc \in Calling =>
    /\ call[c].kind \in {"reserve", "transition"} /\ call[c].id \in Identities
    /\ call[c].kind = "reserve" =>
         /\ call[c].req \in Requests /\ call[c].req \notin Refused
         /\ call[c].id = IdentityOf[call[c].req]

(* Only the holder of the lock is between BEGIN and COMMIT. *)
LockHeld == \A c \in Clients : call[c].pc \in {"read", "write"} <=> lock = c

(* What the holder has read is what the ledger says. *)
ReadIsCurrent == \A c \in Clients : call[c].pc = "write" => call[c].read = Status(call[c].id)

(* The attempts of an identity: exactly one REQUESTED, by the request in the *)
(* ledger and before all others, once the identity is there.                 *)
AttemptsTrue ==
  /\ \A k \in DOMAIN attempts : attempts[k].id \in DOMAIN ledger
  /\ \A i \in DOMAIN ledger : \E k \in RecordedAs(i, "REQUESTED") :
       /\ attempts[k].req = ledger[i].request
       /\ \A j \in DOMAIN attempts : attempts[j].id = i /\ j # k =>
            j > k /\ attempts[j].status # "REQUESTED"

(* A replay was started once exactly if its status says so. *)
StartedIffStatus ==
  \A i \in Identities :
    started[i] = IF Status(i) \in {"IN_PROGRESS", "SUCCEEDED", "FAILED"} THEN 1 ELSE 0

LedgerInv ==
  /\ LedgerTypes /\ CallsValid /\ LockHeld /\ ReadIsCurrent
  /\ AttemptsTrue /\ StartedIffStatus /\ AnswersTrue

(* An empty ledger with nobody at work. *)
LEMMA LedgerInvInit == LedgerInit => LedgerInv
<1> SUFFICES ASSUME LedgerInit PROVE LedgerInv
  OBVIOUS
<1> USE LedgerAssumption DEF LedgerInit, NoCall
<1>1. LedgerTypes
  BY DEF LedgerTypes, CallRecords, Calling
<1>2. CallsValid /\ LockHeld /\ ReadIsCurrent
  BY DEF CallsValid, LockHeld, ReadIsCurrent, Calling
<1>3. AttemptsTrue /\ StartedIffStatus /\ AnswersTrue
  BY DEF AttemptsTrue, StartedIffStatus, AnswersTrue, Status
<1>4. QED
  BY <1>1, <1>2, <1>3 DEF LedgerInv

(* Every step keeps the types. *)
LEMMA LedgerTypesNext == LedgerInv /\ [LedgerNext]_lvars => LedgerTypes'
<1> SUFFICES ASSUME LedgerInv, [LedgerNext]_lvars PROVE LedgerTypes'
  OBVIOUS
<1> USE DEF LedgerInv, LedgerTypes
<1>0. ASSUME NEW c \in Clients, call' = [call EXCEPT ![c] = NoCall]
      PROVE  call' \in [Clients -> CallRecords]
  <2>1. NoCall \in CallRecords
    BY DEF NoCall, CallRecords
  <2>2. QED
    BY <1>0, <2>1
<1>1. CASE UNCHANGED lvars
  BY <1>1 DEF lvars
<1>2. ASSUME NEW c \in Clients, NEW r \in Requests, Reserve(c, r) PROVE LedgerTypes'
  <2>1. [NoCall EXCEPT !.pc = "begin", !.kind = "reserve", !.id = IdentityOf[r], !.req = r]
          \in CallRecords
    BY DEF NoCall, CallRecords, Calling, Identities
  <2>2. call' \in [Clients -> CallRecords]
    BY <1>2, <2>1 DEF Reserve
  <2>3. left' \in [Clients -> Nat]
    BY <1>2 DEF Reserve
  <2>4. QED
    BY <1>2, <2>2, <2>3 DEF Reserve
<1>3. ASSUME NEW c \in Clients, NEW i \in Identities, NEW to \in Targets, TransitionTo(c, i, to)
      PROVE  LedgerTypes'
  <2>1. [NoCall EXCEPT !.pc = "begin", !.kind = "transition", !.id = i, !.to = to]
          \in CallRecords
    BY DEF NoCall, CallRecords, Calling
  <2>2. call' \in [Clients -> CallRecords]
    BY <1>3, <2>1 DEF TransitionTo
  <2>3. left' \in [Clients -> Nat]
    BY <1>3 DEF TransitionTo
  <2>4. QED
    BY <1>3, <2>2, <2>3 DEF TransitionTo
<1>4. ASSUME NEW c \in Clients, BeginImmediate(c) \/ ReadStatus(c)
      PROVE  LedgerTypes'
  <2>1. Status(call[c].id) \in Statuses \cup {"absent"}
    BY DEF Status
  <2>2. /\ [call[c] EXCEPT !.pc = "read"] \in CallRecords
        /\ [call[c] EXCEPT !.pc = "write", !.read = Status(call[c].id)] \in CallRecords
    <3>1. call[c] \in CallRecords
      OBVIOUS
    <3>2. QED
      BY <2>1, <3>1 DEF CallRecords, Calling
  <2>3. call' \in [Clients -> CallRecords]
    <3>1. call' = [call EXCEPT ![c] = [call[c] EXCEPT !.pc = "read"]]
          \/ call' = [call EXCEPT ![c] = [call[c] EXCEPT !.pc = "write", !.read = Status(call[c].id)]]
      BY <1>4 DEF BeginImmediate, ReadStatus
    <3>2. QED
      BY <2>2, <3>1
  <2>4. QED
    BY <1>4, <2>3 DEF BeginImmediate, ReadStatus
<1>5. ASSUME NEW c \in Clients, Busy(c) \/ Crash(c)
      PROVE  LedgerTypes'
  BY <1>0, <1>5 DEF Busy, Crash, Release
<1>6. ASSUME NEW c \in Clients, Suppress(c) PROVE LedgerTypes'
  <2>1. Attempt(c, "SUPPRESSED_DUPLICATE") \in AttemptRecords
    BY <1>6 DEF Suppress, CallsValid, Attempt, AttemptRecords, Statuses, Calling
  <2>2. attempts' \in Seq(AttemptRecords)
    BY <1>6, <2>1 DEF Suppress
  <2>3. call' \in [Clients -> CallRecords]
    BY <1>0, <1>6 DEF Suppress, Release
  <2>4. QED
    BY <1>6, <2>2, <2>3 DEF Suppress
<1>7. ASSUME NEW c \in Clients, Insert(c) PROVE LedgerTypes'
  <2>1. call[c].id \in Identities /\ call[c].req \in Requests
    BY <1>7 DEF Insert, CallsValid, Calling
  <2>2. Attempt(c, "REQUESTED") \in AttemptRecords
    BY <2>1 DEF Attempt, AttemptRecords, Statuses
  <2>3. /\ WithRow(c) \in [DOMAIN WithRow(c) -> [status : Statuses, request : Requests]]
        /\ DOMAIN WithRow(c) \subseteq Identities
    BY <2>1 DEF WithRow, Statuses
  <2>4. attempts' \in Seq(AttemptRecords)
    <3>1. attempts' = attempts \/ attempts' = Append(attempts, Attempt(c, "REQUESTED"))
      BY <1>7 DEF Insert
    <3>2. Append(attempts, Attempt(c, "REQUESTED")) \in Seq(AttemptRecords)
      BY <2>2
    <3>3. QED
      BY <3>1, <3>2
  <2>5. call' \in [Clients -> CallRecords]
    BY <1>0, <1>7 DEF Insert, Release
  <2>6. /\ ledger' \in [DOMAIN ledger' -> [status : Statuses, request : Requests]]
        /\ DOMAIN ledger' \subseteq Identities
    <3>1. ledger' = ledger \/ ledger' = WithRow(c)
      BY <1>7 DEF Insert
    <3>2. QED
      BY <2>3, <3>1
  <2>7. QED
    BY <1>7, <2>4, <2>5, <2>6 DEF Insert
<1>8. ASSUME NEW c \in Clients, Update(c) PROVE LedgerTypes'
  <2>1. call[c].id \in Identities
    BY <1>8 DEF Update, CallsValid, Calling
  <2>2. CASE UNCHANGED <<ledger, started>>
    BY <1>0, <1>8, <2>2 DEF Update, Release
  <2>3. CASE /\ call[c].read # "absent" /\ call[c].to \in Allowed(call[c].read)
             /\ ledger' = [ledger EXCEPT ![call[c].id].status = call[c].to]
             /\ started' = [started EXCEPT ![call[c].id] =
                              IF call[c].to = "IN_PROGRESS" THEN @ + 1 ELSE @]
    <3>1. call[c].to \in Statuses
      BY <2>3 DEF Allowed, Statuses
    <3>2. /\ ledger' \in [DOMAIN ledger' -> [status : Statuses, request : Requests]]
          /\ DOMAIN ledger' \subseteq Identities
      BY <2>3, <3>1
    <3>3. started' \in [Identities -> Nat]
      BY <2>1, <2>3
    <3>4. QED
      BY <1>0, <1>8, <3>2, <3>3 DEF Update, Release
  <2>4. QED
    BY <1>8, <2>2, <2>3 DEF Update
<1>9. QED
  BY <1>1, <1>2, <1>3, <1>4, <1>5, <1>6, <1>7, <1>8 DEF LedgerNext, LedgerStep

ReserveCall(r) ==
  [NoCall EXCEPT !.pc = "begin", !.kind = "reserve", !.id = IdentityOf[r], !.req = r]

TransitionCall(id, to) ==
  [NoCall EXCEPT !.pc = "begin", !.kind = "transition", !.id = id, !.to = to]

(* The steps of a client, with what becomes of its call. *)
CallStep(c) ==
  \/ \E r \in Requests : Reserve(c, r) /\ call'[c] = IF r \in Refused THEN call[c] ELSE ReserveCall(r)
  \/ \E id \in Identities, to \in Targets : TransitionTo(c, id, to) /\ call'[c] = TransitionCall(id, to)
  \/ BeginImmediate(c) /\ call'[c] = [call[c] EXCEPT !.pc = "read"]
  \/ ReadStatus(c) /\ call'[c] = [call[c] EXCEPT !.pc = "write", !.read = Status(call[c].id)]
  \/ (Busy(c) \/ Crash(c) \/ Suppress(c) \/ Insert(c) \/ Update(c)) /\ call'[c] = NoCall

(* A step is one client's, and leaves the calls of the others alone. *)
LEMMA OneClient ==
  ASSUME LedgerInv, [LedgerNext]_lvars, ~ UNCHANGED lvars
  PROVE  \E c \in Clients : CallStep(c) /\ \A d \in Clients \ {c} : call'[d] = call[d]
<1>0. PICK c \in Clients : \/ \E r \in Requests : Reserve(c, r)
                           \/ \E id \in Identities, to \in Targets : TransitionTo(c, id, to)
                           \/ LedgerStep(c) \/ Crash(c)
  BY Zenon DEF LedgerNext
<1>1. call \in [Clients -> CallRecords]
  BY DEF LedgerInv, LedgerTypes
<1> SUFFICES CallStep(c) /\ \A d \in Clients \ {c} : call'[d] = call[d]
  OBVIOUS
<1>2. CASE \E r \in Requests : Reserve(c, r)
  BY <1>1, <1>2 DEF Reserve, CallStep, ReserveCall
<1>3. CASE \E id \in Identities, to \in Targets : TransitionTo(c, id, to)
  BY <1>1, <1>3 DEF TransitionTo, CallStep, TransitionCall
<1>4. CASE BeginImmediate(c)
  BY <1>1, <1>4 DEF BeginImmediate, CallStep
<1>5. CASE ReadStatus(c)
  BY <1>1, <1>5 DEF ReadStatus, CallStep
<1>6. CASE Busy(c) \/ Crash(c) \/ Suppress(c) \/ Insert(c) \/ Update(c)
  <2>1. call' = [call EXCEPT ![c] = NoCall]
    BY <1>6 DEF Busy, Crash, Suppress, Insert, Update, Release
  <2>2. QED
    BY <1>1, <1>6, <2>1 DEF CallStep
<1>7. QED
  BY <1>0, <1>2, <1>3, <1>4, <1>5, <1>6 DEF LedgerStep

(* What a call is about does not change while it runs. *)
LEMMA CallsValidNext == LedgerInv /\ [LedgerNext]_lvars => CallsValid'
<1> SUFFICES ASSUME LedgerInv, [LedgerNext]_lvars PROVE CallsValid'
  OBVIOUS
<1>0. CallsValid /\ call \in [Clients -> CallRecords]
  BY DEF LedgerInv, LedgerTypes
<1>1. CASE UNCHANGED lvars
  BY <1>0, <1>1 DEF CallsValid, lvars
<1>2. CASE ~ UNCHANGED lvars
  <2>1. PICK c \in Clients : CallStep(c) /\ \A d \in Clients \ {c} : call'[d] = call[d]
    BY <1>2, OneClient
  <2>2. SUFFICES ASSUME call'[c].pc \in Calling
                 PROVE  /\ call'[c].kind \in {"reserve", "transition"} /\ call'[c].id \in Identities
                        /\ call'[c].kind = "reserve" =>
                             /\ call'[c].req \in Requests /\ call'[c].req \notin Refused
                             /\ call'[c].id = IdentityOf[call'[c].req]
    BY <1>0, <2>1 DEF CallsValid
  <2>3. ASSUME NEW r \in Requests, call'[c] = IF r \in Refused THEN call[c] ELSE ReserveCall(r),
               Reserve(c, r)
        PROVE  r \notin Refused /\ call'[c] = ReserveCall(r)
    BY <2>2, <2>3 DEF Reserve, Calling
  <2>4. ASSUME NEW r \in Requests, r \notin Refused, call'[c] = ReserveCall(r)
        PROVE  /\ call'[c].kind = "reserve" /\ call'[c].id = IdentityOf[r]
               /\ call'[c].req = r /\ IdentityOf[r] \in Identities
    BY <2>4 DEF ReserveCall, NoCall, Identities
  <2>5. ASSUME NEW id \in Identities, NEW to \in Targets, call'[c] = TransitionCall(id, to)
        PROVE  call'[c].kind = "transition" /\ call'[c].id = id
    BY <2>5 DEF TransitionCall, NoCall
  <2>6. ASSUME call[c].pc \in Calling,
               \/ call'[c] = [call[c] EXCEPT !.pc = "read"]
               \/ call'[c] = [call[c] EXCEPT !.pc = "write", !.read = Status(call[c].id)]
        PROVE  /\ call'[c].kind = call[c].kind /\ call'[c].id = call[c].id
               /\ call'[c].req = call[c].req
    <3>1. call[c] \in CallRecords
      BY <1>0
    <3>2. QED
      BY <2>6, <3>1 DEF CallRecords
  <2>7. call'[c] # NoCall
    BY <2>2 DEF NoCall, Calling
  <2>8. QED
    BY <1>0, <2>1, <2>3, <2>4, <2>5, <2>6, <2>7 DEF CallStep, CallsValid, BeginImmediate, ReadStatus, Calling
<1>3. QED
  BY <1>1, <1>2

(* BEGIN IMMEDIATE takes a free lock, and whoever leaves gives it back. *)
LEMMA LockHeldNext == LedgerInv /\ [LedgerNext]_lvars => LockHeld'
<1> SUFFICES ASSUME LedgerInv, [LedgerNext]_lvars PROVE LockHeld'
  OBVIOUS
<1>0. LockHeld /\ call \in [Clients -> CallRecords]
  BY DEF LedgerInv, LedgerTypes
<1>1. CASE UNCHANGED lvars
  BY <1>0, <1>1 DEF LockHeld, lvars
<1>2. CASE ~ UNCHANGED lvars
  <2>1. PICK c \in Clients : CallStep(c) /\ \A d \in Clients \ {c} : call'[d] = call[d]
    BY <1>2, OneClient
  <2>2. call[c] \in CallRecords
    BY <1>0
  <2>3. ASSUME NEW r \in Requests, Reserve(c, r), call'[c] = IF r \in Refused THEN call[c] ELSE ReserveCall(r)
        PROVE  LockHeld'
    <3>1. call'[c].pc \in {"idle", "begin"} /\ call[c].pc = "idle" /\ lock' = lock
      BY <2>3 DEF Reserve, ReserveCall, NoCall
    <3>2. QED
      BY <1>0, <2>1, <3>1 DEF LockHeld
  <2>4. ASSUME NEW id \in Identities, NEW to \in Targets,
               TransitionTo(c, id, to), call'[c] = TransitionCall(id, to)
        PROVE  LockHeld'
    <3>1. call'[c].pc = "begin" /\ call[c].pc = "idle" /\ lock' = lock
      BY <2>4 DEF TransitionTo, TransitionCall, NoCall
    <3>2. QED
      BY <1>0, <2>1, <3>1 DEF LockHeld
  <2>5. ASSUME BeginImmediate(c), call'[c] = [call[c] EXCEPT !.pc = "read"]
        PROVE  LockHeld'
    <3>1. call'[c].pc = "read" /\ lock = "none" /\ lock' = c
      BY <2>2, <2>5 DEF BeginImmediate, CallRecords
    <3>2. QED
      BY <1>0, <2>1, <3>1, LedgerAssumption DEF LockHeld
  <2>6. ASSUME ReadStatus(c), call'[c] = [call[c] EXCEPT !.pc = "write", !.read = Status(call[c].id)]
        PROVE  LockHeld'
    <3>1. call'[c].pc = "write" /\ call[c].pc = "read" /\ lock' = lock
      BY <2>2, <2>6 DEF ReadStatus, CallRecords
    <3>2. QED
      BY <1>0, <2>1, <3>1 DEF LockHeld
  <2>7. ASSUME Busy(c) \/ Crash(c) \/ Suppress(c) \/ Insert(c) \/ Update(c), call'[c] = NoCall
        PROVE  LockHeld'
    <3>1. call'[c].pc = "idle"
      BY <2>7 DEF NoCall
    <3>2. (lock' = lock /\ call[c].pc = "begin") \/ lock' = IF lock = c THEN "none" ELSE lock
      BY <2>7 DEF Busy, Crash, Suppress, Insert, Update, Release
    <3>3. QED
      BY <1>0, <2>1, <3>1, <3>2, LedgerAssumption DEF LockHeld
  <2>8. QED
    BY <2>1, <2>3, <2>4, <2>5, <2>6, <2>7, Zenon DEF CallStep
<1>3. QED
  BY <1>1, <1>2

(* Whoever writes the ledger holds the lock, and nobody else has read. *)
LEMMA ReadIsCurrentNext == LedgerInv /\ [LedgerNext]_lvars => ReadIsCurrent'
<1> SUFFICES ASSUME LedgerInv, [LedgerNext]_lvars PROVE ReadIsCurrent'
  OBVIOUS
<1>0. LockHeld /\ ReadIsCurrent /\ call \in [Clients -> CallRecords]
  BY DEF LedgerInv, LedgerTypes
<1>1. CASE UNCHANGED lvars
  BY <1>0, <1>1 DEF ReadIsCurrent, Status, lvars
<1>2. CASE ~ UNCHANGED lvars
  <2>1. PICK c \in Clients : CallStep(c) /\ \A d \in Clients \ {c} : call'[d] = call[d]
    BY <1>2, OneClient
  <2>2. SUFFICES ASSUME NEW d \in Clients, call'[d].pc = "write"
                 PROVE  call'[d].read = Status(call[d].id)'
    BY DEF ReadIsCurrent
  <2>3. CASE d = c
    <3>1. call[c] \in CallRecords
      BY <1>0
    <3>2. call'[c].pc = "write" /\ NoCall.pc = "idle"
      BY <2>2, <2>3 DEF NoCall
    <3>3. /\ \A r \in Requests : ReserveCall(r).pc = "begin"
          /\ \A id \in Identities, to \in Targets : TransitionCall(id, to).pc = "begin"
          /\ [call[c] EXCEPT !.pc = "read"].pc = "read"
      BY <3>1 DEF ReserveCall, TransitionCall, NoCall, CallRecords
    <3>4. ~ \E r \in Requests : Reserve(c, r) /\ call'[c] = IF r \in Refused THEN call[c] ELSE ReserveCall(r)
      <4>1. \A r \in Requests : Reserve(c, r) => call[c].pc = "idle"
        BY DEF Reserve
      <4>2. QED
        BY <3>2, <3>3, <4>1
    <3>5. ReadStatus(c) /\ call'[c] = [call[c] EXCEPT !.pc = "write", !.read = Status(call[c].id)]
      BY <2>1, <3>2, <3>3, <3>4 DEF CallStep
    <3>6. call'[c].read = Status(call[c].id) /\ call'[c].id = call[c].id
      BY <3>1, <3>5 DEF CallRecords
    <3>7. ledger' = ledger
      BY <3>5 DEF ReadStatus
    <3>8. QED
      BY <2>3, <3>6, <3>7 DEF Status
  <2>4. CASE d # c
    <3>1. call'[d] = call[d] /\ call[d].read = Status(call[d].id)
      BY <1>0, <2>1, <2>2, <2>4 DEF ReadIsCurrent
    <3>2. call[c].pc # "write"
      BY <1>0, <2>2, <2>4, <3>1 DEF LockHeld
    <3>3. ledger' = ledger
      BY <2>1, <3>2 DEF CallStep, Reserve, TransitionTo, BeginImmediate, Busy, ReadStatus,
                        Crash, Suppress, Insert, Update
    <3>4. QED
      BY <3>1, <3>3 DEF Status
  <2>5. QED
    BY <2>3, <2>4
<1>3. QED
  BY <1>1, <1>2

(* Of the steps Insert and Update alone change the ledger, Suppress and      *)
(* Insert the attempts; and what Insert and Update find is what c has read.  *)
LEMMA LedgerWrites ==
  ASSUME LedgerInv, [LedgerNext]_lvars, <<ledger, attempts, started>>' # <<ledger, attempts, started>>
  PROVE  \E c \in Clients :
           /\ call[c].pc = "write" /\ call[c].id \in Identities
           /\ call[c].read = Status(call[c].id)
           /\ call[c] \in CallRecords
           /\ Suppress(c) \/ Insert(c) \/ Update(c)
<1>0. CallsValid /\ ReadIsCurrent /\ call \in [Clients -> CallRecords]
  BY DEF LedgerInv, LedgerTypes
<1>1. ~ UNCHANGED lvars
  BY DEF lvars
<1>2. PICK c \in Clients : CallStep(c)
  BY <1>1, OneClient
<1>3. Suppress(c) \/ Insert(c) \/ Update(c)
  BY <1>2 DEF CallStep, Reserve, TransitionTo, BeginImmediate, Busy, ReadStatus, Crash
<1>4. call[c].pc = "write"
  BY <1>3 DEF Suppress, Insert, Update
<1>5. QED
  BY <1>0, <1>3, <1>4 DEF CallsValid, ReadIsCurrent, Calling

(* The attempt of a suppressed request comes after the one that reserved the *)
(* identity; a new identity has no attempt before its first.                 *)
LEMMA AttemptsTrueNext == LedgerInv /\ [LedgerNext]_lvars => AttemptsTrue'
<1> SUFFICES ASSUME LedgerInv, [LedgerNext]_lvars PROVE AttemptsTrue'
  OBVIOUS
<1>0. /\ AttemptsTrue /\ DOMAIN ledger \subseteq Identities
      /\ ledger \in [DOMAIN ledger -> [status : Statuses, request : Requests]]
      /\ attempts \in Seq(AttemptRecords)
  BY DEF LedgerInv, LedgerTypes
<1>1. CASE <<ledger, attempts, started>>' = <<ledger, attempts, started>>
  BY <1>0, <1>1 DEF AttemptsTrue, RecordedAs
<1>2. CASE <<ledger, attempts, started>>' # <<ledger, attempts, started>>
  <2>1. PICK c \in Clients : /\ call[c].id \in Identities
                             /\ call[c].read = Status(call[c].id)
                             /\ call[c] \in CallRecords
                             /\ Suppress(c) \/ Insert(c) \/ Update(c)
    BY <1>2, LedgerWrites
  <2> DEFINE n == Len(attempts) + 1
  <2>2. n \in Nat /\ n \notin DOMAIN attempts /\ DOMAIN attempts \subseteq 1 .. Len(attempts)
    BY <1>0
  <2>3. ASSUME NEW a, attempts' = Append(attempts, a)
        PROVE  /\ DOMAIN attempts' = DOMAIN attempts \cup {n}
               /\ attempts'[n] = a
               /\ \A k \in DOMAIN attempts : attempts'[k] = attempts[k] /\ k \in Nat /\ k < n
    BY <1>0, <2>3
  <2>4. CASE Suppress(c)
    <3>1. attempts' = Append(attempts, Attempt(c, "SUPPRESSED_DUPLICATE")) /\ ledger' = ledger
      BY <2>4 DEF Suppress
    <3>2. call[c].id \in DOMAIN ledger
      BY <2>1, <2>4 DEF Suppress, Status
    <3>3. /\ attempts'[n].id = call[c].id /\ attempts'[n].status = "SUPPRESSED_DUPLICATE"
          /\ DOMAIN attempts' = DOMAIN attempts \cup {n}
          /\ \A k \in DOMAIN attempts : attempts'[k] = attempts[k] /\ k \in Nat /\ k < n
      BY <2>3, <3>1 DEF Attempt
    <3>4. \A k \in DOMAIN attempts' : attempts'[k].id \in DOMAIN ledger'
      BY <1>0, <3>1, <3>2, <3>3 DEF AttemptsTrue
    <3>5. ASSUME NEW i \in DOMAIN ledger
          PROVE  \E k \in DOMAIN attempts' :
                   /\ attempts'[k].id = i /\ attempts'[k].status = "REQUESTED"
                   /\ attempts'[k].req = ledger[i].request
                   /\ \A j \in DOMAIN attempts' : attempts'[j].id = i /\ j # k =>
                        j > k /\ attempts'[j].status # "REQUESTED"
      <4>1. PICK k \in DOMAIN attempts :
                   /\ attempts[k].id = i /\ attempts[k].status = "REQUESTED"
                   /\ attempts[k].req = ledger[i].request
                   /\ \A j \in DOMAIN attempts : attempts[j].id = i /\ j # k =>
                        j > k /\ attempts[j].status # "REQUESTED"
        BY <1>0 DEF AttemptsTrue, RecordedAs
      <4>2. QED
        BY <3>3, <4>1
    <3>6. QED
      BY <3>1, <3>4, <3>5 DEF AttemptsTrue, RecordedAs
  <2>5. CASE Insert(c)
    <3>1. CASE UNCHANGED <<ledger, attempts>>
      BY <1>0, <3>1 DEF AttemptsTrue, RecordedAs
    <3>2. CASE /\ call[c].id \notin DOMAIN ledger /\ ledger' = WithRow(c)
               /\ attempts' = Append(attempts, Attempt(c, "REQUESTED"))
      <4>1. /\ attempts'[n].id = call[c].id /\ attempts'[n].status = "REQUESTED"
            /\ attempts'[n].req = call[c].req
            /\ DOMAIN attempts' = DOMAIN attempts \cup {n}
            /\ \A k \in DOMAIN attempts : attempts'[k] = attempts[k] /\ k \in Nat /\ k < n
        BY <2>3, <3>2 DEF Attempt
      <4>2. /\ DOMAIN ledger' = DOMAIN ledger \cup {call[c].id}
            /\ ledger'[call[c].id].request = call[c].req
            /\ \A i \in DOMAIN ledger : ledger'[i] = ledger[i]
        BY <3>2 DEF WithRow
      <4>3. \A k \in DOMAIN attempts : attempts[k].id # call[c].id
        BY <1>0, <3>2 DEF AttemptsTrue
      <4>4. \A k \in DOMAIN attempts' : attempts'[k].id \in DOMAIN ledger'
        BY <1>0, <4>1, <4>2 DEF AttemptsTrue
      <4>5. ASSUME NEW i \in DOMAIN ledger'
            PROVE  \E k \in DOMAIN attempts' :
                     /\ attempts'[k].id = i /\ attempts'[k].status = "REQUESTED"
                     /\ attempts'[k].req = ledger'[i].request
                     /\ \A j \in DOMAIN attempts' : attempts'[j].id = i /\ j # k =>
                          j > k /\ attempts'[j].status # "REQUESTED"
        <5>1. CASE i = call[c].id
          BY <4>1, <4>2, <4>3, <5>1
        <5>2. CASE i # call[c].id
          <6>1. i \in DOMAIN ledger
            BY <4>2, <5>2
          <6>2. PICK k \in DOMAIN attempts :
                     /\ attempts[k].id = i /\ attempts[k].status = "REQUESTED"
                     /\ attempts[k].req = ledger[i].request
                     /\ \A j \in DOMAIN attempts : attempts[j].id = i /\ j # k =>
                          j > k /\ attempts[j].status # "REQUESTED"
            BY <1>0, <6>1 DEF AttemptsTrue, RecordedAs
          <6>3. QED
            BY <4>1, <4>2, <5>2, <6>1, <6>2
        <5>3. QED
          BY <5>1, <5>2
      <4>6. QED
        BY <4>4, <4>5 DEF AttemptsTrue, RecordedAs
    <3>3. QED
      BY <2>5, <3>1, <3>2 DEF Insert
  <2>6. CASE Update(c)
    <3>1. /\ DOMAIN ledger' = DOMAIN ledger /\ attempts' = attempts
          /\ \A i \in DOMAIN ledger : ledger'[i].request = ledger[i].request
      BY <1>0, <2>6 DEF Update
    <3>2. QED
      BY <1>0, <3>1 DEF AttemptsTrue, RecordedAs
  <2>7. QED
    BY <2>1, <2>4, <2>5, <2>6
<1>3. QED
  BY <1>1, <1>2

(* IN_PROGRESS is reached from APPROVED alone, and nothing leads back. *)
LEMMA StartedIffStatusNext == LedgerInv /\ [LedgerNext]_lvars => StartedIffStatus'
<1> SUFFICES ASSUME LedgerInv, [LedgerNext]_lvars PROVE StartedIffStatus'
  OBVIOUS
<1>0. /\ StartedIffStatus /\ DOMAIN ledger \subseteq Identities /\ started \in [Identities -> Nat]
      /\ ledger \in [DOMAIN ledger -> [status : Statuses, request : Requests]]
  BY DEF LedgerInv, LedgerTypes
<1>1. CASE <<ledger, attempts, started>>' = <<ledger, attempts, started>>
  BY <1>0, <1>1 DEF StartedIffStatus, Status
<1>2. CASE <<ledger, attempts, started>>' # <<ledger, attempts, started>>
  <2>1. PICK c \in Clients : /\ call[c].id \in Identities
                             /\ call[c].read = Status(call[c].id)
                             /\ call[c] \in CallRecords
                             /\ Suppress(c) \/ Insert(c) \/ Update(c)
    BY <1>2, LedgerWrites
  <2>2. CASE UNCHANGED <<ledger, started>>
    BY <1>0, <2>2 DEF StartedIffStatus, Status
  <2>3. CASE call[c].id \notin DOMAIN ledger /\ ledger' = WithRow(c) /\ started' = started
    <3>1. /\ DOMAIN ledger' = DOMAIN ledger \cup {call[c].id}
          /\ ledger'[call[c].id].status = "REQUESTED"
          /\ \A i \in DOMAIN ledger : ledger'[i] = ledger[i]
      BY <2>3 DEF WithRow
    <3>2. QED
      BY <1>0, <2>1, <2>3, <3>1 DEF StartedIffStatus, Status
  <2>4. CASE /\ call[c].read # "absent" /\ call[c].to \in Allowed(call[c].read)
             /\ ledger' = [ledger EXCEPT ![call[c].id].status = call[c].to]
             /\ started' = [started EXCEPT ![call[c].id] =
                              IF call[c].to = "IN_PROGRESS" THEN @ + 1 ELSE @]
    <3>1. call[c].id \in DOMAIN ledger /\ ledger[call[c].id].status = call[c].read
      BY <2>1, <2>4 DEF Status
    <3>2. /\ DOMAIN ledger' = DOMAIN ledger /\ ledger'[call[c].id].status = call[c].to
          /\ \A i \in DOMAIN ledger \ {call[c].id} : ledger'[i] = ledger[i]
      BY <1>0, <2>4, <3>1
    <3>3. \A i \in Identities \ {call[c].id} : started'[i] = started[i] /\ Status(i)' = Status(i)
      BY <1>0, <2>4, <3>2 DEF Status
    <3>4. /\ Status(call[c].id) = call[c].read
          /\ started'[call[c].id] = IF call[c].to = "IN_PROGRESS" THEN started[call[c].id] + 1
                                    ELSE started[call[c].id]
      BY <1>0, <2>1, <2>4, <3>1, <3>2 DEF Status
    <3>5. started'[call[c].id] =
            IF call[c].to \in {"IN_PROGRESS", "SUCCEEDED", "FAILED"} THEN 1 ELSE 0
      <4>1. started[call[c].id] =
              IF call[c].read \in {"IN_PROGRESS", "SUCCEEDED", "FAILED"} THEN 1 ELSE 0
        BY <1>0, <2>1, <3>4 DEF StartedIffStatus
      <4>2. \/ call[c].read = "REQUESTED" /\ call[c].to \in {"APPROVED", "BLOCKED_POLICY", "SUPPRESSED_DUPLICATE"}
            \/ call[c].read = "APPROVED" /\ call[c].to \in {"IN_PROGRESS", "BLOCKED_POLICY"}
            \/ call[c].read = "IN_PROGRESS" /\ call[c].to \in {"SUCCEEDED", "FAILED"}
        BY <2>4 DEF Allowed
      <4>3. QED
        BY <3>4, <4>1, <4>2
    <3>6. SUFFICES ASSUME NEW i \in Identities
                   PROVE  started'[i] =
                            IF Status(i)' \in {"IN_PROGRESS", "SUCCEEDED", "FAILED"} THEN 1 ELSE 0
      BY DEF StartedIffStatus
    <3>7. CASE i = call[c].id
      <4>1. Status(i)' = call[c].to
        BY <3>1, <3>2, <3>7 DEF Status
      <4>2. QED
        BY <3>5, <3>7, <4>1
    <3>8. CASE i # call[c].id
      BY <1>0, <3>3, <3>8 DEF StartedIffStatus
    <3>9. QED
      BY <3>7, <3>8
  <2>5. QED
    BY <2>1, <2>2, <2>3, <2>4 DEF Suppress, Insert, Update
<1>3. QED
  BY <1>1, <1>2

(* An answer is given with the row it speaks of, which keeps its request. *)
LEMMA AnswersTrueNext == LedgerInv /\ [LedgerNext]_lvars => AnswersTrue'
<1> SUFFICES ASSUME LedgerInv, [LedgerNext]_lvars PROVE AnswersTrue'
  OBVIOUS
<1>0. /\ AnswersTrue /\ CallsValid
      /\ ledger \in [DOMAIN ledger -> [status : Statuses, request : Requests]]
  BY DEF LedgerInv, LedgerTypes
<1>1. CASE UNCHANGED lvars
  BY <1>0, <1>1 DEF AnswersTrue, lvars
<1>2. CASE ~ UNCHANGED lvars
  <2>1. PICK c \in Clients : CallStep(c)
    BY <1>2, OneClient
  <2>2. ASSUME ledger' = ledger, \A r \in Requests : <<r, "reserved">> \in answers' => <<r, "reserved">> \in answers
        PROVE  AnswersTrue'
    BY <1>0, <2>2 DEF AnswersTrue
  <2>3. CASE Insert(c) /\ ledger' = WithRow(c) /\ call[c].id \notin DOMAIN ledger
             /\ answers' = answers \cup {<<call[c].req, "reserved">>}
    <3>1. call[c].req \in Requests \ Refused /\ call[c].id = IdentityOf[call[c].req]
      BY <1>0, <2>3 DEF Insert, CallsValid, Calling
    <3>2. /\ DOMAIN ledger' = DOMAIN ledger \cup {call[c].id}
          /\ ledger'[call[c].id].request = call[c].req
          /\ \A i \in DOMAIN ledger : ledger'[i] = ledger[i]
      BY <2>3 DEF WithRow
    <3>3. \A r \in Requests : <<r, "reserved">> \in answers' => <<r, "reserved">> \in answers \/ r = call[c].req
      BY <2>3
    <3>4. QED
      BY <1>0, <2>3, <3>1, <3>2, <3>3 DEF AnswersTrue
  <2>4. CASE Update(c)
    <3>1. /\ DOMAIN ledger' = DOMAIN ledger /\ answers' = answers
          /\ \A i \in DOMAIN ledger : ledger'[i].request = ledger[i].request
      BY <1>0, <2>4 DEF Update
    <3>2. QED
      BY <1>0, <3>1 DEF AnswersTrue
  <2>5. CASE Suppress(c)
    BY <2>2, <2>5 DEF Suppress
  <2>6. CASE Insert(c) /\ UNCHANGED <<ledger, attempts>> /\ answers' = answers \cup {<<call[c].req, "suppressed">>}
    BY <2>2, <2>6
  <2>7. CASE BeginImmediate(c) \/ ReadStatus(c) \/ Busy(c) \/ Crash(c)
    BY <2>2, <2>7 DEF BeginImmediate, ReadStatus, Busy, Crash
  <2>8. CASE (\E r \in Requests : Reserve(c, r)) \/ \E id \in Identities, to \in Targets : TransitionTo(c, id, to)
    <3>1. ledger' = ledger
      BY <2>8 DEF Reserve, TransitionTo
    <3>2. answers' = answers \/ \E r \in Requests : answers' = answers \cup {<<r, "refused">>}
      BY <2>8 DEF Reserve, TransitionTo
    <3>3. QED
      BY <2>2, <3>1, <3>2
  <2>9. QED
    <3>1. ASSUME Insert(c)
          PROVE  \/ ledger' = WithRow(c) /\ call[c].id \notin DOMAIN ledger
                    /\ answers' = answers \cup {<<call[c].req, "reserved">>}
                 \/ UNCHANGED <<ledger, attempts>> /\ answers' = answers \cup {<<call[c].req, "suppressed">>}
      BY <3>1 DEF Insert
    <3>2. QED
      BY <2>1, <2>3, <2>4, <2>5, <2>6, <2>7, <2>8, <3>1, Zenon DEF CallStep
<1>3. QED
  BY <1>1, <1>2

(* replay_ledger.py, LedgerInv: the calls in flight, the lock, the rows, the *)
(* attempts and the answers agree in every reachable state.                  *)
THEOREM LedgerInvariantHolds == LedgerSpec => []LedgerInv
<1>1. LedgerInv /\ [LedgerNext]_lvars => LedgerInv'
  BY LedgerTypesNext, CallsValidNext, LockHeldNext, ReadIsCurrentNext, AttemptsTrueNext,
     StartedIffStatusNext, AnswersTrueNext DEF LedgerInv
<1>2. QED
  BY LedgerInvInit, <1>1, PTL DEF LedgerSpec

(* An identity in the ledger has one attempt that reserved it. *)
LEMMA ReservedOnceFollows == LedgerInv => ReservedOnce
<1> SUFFICES ASSUME LedgerInv, NEW i \in Identities
             PROVE  /\ Cardinality(RecordedAs(i, "REQUESTED")) = IF i \in DOMAIN ledger THEN 1 ELSE 0
                    /\ \A k \in RecordedAs(i, "REQUESTED") :
                         /\ attempts[k].req = ledger[i].request
                         /\ \A j \in RecordedAs(i, "SUPPRESSED_DUPLICATE") : j > k
  BY DEF ReservedOnce
<1>0. AttemptsTrue
  BY DEF LedgerInv
<1>1. CASE i \notin DOMAIN ledger
  <2>1. RecordedAs(i, "REQUESTED") = {}
    BY <1>0, <1>1 DEF AttemptsTrue, RecordedAs
  <2>2. QED
    BY <1>1, <2>1, FS_EmptySet
<1>2. CASE i \in DOMAIN ledger
  <2>1. PICK k \in RecordedAs(i, "REQUESTED") :
          /\ attempts[k].req = ledger[i].request
          /\ \A j \in DOMAIN attempts : attempts[j].id = i /\ j # k =>
               j > k /\ attempts[j].status # "REQUESTED"
    BY <1>0, <1>2 DEF AttemptsTrue
  <2>2. RecordedAs(i, "REQUESTED") = {k}
    BY <2>1 DEF RecordedAs
  <2>3. Cardinality({k}) = 1
    BY FS_Singleton
  <2>4. \A j \in RecordedAs(i, "SUPPRESSED_DUPLICATE") : j > k
    BY <2>1 DEF RecordedAs
  <2>5. QED
    BY <1>2, <2>1, <2>2, <2>3, <2>4
<1>3. QED
  BY <1>1, <1>2

(* replay_ledger.py, reserve and transition: for any processes, requests and *)
(* number of calls, an identity is reserved once and started once, and the   *)
(* answers agree with the rows.                                              *)
THEOREM LedgerOnceHolds == LedgerSpec => []LedgerOnce
<1>1. LedgerInv => LedgerTypeOK
  BY DEF LedgerInv, LedgerTypes, LedgerTypeOK, LockHeld
<1>2. LedgerInv => StartedOnce
  BY DEF LedgerInv, StartedIffStatus, StartedOnce
<1>3. LedgerInv => LedgerOnce
  BY <1>1, <1>2, ReservedOnceFollows DEF LedgerInv, LedgerOnce
<1>4. QED
  BY LedgerInvariantHolds, <1>3, PTL

-----------------------------------------------------------------------------
(* The command that replays from the DLQ.  What it decided rests on a scan   *)
(* that may be old: envelopes are only ever added to the DLQ, and records to *)
(* the topic.                                                                *)

Replaying == {"scan", "decide", "produce"}

SourceRecords == [payload : Payloads, from : Nat]

CmdRecords ==
  [pc : Replaying \cup {"idle", "exited"}, at : Nat, seen : SUBSET Nat, whole : BOOLEAN,
   before : Nat, execute : BOOLEAN, allow : BOOLEAN, injected : Nat, exit : {0, 1, 2, 3, 9}]

ReplayTypes ==
  /\ source \in Seq(SourceRecords) /\ dlq \in Seq(Nat)
  /\ committed \in Nat /\ acked \in BOOLEAN
  /\ cmd \in [Commands -> CmdRecords]

(* The consumer is within the topic, and so are the envelopes. *)
ConsumerWithin ==
  /\ committed <= Len(source) /\ (acked => committed < Len(source))
  /\ \A k \in DOMAIN dlq : dlq[k] \in 1 .. Len(source)

(* What a command knows about the record it was given. *)
CmdTrue(o) ==
  /\ cmd[o].at \in 0 .. Len(source)
  /\ cmd[o].pc # "exited" => cmd[o].injected = 0 /\ cmd[o].exit = 9
  /\ cmd[o].pc \in Replaying => cmd[o].at # 0 /\ Envelopes(cmd[o].at) # {}
  /\ cmd[o].pc = "scan" => cmd[o].before <= Cardinality(Envelopes(cmd[o].at))
  /\ cmd[o].pc = "decide" /\ cmd[o].whole =>
       cmd[o].before <= Cardinality(Envelopes(cmd[o].at) \cap cmd[o].seen)
  /\ (cmd[o].pc = "produce" \/ cmd[o].injected # 0) /\ cmd[o].whole /\ ~cmd[o].allow =>
       cmd[o].before <= 1
  /\ cmd[o].injected # 0 =>
       /\ cmd[o].injected \in 1 .. Len(source) /\ source[cmd[o].injected].from = cmd[o].at
       /\ cmd[o].exit \in {0, 1}
  /\ cmd[o].exit = 0 /\ cmd[o].execute => cmd[o].injected # 0

ReplayInv ==
  /\ ReplayTypes /\ ConsumerWithin /\ ReplaysFaithful
  /\ \A o \in Commands : CmdTrue(o)

(* SetToSeq lists elements of its argument. *)
LEMMA ListsPayloads ==
  /\ Cardinality(Payloads) \in Nat
  /\ \A i \in 1 .. Cardinality(Payloads) : SetToSeq(Payloads)[i] \in Payloads
<1>1. Cardinality(Payloads) \in Nat /\ ExistsBijection(1 .. Cardinality(Payloads), Payloads)
  BY FS_CardinalityType, ReplayAssumption
<1>2. \E f \in [1 .. Cardinality(Payloads) -> Payloads] : IsInjective(f)
  BY <1>1 DEF ExistsBijection, Bijection, Injection
<1>3. SetToSeq(Payloads) \in [1 .. Cardinality(Payloads) -> Payloads]
  BY <1>2, Zenon DEF SetToSeq
<1>4. QED
  BY <1>1, <1>3

(* The topic holds what the sources produced, and nobody has begun. *)
LEMMA ReplayInvInit == ReplayInit => ReplayInv
<1> SUFFICES ASSUME ReplayInit PROVE ReplayInv
  OBVIOUS
<1>1. source \in Seq(SourceRecords) /\ \A i \in DOMAIN source : source[i].from = 0
  <2>1. /\ source \in [1 .. Cardinality(Payloads) -> SourceRecords]
        /\ \A i \in DOMAIN source : source[i].from = 0
    BY ListsPayloads DEF ReplayInit, SourceRecords
  <2>2. QED
    BY <2>1, ListsPayloads
<1>2. NoCmd \in CmdRecords
  BY DEF NoCmd, CmdRecords, Replaying
<1>3. /\ cmd \in [Commands -> CmdRecords]
      /\ committed = 0 /\ acked \in BOOLEAN /\ ~acked /\ dlq = <<>>
  BY <1>2, Zenon DEF ReplayInit
<1>4. ReplayTypes
  BY <1>1, <1>3 DEF ReplayTypes
<1>5. ConsumerWithin /\ ReplaysFaithful
  BY <1>1, <1>3 DEF ConsumerWithin, ReplaysFaithful
<1>6. ASSUME NEW o \in Commands PROVE CmdTrue(o)
  <2>1. cmd[o] = NoCmd
    BY DEF ReplayInit
  <2>2. QED
    BY <1>1, <2>1 DEF CmdTrue, NoCmd, Replaying
<1>7. QED
  BY <1>4, <1>5, <1>6 DEF ReplayInv

(* The envelopes of a failure are finitely many. *)
LEMMA EnvelopesFinite ==
  ASSUME dlq \in Seq(Nat), NEW fid
  PROVE  IsFiniteSet(Envelopes(fid)) /\ Cardinality(Envelopes(fid)) \in Nat
<1>1. Len(dlq) \in Nat /\ DOMAIN dlq = 1 .. Len(dlq)
  OBVIOUS
<1>2. IsFiniteSet(1 .. Len(dlq))
  BY <1>1, FS_Interval
<1>3. Envelopes(fid) \in SUBSET (1 .. Len(dlq))
  BY <1>1 DEF Envelopes
<1>4. QED
  BY <1>2, <1>3, FS_Subset, FS_CardinalityType

(* Topic and DLQ only grow. *)
Grown ==
  /\ Len(source) <= Len(source') /\ \A i \in 1 .. Len(source) : source'[i] = source[i]
  /\ DOMAIN dlq \subseteq DOMAIN dlq' /\ \A k \in DOMAIN dlq : dlq'[k] = dlq[k]

(* A command that does not move keeps what it knows while the topics grow. *)
LEMMA CmdKept ==
  ASSUME ReplayTypes, ReplayTypes', Grown, NEW o \in Commands, CmdTrue(o), cmd'[o] = cmd[o]
  PROVE  CmdTrue(o)'
<1>0. cmd[o] \in CmdRecords /\ source \in Seq(SourceRecords) /\ source' \in Seq(SourceRecords)
  BY DEF ReplayTypes
<1> DEFINE had == Envelopes(cmd[o].at)
           has == {k \in DOMAIN dlq' : dlq'[k] = cmd[o].at}
<1>1. had \subseteq has
  BY DEF Grown, Envelopes
<1>2. IsFiniteSet(has)
  <2>1. Len(dlq') \in Nat /\ has \in SUBSET (1 .. Len(dlq'))
    BY DEF ReplayTypes
  <2>2. QED
    BY <2>1, FS_Interval, FS_Subset
<1>3. Cardinality(had) <= Cardinality(has)
  BY <1>1, <1>2, FS_Subset
<1>4. Cardinality(had \cap cmd[o].seen) <= Cardinality(has \cap cmd[o].seen)
  <2>1. IsFiniteSet(has \cap cmd[o].seen)
    BY <1>2, FS_Intersection
  <2>2. QED
    BY <1>1, <2>1, FS_Subset
<1>5. /\ Cardinality(had) \in Nat /\ Cardinality(has) \in Nat
      /\ Cardinality(had \cap cmd[o].seen) \in Nat /\ Cardinality(has \cap cmd[o].seen) \in Nat
  BY <1>1, <1>2, FS_Subset, FS_Intersection, FS_CardinalityType
<1>6. Envelopes(cmd[o].at)' = has
  BY DEF Envelopes
<1>7. had = {} \/ has # {}
  BY <1>1
<1> HIDE DEF had, has
<1>8. /\ cmd[o].pc = "scan" => cmd[o].before <= Cardinality(has)
      /\ cmd[o].pc = "decide" /\ cmd[o].whole => cmd[o].before <= Cardinality(has \cap cmd[o].seen)
      /\ cmd[o].pc \in Replaying => cmd[o].at # 0 /\ has # {}
  BY <1>0, <1>3, <1>4, <1>5, <1>7 DEF CmdTrue, CmdRecords, had
<1>9. cmd[o].at \in 0 .. Len(source')
  BY <1>0 DEF CmdTrue, Grown
<1>10. cmd[o].injected # 0 =>
       /\ cmd[o].injected \in 1 .. Len(source') /\ source'[cmd[o].injected].from = cmd[o].at
       /\ cmd[o].exit \in {0, 1}
  BY <1>0 DEF CmdTrue, Grown
<1>11. QED
  BY <1>6, <1>8, <1>9, <1>10 DEF CmdTrue

(* A command that ends keeps all it knows but its state and its exit code. *)
LEMMA ExitFields ==
  ASSUME ReplayTypes, NEW o \in Commands, NEW code \in {0, 1, 2, 3}, Exit(o, code)
  PROVE  /\ cmd' \in [Commands -> CmdRecords] /\ \A p \in Commands \ {o} : cmd'[p] = cmd[p]
         /\ cmd'[o].pc = "exited" /\ cmd'[o].exit = code
         /\ cmd'[o].at = cmd[o].at /\ cmd'[o].seen = cmd[o].seen /\ cmd'[o].whole = cmd[o].whole
         /\ cmd'[o].before = cmd[o].before /\ cmd'[o].execute = cmd[o].execute
         /\ cmd'[o].allow = cmd[o].allow /\ cmd'[o].injected = cmd[o].injected
<1>1. cmd \in [Commands -> CmdRecords] /\ cmd[o] \in CmdRecords
  BY DEF ReplayTypes
<1> DEFINE rec == [cmd[o] EXCEPT !.pc = "exited", !.exit = code]
<1>2. rec \in CmdRecords
  BY <1>1 DEF CmdRecords
<1>3. cmd' = [cmd EXCEPT ![o] = rec]
  BY <1>1 DEF Exit
<1>4. cmd'[o] = rec /\ cmd' \in [Commands -> CmdRecords] /\ \A p \in Commands \ {o} : cmd'[p] = cmd[p]
  BY <1>1, <1>2, <1>3
<1>5. QED
  BY <1>1, <1>4 DEF CmdRecords

(* The record was fetched: Fetch without an exit. *)
LEMMA FetchFields ==
  ASSUME ReplayTypes, NEW o \in Commands, NEW k \in DOMAIN dlq,
         NEW execute \in BOOLEAN, NEW allow \in BOOLEAN,
         cmd' = [cmd EXCEPT ![o].pc = "scan", ![o].at = dlq[k], ![o].execute = execute,
                            ![o].allow = allow, ![o].before = Cardinality(Envelopes(dlq[k]))]
  PROVE  /\ cmd' \in [Commands -> CmdRecords] /\ \A p \in Commands \ {o} : cmd'[p] = cmd[p]
         /\ cmd'[o].pc = "scan" /\ cmd'[o].at = dlq[k]
         /\ cmd'[o].before = Cardinality(Envelopes(dlq[k]))
         /\ cmd'[o].injected = cmd[o].injected /\ cmd'[o].exit = cmd[o].exit
<1>1. cmd \in [Commands -> CmdRecords] /\ cmd[o] \in CmdRecords
  BY DEF ReplayTypes
<1>2. dlq[k] \in Nat /\ Cardinality(Envelopes(dlq[k])) \in Nat
  BY EnvelopesFinite DEF ReplayTypes
<1> DEFINE rec == [cmd[o] EXCEPT !.pc = "scan", !.at = dlq[k], !.execute = execute,
                                 !.allow = allow, !.before = Cardinality(Envelopes(dlq[k]))]
<1>3. rec \in CmdRecords
  BY <1>1, <1>2 DEF CmdRecords, Replaying
<1>4. cmd' = [cmd EXCEPT ![o] = rec]
  BY <1>1
<1>5. cmd'[o] = rec /\ cmd' \in [Commands -> CmdRecords] /\ \A p \in Commands \ {o} : cmd'[p] = cmd[p]
  BY <1>1, <1>3, <1>4
<1>6. QED
  BY <1>1, <1>5 DEF CmdRecords

(* What Scan leaves behind. *)
LEMMA ScanFields ==
  ASSUME ReplayTypes, NEW o \in Commands, NEW n \in 0 .. Len(dlq), NEW available \in BOOLEAN,
         Scan(o, n, available)
  PROVE  /\ cmd' \in [Commands -> CmdRecords] /\ \A p \in Commands \ {o} : cmd'[p] = cmd[p]
         /\ cmd'[o].pc = "decide" /\ (cmd'[o].whole => cmd'[o].seen = 1 .. Len(dlq))
         /\ cmd'[o].at = cmd[o].at /\ cmd'[o].before = cmd[o].before
         /\ cmd'[o].injected = cmd[o].injected /\ cmd'[o].exit = cmd[o].exit
<1>1. cmd \in [Commands -> CmdRecords] /\ cmd[o] \in CmdRecords
  BY DEF ReplayTypes
<1> DEFINE seen == IF available THEN 1 .. n ELSE {}
           whole == available /\ n = Len(dlq)
           rec == [cmd[o] EXCEPT !.pc = "decide", !.seen = seen, !.whole = whole]
<1>2. seen \in SUBSET Nat /\ whole \in BOOLEAN /\ (whole => seen = 1 .. Len(dlq))
  OBVIOUS
<1>3. cmd' = [cmd EXCEPT ![o] = rec]
  BY <1>1, Zenon DEF Scan
<1> HIDE DEF seen, whole
<1>4. rec \in CmdRecords
  BY <1>1, <1>2 DEF CmdRecords, Replaying
<1>5. cmd'[o] = rec /\ cmd' \in [Commands -> CmdRecords] /\ \A p \in Commands \ {o} : cmd'[p] = cmd[p]
  BY <1>1, <1>3, <1>4
<1>6. cmd'[o].seen = seen /\ cmd'[o].whole = whole /\ cmd'[o].pc = "decide"
  BY <1>1, <1>5 DEF CmdRecords
<1>7. QED
  BY <1>1, <1>2, <1>5, <1>6 DEF CmdRecords

(* The command goes on to produce. *)
LEMMA DecideFields ==
  ASSUME ReplayTypes, NEW o \in Commands, cmd' = [cmd EXCEPT ![o].pc = "produce"]
  PROVE  /\ cmd' \in [Commands -> CmdRecords] /\ \A p \in Commands \ {o} : cmd'[p] = cmd[p]
         /\ cmd'[o].pc = "produce" /\ cmd'[o].whole = cmd[o].whole /\ cmd'[o].allow = cmd[o].allow
         /\ cmd'[o].at = cmd[o].at /\ cmd'[o].before = cmd[o].before
         /\ cmd'[o].injected = cmd[o].injected /\ cmd'[o].exit = cmd[o].exit
<1>1. cmd \in [Commands -> CmdRecords] /\ cmd[o] \in CmdRecords
  BY DEF ReplayTypes
<1> DEFINE rec == [cmd[o] EXCEPT !.pc = "produce"]
<1>2. rec \in CmdRecords
  BY <1>1 DEF CmdRecords, Replaying
<1>3. cmd' = [cmd EXCEPT ![o] = rec]
  BY <1>1
<1>4. cmd'[o] = rec /\ cmd' \in [Commands -> CmdRecords] /\ \A p \in Commands \ {o} : cmd'[p] = cmd[p]
  BY <1>1, <1>2, <1>3
<1>5. QED
  BY <1>1, <1>4 DEF CmdRecords

(* The replay was delivered. *)
LEMMA ProduceFields ==
  ASSUME ReplayTypes, NEW o \in Commands, NEW code \in {0, 1},
         cmd' = [cmd EXCEPT ![o].pc = "exited", ![o].exit = code, ![o].injected = Len(source) + 1]
  PROVE  /\ cmd' \in [Commands -> CmdRecords] /\ \A p \in Commands \ {o} : cmd'[p] = cmd[p]
         /\ cmd'[o].pc = "exited" /\ cmd'[o].whole = cmd[o].whole /\ cmd'[o].allow = cmd[o].allow
         /\ cmd'[o].at = cmd[o].at /\ cmd'[o].before = cmd[o].before
         /\ cmd'[o].injected = Len(source) + 1 /\ cmd'[o].exit = code
<1>1. cmd \in [Commands -> CmdRecords] /\ cmd[o] \in CmdRecords /\ Len(source) \in Nat
  BY DEF ReplayTypes
<1> DEFINE n == Len(source) + 1
           rec == [cmd[o] EXCEPT !.pc = "exited", !.exit = code, !.injected = n]
<1>2. rec \in CmdRecords
  <2>1. n \in Nat
    BY <1>1
  <2> HIDE DEF n
  <2>2. QED
    BY <1>1, <2>1 DEF CmdRecords
<1>3. cmd' = [cmd EXCEPT ![o] = rec]
  BY <1>1
<1>4. cmd'[o] = rec /\ cmd' \in [Commands -> CmdRecords] /\ \A p \in Commands \ {o} : cmd'[p] = cmd[p]
  BY <1>1, <1>2, <1>3
<1>5. QED
  BY <1>1, <1>4 DEF CmdRecords

(* Every step keeps the invariant: the consumer's steps, and per step of a   *)
(* command what it adds to its knowledge.                                    *)
LEMMA ReplayInvNext == ReplayInv /\ [ReplayNext]_dvars => ReplayInv'
<1> SUFFICES ASSUME ReplayInv, [ReplayNext]_dvars PROVE ReplayInv'
  OBVIOUS
<1>0. /\ ReplayTypes /\ ConsumerWithin /\ ReplaysFaithful /\ \A o \in Commands : CmdTrue(o)
      /\ source \in Seq(SourceRecords) /\ dlq \in Seq(Nat) /\ Len(source) \in Nat
      /\ committed \in Nat /\ acked \in BOOLEAN /\ cmd \in [Commands -> CmdRecords]
  BY DEF ReplayInv, ReplayTypes
<1>1. CASE UNCHANGED dvars
  BY <1>0, <1>1 DEF dvars, ReplayInv, ReplayTypes, ConsumerWithin, ReplaysFaithful, CmdTrue, Envelopes
<1>2. ASSUME UNCHANGED <<source, cmd>>, committed' \in Nat, acked' \in BOOLEAN, dlq' \in Seq(Nat),
             DOMAIN dlq \subseteq DOMAIN dlq', \A k \in DOMAIN dlq : dlq'[k] = dlq[k], ConsumerWithin'
      PROVE  ReplayInv'
  <2>1. ReplayTypes' /\ Grown
    BY <1>0, <1>2 DEF ReplayTypes, Grown
  <2>2. \A o \in Commands : CmdTrue(o)'
    BY <1>0, <1>2, <2>1, CmdKept
  <2>3. ReplaysFaithful'
    <3>1. \A fid : Envelopes(fid) \subseteq Envelopes(fid)'
      BY <1>2 DEF Envelopes
    <3>2. QED
      BY <1>0, <1>2, <3>1 DEF ReplaysFaithful
  <2>4. QED
    BY <1>2, <2>1, <2>2, <2>3 DEF ReplayInv
<1>3. CASE Store
  <2>1. UNCHANGED <<source, cmd, dlq>> /\ committed' \in Nat /\ acked' \in BOOLEAN /\ ConsumerWithin'
    BY <1>0, <1>3 DEF Store, Head1, ConsumerWithin
  <2>2. QED
    BY <1>0, <1>2, <2>1
<1>4. CASE Quarantine
  <2>1. /\ UNCHANGED <<source, cmd, committed>> /\ acked' \in BOOLEAN
        /\ dlq' = Append(dlq, committed + 1) /\ committed + 1 <= Len(source)
    BY <1>0, <1>4 DEF Quarantine, Head1
  <2>2. /\ dlq' \in Seq(Nat) /\ DOMAIN dlq \subseteq DOMAIN dlq' /\ \A k \in DOMAIN dlq : dlq'[k] = dlq[k]
        /\ \A k \in DOMAIN dlq' : k \in DOMAIN dlq \/ dlq'[k] = committed + 1
    BY <1>0, <2>1
  <2>3. ConsumerWithin'
    BY <1>0, <2>1, <2>2 DEF ConsumerWithin
  <2>4. QED
    BY <1>0, <1>2, <2>1, <2>2, <2>3
<1>5. CASE AfterAck
  <2>1. UNCHANGED <<source, cmd, dlq>> /\ committed' \in Nat /\ acked' \in BOOLEAN /\ ConsumerWithin'
    <3>1. UNCHANGED <<source, cmd, dlq>> /\ ~acked' /\ acked' \in BOOLEAN
      BY <1>5, Zenon DEF AfterAck
    <3>2. acked /\ (committed' = committed \/ committed' = committed + 1)
      BY <1>5 DEF AfterAck, Head1
    <3>3. QED
      BY <1>0, <3>1, <3>2 DEF ConsumerWithin
  <2>2. QED
    BY <1>0, <1>2, <2>1
<1>6. ASSUME NEW o \in Commands, UNCHANGED <<source, committed, acked, dlq>>,
             cmd' \in [Commands -> CmdRecords], \A p \in Commands \ {o} : cmd'[p] = cmd[p],
             CmdTrue(o)'
      PROVE  ReplayInv'
  <2>1. ReplayTypes' /\ Grown /\ ConsumerWithin'
    BY <1>0, <1>6 DEF ReplayTypes, Grown, ConsumerWithin
  <2>2. \A p \in Commands : CmdTrue(p)'
    BY <1>0, <1>6, <2>1, CmdKept
  <2>3. ReplaysFaithful'
    BY <1>0, <1>6 DEF ReplaysFaithful, Envelopes
  <2>4. QED
    BY <2>1, <2>2, <2>3 DEF ReplayInv
<1>7. ASSUME NEW o \in Commands, NEW code \in {0, 1, 2, 3}, Exit(o, code),
             UNCHANGED <<source, committed, acked, dlq>>, cmd[o].injected = 0,
             code = 0 => ~cmd[o].execute
      PROVE  ReplayInv'
  <2>1. CmdTrue(o)'
    BY <1>0, <1>7, ExitFields DEF CmdTrue, Replaying
  <2>2. QED
    BY <1>0, <1>6, <1>7, <2>1, ExitFields
<1>8. ASSUME NEW o \in Commands, NEW k, NEW execute \in BOOLEAN, NEW allow \in BOOLEAN,
             Fetch(o, k, execute, allow)
      PROVE  ReplayInv'
  <2>1. cmd[o].pc = "idle" /\ cmd[o].injected = 0 /\ cmd[o].exit = 9
        /\ UNCHANGED <<source, committed, acked, dlq>>
    BY <1>0, <1>8 DEF Fetch, CmdTrue
  <2>2. CASE Exit(o, 2)
    BY <1>7, <2>1, <2>2
  <2>3. CASE /\ k \in DOMAIN dlq
             /\ cmd' = [cmd EXCEPT ![o].pc = "scan", ![o].at = dlq[k], ![o].execute = execute,
                              ![o].allow = allow, ![o].before = Cardinality(Envelopes(dlq[k]))]
    <3>1. /\ cmd' \in [Commands -> CmdRecords] /\ \A p \in Commands \ {o} : cmd'[p] = cmd[p]
          /\ cmd'[o].pc = "scan" /\ cmd'[o].at = dlq[k]
          /\ cmd'[o].before = Cardinality(Envelopes(dlq[k]))
          /\ cmd'[o].injected = 0 /\ cmd'[o].exit = 9
      <4>1. /\ cmd' \in [Commands -> CmdRecords] /\ \A p \in Commands \ {o} : cmd'[p] = cmd[p]
            /\ cmd'[o].pc = "scan" /\ cmd'[o].at = dlq[k]
            /\ cmd'[o].before = Cardinality(Envelopes(dlq[k]))
            /\ cmd'[o].injected = cmd[o].injected /\ cmd'[o].exit = cmd[o].exit
        BY <1>0, <1>8, <2>3, FetchFields, Zenon
      <4>2. QED
        BY <2>1, <4>1
    <3>2. dlq[k] \in 1 .. Len(source) /\ Envelopes(dlq[k]) # {}
      BY <1>0, <2>3 DEF ConsumerWithin, Envelopes
    <3>3. Envelopes(cmd[o].at)' = Envelopes(dlq[k]) /\ source' = source
      BY <2>1, <3>1 DEF Envelopes
    <3>4. Cardinality(Envelopes(dlq[k])) \in Nat
      BY <1>0, EnvelopesFinite
    <3>5. CmdTrue(o)'
      BY <1>0, <3>1, <3>2, <3>3, <3>4 DEF CmdTrue
    <3>6. QED
      BY <1>6, <2>1, <3>1, <3>5
  <2>4. QED
    BY <1>8, <2>2, <2>3 DEF Fetch
<1>9. ASSUME NEW o \in Commands, NEW n \in 0 .. Len(dlq), NEW available \in BOOLEAN, Scan(o, n, available)
      PROVE  ReplayInv'
  <2>1. /\ cmd[o].pc = "scan" /\ UNCHANGED <<source, committed, acked, dlq>>
        /\ cmd[o].injected = 0 /\ cmd[o].exit = 9 /\ cmd[o].at \in 1 .. Len(source)
        /\ Envelopes(cmd[o].at) # {} /\ cmd[o].before <= Cardinality(Envelopes(cmd[o].at))
    <3>1. CmdTrue(o) /\ cmd[o] \in CmdRecords
      BY <1>0
    <3>2. cmd[o].pc = "scan"
      BY <1>9 DEF Scan
    <3>3. UNCHANGED <<source, committed, acked, dlq>>
      BY <1>9 DEF Scan
    <3>4. QED
      BY <1>0, <3>1, <3>2, <3>3 DEF CmdTrue, CmdRecords, Replaying
  <2>2. /\ cmd' \in [Commands -> CmdRecords] /\ \A p \in Commands \ {o} : cmd'[p] = cmd[p]
        /\ cmd'[o].pc = "decide" /\ (cmd'[o].whole => cmd'[o].seen = 1 .. Len(dlq))
        /\ cmd'[o].at = cmd[o].at /\ cmd'[o].before = cmd[o].before
        /\ cmd'[o].injected = 0 /\ cmd'[o].exit = 9
    BY <1>0, <1>9, <2>1, ScanFields
  <2>3. /\ Envelopes(cmd[o].at)' = Envelopes(cmd[o].at)
        /\ cmd'[o].whole => Envelopes(cmd[o].at) \cap cmd'[o].seen = Envelopes(cmd[o].at)
    BY <1>0, <2>1, <2>2 DEF Envelopes
  <2>4. CmdTrue(o)'
    <3>1. /\ cmd'[o].at \in 1 .. Len(source') /\ Envelopes(cmd[o].at)' # {}
          /\ cmd'[o].whole => cmd'[o].before <= Cardinality(Envelopes(cmd[o].at)' \cap cmd'[o].seen)
      BY <2>1, <2>2, <2>3
    <3>2. QED
      BY <1>0, <2>1, <2>2, <3>1 DEF CmdTrue
  <2>5. QED
    BY <1>6, <2>1, <2>2, <2>4
<1>10. ASSUME NEW o \in Commands, Decide(o) PROVE ReplayInv'
  <2>1. /\ cmd[o].pc = "decide" /\ UNCHANGED <<source, committed, acked, dlq>>
        /\ cmd[o].injected = 0 /\ cmd[o].exit = 9 /\ cmd[o].at \in 1 .. Len(source)
        /\ Envelopes(cmd[o].at) # {}
        /\ cmd[o].whole => cmd[o].before <= Cardinality(Envelopes(cmd[o].at) \cap cmd[o].seen)
    <3>1. CmdTrue(o) /\ cmd[o] \in CmdRecords
      BY <1>0
    <3>2. cmd[o].pc = "decide"
      BY <1>10 DEF Decide
    <3>3. UNCHANGED <<source, committed, acked, dlq>>
      BY <1>10 DEF Decide
    <3>4. QED
      BY <1>0, <3>1, <3>2, <3>3 DEF CmdTrue, CmdRecords, Replaying
  <2>2. CASE ~cmd[o].execute /\ Exit(o, 0)
    BY <1>7, <2>1, <2>2
  <2>3. CASE Exit(o, 3)
    BY <1>7, <2>1, <2>3
  <2>4. CASE (~Duplicates(o) \/ cmd[o].allow) /\ cmd' = [cmd EXCEPT ![o].pc = "produce"]
    <3>1. /\ cmd' \in [Commands -> CmdRecords] /\ \A p \in Commands \ {o} : cmd'[p] = cmd[p]
          /\ cmd'[o].pc = "produce" /\ cmd'[o].whole = cmd[o].whole /\ cmd'[o].allow = cmd[o].allow
          /\ cmd'[o].at = cmd[o].at /\ cmd'[o].before = cmd[o].before
          /\ cmd'[o].injected = 0 /\ cmd'[o].exit = 9
      BY <1>0, <2>1, <2>4, DecideFields
    <3>2. cmd[o].whole /\ ~cmd[o].allow => cmd[o].before <= 1
      <4>1. Cardinality(Envelopes(cmd[o].at) \cap cmd[o].seen) \in Nat /\ cmd[o].before \in Nat
        BY <1>0, EnvelopesFinite, FS_Intersection, FS_CardinalityType DEF CmdRecords
      <4>2. QED
        BY <2>1, <2>4, <4>1 DEF Duplicates
    <3>3. Envelopes(cmd[o].at)' = Envelopes(cmd[o].at)
      BY <2>1, <3>1 DEF Envelopes
    <3>4. CmdTrue(o)'
      BY <2>1, <3>1, <3>2, <3>3 DEF CmdTrue
    <3>5. QED
      BY <1>6, <2>1, <3>1, <3>4
  <2>5. QED
    BY <1>10, <2>2, <2>3, <2>4 DEF Decide
<1>11. ASSUME NEW o \in Commands, ProduceReplay(o) PROVE ReplayInv'
  <2>1. /\ cmd[o].pc = "produce" /\ UNCHANGED <<committed, acked, dlq>>
        /\ cmd[o].injected = 0 /\ cmd[o].exit = 9 /\ cmd[o].at \in 1 .. Len(source)
        /\ Envelopes(cmd[o].at) # {}
        /\ cmd[o].whole /\ ~cmd[o].allow => cmd[o].before <= 1
    <3>1. CmdTrue(o) /\ cmd[o] \in CmdRecords
      BY <1>0
    <3>2. cmd[o].pc = "produce"
      BY <1>11 DEF ProduceReplay
    <3>3. UNCHANGED <<committed, acked, dlq>>
      BY <1>11 DEF ProduceReplay
    <3>4. QED
      BY <1>0, <3>1, <3>2, <3>3 DEF CmdTrue, CmdRecords, Replaying
  <2>2. CASE UNCHANGED source /\ Exit(o, 1)
    BY <1>7, <2>1, <2>2
  <2>3. ASSUME NEW code \in {0, 1}, source' = Append(source, Replayed(o)),
               cmd' = [cmd EXCEPT ![o].pc = "exited", ![o].exit = code, ![o].injected = Len(source) + 1]
        PROVE  ReplayInv'
    <3>1. /\ cmd' \in [Commands -> CmdRecords] /\ \A p \in Commands \ {o} : cmd'[p] = cmd[p]
          /\ cmd'[o].pc = "exited" /\ cmd'[o].whole = cmd[o].whole /\ cmd'[o].allow = cmd[o].allow
          /\ cmd'[o].at = cmd[o].at /\ cmd'[o].before = cmd[o].before
          /\ cmd'[o].injected = Len(source) + 1 /\ cmd'[o].exit = code
      BY <1>0, <2>3, ProduceFields
    <3>2. /\ Replayed(o) \in SourceRecords /\ Replayed(o).from = cmd[o].at
          /\ Replayed(o).payload = source[cmd[o].at].payload
      <4>1. source[cmd[o].at] \in SourceRecords /\ cmd[o].at \in Nat
        BY <1>0, <2>1
      <4>2. QED
        BY <4>1 DEF Replayed, SourceRecords
    <3>3. /\ source' \in Seq(SourceRecords) /\ Len(source') = Len(source) + 1
          /\ \A i \in 1 .. Len(source) : source'[i] = source[i]
          /\ source'[Len(source) + 1] = Replayed(o)
      BY <1>0, <2>3, <3>2
    <3>4. ReplayTypes' /\ Grown /\ ConsumerWithin'
      <4>1. ReplayTypes'
        BY <1>0, <2>1, <3>1, <3>3 DEF ReplayTypes
      <4>2. Grown
        BY <1>0, <2>1, <3>3 DEF Grown
      <4>3. ConsumerWithin'
        BY <1>0, <2>1, <3>3 DEF ConsumerWithin
      <4>4. QED
        BY <4>1, <4>2, <4>3
    <3>5. CmdTrue(o)'
      BY <1>0, <2>1, <2>3, <3>1, <3>2, <3>3 DEF CmdTrue, Replaying
    <3>6. \A p \in Commands : CmdTrue(p)'
      BY <1>0, <3>1, <3>4, <3>5, CmdKept
    <3>7. ReplaysFaithful'
      <4>1. SUFFICES ASSUME NEW i \in DOMAIN source', source'[i].from # 0
                     PROVE  /\ source'[i].from < i
                            /\ source'[i].payload = source'[source'[i].from].payload
                            /\ {k \in DOMAIN dlq' : dlq'[k] = source'[i].from} # {}
        BY DEF ReplaysFaithful, Envelopes
      <4>2. CASE i = Len(source) + 1
        BY <1>0, <2>1, <3>2, <3>3, <4>2 DEF Envelopes
      <4>3. CASE i \in 1 .. Len(source)
        <5>1. /\ source[i].from < i /\ source[i].payload = source[source[i].from].payload
              /\ Envelopes(source[i].from) # {} /\ source[i].from \in Nat
          <6>1. i \in DOMAIN source /\ source[i].from # 0 /\ source[i] \in SourceRecords
            BY <1>0, <3>3, <4>1, <4>3
          <6>2. QED
            BY <1>0, <6>1 DEF ReplaysFaithful, SourceRecords
        <5>2. source[i].from \in 1 .. Len(source)
          BY <1>0, <3>3, <4>1, <4>3, <5>1
        <5>3. QED
          BY <1>0, <2>1, <3>3, <4>3, <5>1, <5>2 DEF Envelopes
      <4>4. QED
        BY <1>0, <3>3, <4>2, <4>3
    <3>8. QED
      BY <3>4, <3>6, <3>7 DEF ReplayInv
  <2>4. QED
    BY <1>11, <2>2, <2>3 DEF ProduceReplay
<1>12. QED
  BY <1>1, <1>3, <1>4, <1>5, <1>8, <1>9, <1>10, <1>11, Zenon DEF ReplayNext, CommandStep

(* replay_dlq.py: whatever the consumer does meanwhile, however many         *)
(* commands run and whatever their scans miss, a replay carries the payload  *)
(* of the record it names, the exit code says whether it was produced, and a *)
(* complete scan refuses duplicates.                                         *)
THEOREM ReplayTrueHolds == ReplaySpec => []ReplayTrue
<1>1. ASSUME ReplayInv PROVE ReplayTrue
  <2>0. /\ ReplayTypes /\ ConsumerWithin /\ ReplaysFaithful
        /\ \A o \in Commands : CmdTrue(o) /\ cmd[o] \in CmdRecords
    BY <1>1 DEF ReplayInv, ReplayTypes
  <2>1. ReplayTypeOK
    <3>1. committed \in 0 .. Len(source) /\ acked \in BOOLEAN
      BY <2>0 DEF ReplayTypes, ConsumerWithin
    <3>2. ToSet(dlq) \subseteq 1 .. Len(source)
      BY <2>0 DEF ConsumerWithin, ToSet
    <3>3. ASSUME NEW o \in Commands
          PROVE  cmd[o].exit \in {0, 1, 2, 3, 9} /\ cmd[o].at \in 0 .. Len(source)
      BY <2>0 DEF CmdTrue, CmdRecords
    <3>4. QED
      BY <3>1, <3>2, <3>3 DEF ReplayTypeOK
  <2>2. ASSUME NEW o \in Commands
        PROVE  /\ cmd[o].exit = 0 /\ cmd[o].execute =>
                    cmd[o].injected # 0 /\ source[cmd[o].injected].from = cmd[o].at
               /\ cmd[o].exit \in {2, 3} => cmd[o].injected = 0
               /\ cmd[o].injected # 0 /\ cmd[o].whole /\ ~cmd[o].allow => cmd[o].before <= 1
    <3>1. CmdTrue(o)
      BY <2>0
    <3>2. /\ cmd[o].exit = 0 /\ cmd[o].execute =>
               cmd[o].injected # 0 /\ source[cmd[o].injected].from = cmd[o].at
          /\ cmd[o].injected # 0 /\ cmd[o].whole /\ ~cmd[o].allow => cmd[o].before <= 1
      BY <3>1, Zenon DEF CmdTrue
    <3>3. cmd[o].exit \in {2, 3} => cmd[o].injected = 0
      BY <3>1 DEF CmdTrue
    <3>4. QED
      BY <3>2, <3>3
  <2>3. QED
    BY <2>0, <2>1, <2>2 DEF ExitsTrue, DuplicatesRefused, ReplayTrue
<1>2. QED
  BY ReplayInvInit, ReplayInvNext, <1>1, PTL DEF ReplaySpec

-----------------------------------------------------------------------------
(* The payment producer: the inductive invariant *)

(* What a run has to do, and the messages that runs store. *)
AllWork == XmlWork \cup JsonWork
Msg(e, r) == [event |-> e, id |-> EventId(e[1], e[2], r), run |-> r]
Stored == {Msg(e, r) : e \in Work, r \in 1 .. MaxRuns}

(* Event e is on its topic, sent by this run. *)
InLog(e) == \E t \in Topics : \E i \in DOMAIN log[t] : log[t][i].event = e /\ log[t][i].run = run

ProducerTypes ==
  /\ readable \subseteq Files
  /\ phase \in {"begin", "xml", "json", "flush", "exit0", "exit1", "dead"}
  /\ run \in 1 .. MaxRuns
  /\ todo \subseteq AllWork /\ DOMAIN queue \subseteq AllWork
  /\ queue \in [DOMAIN queue -> {"sent", "ok", "error"}]
  /\ Cardinality(DOMAIN queue) <= QueueLimit
  /\ failed \in Nat /\ succeeded \in Nat
  /\ log \in [Topics -> Seq(Stored)]

(* The loops take the sources of their form, and leave none; nothing is on   *)
(* its way outside main.                                                     *)
LoopsTrue ==
  /\ phase = "json" => \A e \in todo : Form[e[1]] = "json"
  /\ phase \in {"flush", "exit0", "exit1", "dead", "begin"} => todo = {}
  /\ phase \in {"exit0", "exit1", "dead", "begin"} => DOMAIN queue = {}
  /\ phase = "exit0" => failed = 0

(* A message is stored before it is reported as delivered, and not before it *)
(* is sent.                                                                  *)
QueueTrue ==
  /\ \A e \in todo : ~InLog(e)
  /\ \A e \in DOMAIN queue :
       /\ e \notin todo /\ e[1] \in readable
       /\ queue[e] = "ok" => InLog(e)
       /\ queue[e] = "sent" => ~InLog(e)

(* What the topics hold was routed there and read, by this run or before. *)
LogTrue ==
  \A t \in Topics : \A i \in DOMAIN log[t] :
    /\ log[t][i].event \in AllWork /\ log[t][i].event[1] \in readable
    /\ t = Route[log[t][i].event[1]]
    /\ log[t][i].run <= run /\ (phase = "begin" => log[t][i].run < run)

(* As long as nothing has failed, what is neither to do nor on its way is on *)
(* its topic.                                                                *)
Accounted ==
  phase \in {"xml", "json", "flush", "exit0", "exit1"} /\ failed = 0 =>
    \A e \in AllWork : e \in todo \/ e \in DOMAIN queue \/ InLog(e)

ProducerInv ==
  /\ ProducerTypes /\ LoopsTrue /\ QueueTrue /\ LogTrue /\ Accounted
  /\ EverythingCounted /\ StoredOnce

-----------------------------------------------------------------------------
LEMMA WorkFacts ==
  ASSUME NEW e \in Work
  PROVE  e = <<e[1], e[2]>> /\ e[1] \in Files /\ e[2] \in 1 .. Size[e[1]]
<1>1. PICK f \in Files : e \in {<<f, i>> : i \in 1 .. Size[f]}
  BY DEF Work
<1>2. PICK i \in 1 .. Size[f] : e = <<f, i>>
  BY <1>1
<1>3. QED
  BY <1>1, <1>2

(* What a run has to do, in the words of ExitZeroDelivered. *)
LEMMA AllWorkIs ==
  ASSUME readable \subseteq Files
  PROVE  AllWork = {e \in Work : Routed(e[1]) /\ (Form[e[1]] = "xml" \/ e[1] \in readable)}
<1>0. /\ Size \in [Files -> Nat \ {0}] /\ Form \in [Files -> {"xml", "json"}]
      /\ \A f \in Files : Form[f] = "xml" => Size[f] = 1
  BY ProducerAssumption
<1>1. ASSUME NEW e \in XmlWork PROVE e \in Work /\ Routed(e[1]) /\ Form[e[1]] = "xml"
  <2>1. PICK f \in Files : Form[f] = "xml" /\ Routed(f) /\ e = <<f, 1>>
    BY DEF XmlWork
  <2>2. e[1] = f /\ 1 \in 1 .. Size[f]
    BY <1>0, <2>1
  <2>3. QED
    BY <2>1, <2>2 DEF Work
<1>2. ASSUME NEW e \in JsonWork PROVE e \in Work /\ Routed(e[1]) /\ e[1] \in readable
  <2>1. PICK f \in readable : Form[f] = "json" /\ Routed(f) /\ e \in {<<f, i>> : i \in 1 .. Size[f]}
    BY DEF JsonWork
  <2>2. e[1] = f
    BY <2>1
  <2>3. QED
    BY <2>1, <2>2 DEF Work
<1>3. ASSUME NEW e \in Work, Routed(e[1]), Form[e[1]] = "xml" PROVE e \in XmlWork
  <2>1. e = <<e[1], e[2]>> /\ e[1] \in Files /\ e[2] \in 1 .. Size[e[1]]
    BY <1>3, WorkFacts
  <2>2. e[2] = 1
    BY <1>0, <1>3, <2>1
  <2>3. QED
    BY <1>3, <2>1, <2>2 DEF XmlWork
<1>4. ASSUME NEW e \in Work, Routed(e[1]), e[1] \in readable, Form[e[1]] = "json"
      PROVE  e \in JsonWork
  <2>1. e = <<e[1], e[2]>> /\ e[2] \in 1 .. Size[e[1]]
    BY <1>4, WorkFacts
  <2>2. QED
    BY <1>4, <2>1 DEF JsonWork
<1>5. \A e \in Work : Form[e[1]] \in {"xml", "json"}
  BY <1>0, WorkFacts
<1>6. QED
  BY <1>1, <1>2, <1>3, <1>4, <1>5 DEF AllWork

LEMMA AllWorkFacts ==
  ASSUME readable \subseteq Files
  PROVE  /\ AllWork \subseteq Work
         /\ \A e \in AllWork : e[1] \in Files /\ Route[e[1]] \in Topics /\ Form[e[1]] \in {"xml", "json"}
<1>1. AllWork \subseteq Work
  BY AllWorkIs
<1>2. ASSUME NEW e \in AllWork
      PROVE  e[1] \in Files /\ Route[e[1]] \in Topics /\ Form[e[1]] \in {"xml", "json"}
  <2>1. e[1] \in Files
    BY <1>1, WorkFacts
  <2>2. Routed(e[1])
    BY AllWorkIs
  <2>3. QED
    BY <2>1, <2>2, ProducerAssumption DEF Routed
<1>3. QED
  BY <1>1, <1>2

LEMMA WorkFinite == IsFiniteSet(Work)
<1> DEFINE S == {{<<f, i>> : i \in 1 .. Size[f]} : f \in Files}
           g == [f \in Files |-> {<<f, i>> : i \in 1 .. Size[f]}]
<1>1. IsFiniteSet(S)
  <2>1. g \in Surjection(Files, S)
    BY DEF Surjection
  <2>2. QED
    BY <2>1, FS_Surjection, ProducerAssumption
<1>2. ASSUME NEW f \in Files PROVE IsFiniteSet({<<f, i>> : i \in 1 .. Size[f]})
  <2> DEFINE T == {<<f, i>> : i \in 1 .. Size[f]}
             h == [i \in 1 .. Size[f] |-> <<f, i>>]
  <2>1. IsFiniteSet(1 .. Size[f])
    <3>1. 1 \in Int /\ Size[f] \in Int
      BY ProducerAssumption
    <3>2. QED
      BY <3>1, FS_Interval
  <2>2. h \in Surjection(1 .. Size[f], T)
    BY DEF Surjection
  <2>3. QED
    BY <2>1, <2>2, FS_Surjection
<1>3. \A T \in S : IsFiniteSet(T)
  BY <1>2
<1>4. IsFiniteSet(UNION S)
  BY <1>1, <1>3, FS_UNION
<1>5. QED
  BY <1>4 DEF Work

LEMMA SetsFinite ==
  ASSUME ProducerTypes
  PROVE  /\ IsFiniteSet(AllWork) /\ IsFiniteSet(todo) /\ IsFiniteSet(DOMAIN queue)
         /\ Cardinality(AllWork) \in Nat /\ Cardinality(todo) \in Nat
         /\ Cardinality(DOMAIN queue) \in Nat
<1>1. readable \subseteq Files /\ todo \subseteq AllWork /\ DOMAIN queue \subseteq AllWork
  BY DEF ProducerTypes
<1>2. AllWork \in SUBSET Work
  BY <1>1, AllWorkFacts
<1>3. IsFiniteSet(AllWork)
  BY <1>2, WorkFinite, FS_Subset
<1>4. todo \in SUBSET AllWork /\ (DOMAIN queue) \in SUBSET AllWork
  BY <1>1
<1>5. IsFiniteSet(todo) /\ IsFiniteSet(DOMAIN queue)
  BY <1>3, <1>4, FS_Subset
<1>6. QED
  BY <1>3, <1>5, FS_CardinalityType

LEMMA StoredFacts ==
  ASSUME NEW m \in Stored
  PROVE  m.event \in Work /\ m.run \in 1 .. MaxRuns /\ m = Msg(m.event, m.run)
<1>1. PICK e \in Work, r \in 1 .. MaxRuns : m = Msg(e, r)
  BY DEF Stored
<1>2. QED
  BY <1>1 DEF Msg

(* A message with the answer is no longer the producer's: three kinds of     *)
(* messages in a queue.                                                      *)
LEMMA QueueParts ==
  ASSUME NEW q, q \in [DOMAIN q -> {"sent", "ok", "error"}], IsFiniteSet(DOMAIN q)
  PROVE  /\ Cardinality(Reported(q, "sent")) \in Nat /\ Cardinality(Reported(q, "ok")) \in Nat
         /\ Cardinality(Reported(q, "error")) \in Nat
         /\ Cardinality(DOMAIN q) = Cardinality(Reported(q, "sent"))
              + Cardinality(Reported(q, "ok")) + Cardinality(Reported(q, "error"))
         /\ Cardinality(Reported(q, "error")) = 0 => Reported(q, "error") = {}
<1> DEFINE A == Reported(q, "sent")
           B == Reported(q, "ok")
           C == Reported(q, "error")
<1>1. A \in SUBSET DOMAIN q /\ B \in SUBSET DOMAIN q /\ C \in SUBSET DOMAIN q
  BY DEF Reported
<1>2. IsFiniteSet(A) /\ IsFiniteSet(B) /\ IsFiniteSet(C)
  BY <1>1, FS_Subset
<1>3. Cardinality(A) \in Nat /\ Cardinality(B) \in Nat /\ Cardinality(C) \in Nat
  BY <1>2, FS_CardinalityType
<1>4. A \cap B = {} /\ (A \cup B) \cap C = {} /\ (A \cup B) \cup C = DOMAIN q
  BY DEF Reported
<1>5. IsFiniteSet(A \cup B) /\ Cardinality(A \cup B) = Cardinality(A) + Cardinality(B) - Cardinality(A \cap B)
  BY <1>2, FS_Union
<1>6. Cardinality((A \cup B) \cup C)
        = Cardinality(A \cup B) + Cardinality(C) - Cardinality((A \cup B) \cap C)
  BY <1>2, <1>5, FS_Union
<1>7. Cardinality({}) = 0 /\ (Cardinality(C) = 0 => C = {})
  BY <1>2, FS_EmptySet
<1> HIDE DEF A, B, C
<1>8. Cardinality(DOMAIN q) = Cardinality(A) + Cardinality(B) + Cardinality(C)
  <2>1. Cardinality(A \cup B) = Cardinality(A) + Cardinality(B)
    <3>1. Cardinality(A \cap B) = 0
      BY <1>4, <1>7
    <3>2. QED
      BY <1>3, <1>5, <3>1
  <2>2. Cardinality((A \cup B) \cup C) = Cardinality(A \cup B) + Cardinality(C) - 0
    BY <1>4, <1>6, <1>7
  <2>3. Cardinality((A \cup B) \cup C) = Cardinality(DOMAIN q)
    BY <1>4
  <2>4. QED
    BY <1>3, <2>1, <2>2, <2>3
<1>9. QED
  BY <1>3, <1>7, <1>8 DEF A, B, C

-----------------------------------------------------------------------------
(* The steps *)

(* InLog looks at the topics and the number of the run only. *)
LEMMA LogSame ==
  ASSUME log' = log, run' = run
  PROVE  \A e : InLog(e)' <=> InLog(e)
  BY DEF InLog

LEMMA WorkSame ==
  ASSUME readable' = readable
  PROVE  AllWork' = AllWork /\ XmlWork' = XmlWork /\ JsonWork' = JsonWork
  BY DEF AllWork, XmlWork, JsonWork, Routed

(* Steps of main that send no message and serve no report. *)
LEMMA MainKeepsLog ==
  ASSUME ProducerInv, UNCHANGED <<readable, run, log>>, phase' # "begin"
  PROVE  LogTrue' /\ StoredOnce'
<1>1. AllWork' = AllWork
  BY WorkSame
<1>2. QED
  BY <1>1 DEF ProducerInv, LogTrue, StoredOnce

LEMMA NoQueueFacts == DOMAIN NoQueue = {} /\ NoQueue \in [{} -> {"sent", "ok", "error"}]
  BY DEF NoQueue

LEMMA BeginStep ==
  ASSUME ProducerInv, Begin
  PROVE  ProducerInv'
<1>0. ProducerTypes /\ LogTrue /\ StoredOnce
  BY DEF ProducerInv
<1>1. /\ phase = "begin" /\ failed' = 0 /\ succeeded' = 0 /\ queue' = NoQueue
      /\ UNCHANGED <<readable, run, log, faults>>
      /\ \/ Files = {} /\ phase' = "exit1" /\ todo' = {}
         \/ Files # {} /\ phase' = "xml" /\ todo' = AllWork
  BY DEF Begin, AllWork
<1>2. AllWork' = AllWork /\ (XmlWork \cup JsonWork)' = AllWork
  BY <1>1, WorkSame DEF AllWork
<1>3. DOMAIN queue' = {} /\ queue' \in [DOMAIN queue' -> {"sent", "ok", "error"}]
      /\ Cardinality(DOMAIN queue') = 0 /\ QueueLimit \in Nat
  BY <1>1, NoQueueFacts, FS_EmptySet, ProducerAssumption
<1>4. readable \subseteq Files
  BY <1>0 DEF ProducerTypes
<1>5. Files = {} => AllWork = {}
  BY <1>4, AllWorkFacts
<1>6. \A e : ~InLog(e)'
  <2>1. \A e : ~InLog(e)
    <3>1. \A t \in Topics : \A i \in DOMAIN log[t] : log[t][i].run # run
      <4>1. SUFFICES ASSUME NEW t \in Topics, NEW i \in DOMAIN log[t] PROVE log[t][i].run # run
        OBVIOUS
      <4>2. log[t] \in Seq(Stored) /\ i \in 1 .. Len(log[t])
        BY <1>0, <4>1, LenProperties DEF ProducerTypes
      <4>3. log[t][i] \in Stored
        BY <4>2, ElementOfSeq
      <4>4. log[t][i].run \in Nat /\ log[t][i].run < run /\ run \in Nat
        BY <1>0, <1>1, <4>3, StoredFacts DEF LogTrue, ProducerTypes
      <4>5. QED
        BY <4>4
    <3>2. QED
      BY <3>1 DEF InLog
  <2>2. QED
    BY <1>1, <2>1, LogSame
<1>7. ProducerTypes'
  BY <1>0, <1>1, <1>2, <1>3 DEF ProducerTypes
<1>8. LoopsTrue' /\ QueueTrue' /\ Accounted'
  BY <1>1, <1>2, <1>3, <1>5, <1>6 DEF LoopsTrue, QueueTrue, Accounted
<1>9. LogTrue' /\ StoredOnce'
  BY <1>1, MainKeepsLog
<1>10. EverythingCounted'
  <2>1. Cardinality(AllWork) \in Nat /\ Cardinality({}) = 0
    BY <1>0, SetsFinite, FS_EmptySet
  <2>2. Cardinality(todo') = Cardinality(AllWork)
    BY <1>1, <1>5
  <2>3. Cardinality(todo') + Cardinality(DOMAIN queue') + failed' + succeeded' = Cardinality(AllWork)
    BY <1>1, <1>3, <2>1, <2>2
  <2>4. QED
    BY <1>2, <2>3 DEF EverythingCounted
<1>11. QED
  BY <1>7, <1>8, <1>9, <1>10 DEF ProducerInv

(* The reports of q are served: what is left of q is not answered, and as    *)
(* long as no failure is counted, what has left it is on its topic.          *)
LEMMA ServeEffect ==
  ASSUME NEW q, q \in [DOMAIN q -> {"sent", "ok", "error"}], IsFiniteSet(DOMAIN q),
         failed \in Nat, succeeded \in Nat, Serve(q)
  PROVE  /\ DOMAIN queue' = Reported(q, "sent")
         /\ queue' \in [DOMAIN queue' -> {"sent", "ok", "error"}]
         /\ \A e \in DOMAIN queue' : queue'[e] = "sent"
         /\ failed' \in Nat /\ succeeded' \in Nat
         /\ Cardinality(DOMAIN queue') \in Nat
         /\ Cardinality(DOMAIN queue') <= Cardinality(DOMAIN q)
         /\ Cardinality(DOMAIN queue') + failed' + succeeded'
              = Cardinality(DOMAIN q) + failed + succeeded
         /\ failed' = 0 => failed = 0 /\ Reported(q, "error") = {}
<1>1. /\ queue' = [e \in Reported(q, "sent") |-> "sent"]
      /\ succeeded' = succeeded + Cardinality(Reported(q, "ok"))
      /\ failed' = failed + Cardinality(Reported(q, "error"))
  BY DEF Serve
<1>2. /\ Cardinality(Reported(q, "sent")) \in Nat /\ Cardinality(Reported(q, "ok")) \in Nat
      /\ Cardinality(Reported(q, "error")) \in Nat
      /\ Cardinality(DOMAIN q) = Cardinality(Reported(q, "sent"))
           + Cardinality(Reported(q, "ok")) + Cardinality(Reported(q, "error"))
      /\ Cardinality(Reported(q, "error")) = 0 => Reported(q, "error") = {}
  BY QueueParts
<1>3. /\ DOMAIN queue' = Reported(q, "sent")
      /\ queue' \in [DOMAIN queue' -> {"sent", "ok", "error"}]
      /\ \A e \in DOMAIN queue' : queue'[e] = "sent"
  BY <1>1
<1>4. Cardinality(DOMAIN queue') = Cardinality(Reported(q, "sent"))
  BY <1>3
<1>5. QED
  BY <1>1, <1>2, <1>3, <1>4

LEMMA FlushStep ==
  ASSUME ProducerInv, Flush
  PROVE  ProducerInv'
<1>0. ProducerTypes /\ LogTrue /\ StoredOnce /\ LoopsTrue /\ QueueTrue /\ Accounted /\ EverythingCounted
  BY DEF ProducerInv
<1>1. /\ phase = "flush" /\ Reported(queue, "sent") = {} /\ Serve(queue)
      /\ UNCHANGED <<readable, run, todo, log, faults>>
      /\ phase' = IF failed' = 0 THEN "exit0" ELSE "exit1"
  BY DEF Flush
<1>2. queue \in [DOMAIN queue -> {"sent", "ok", "error"}] /\ failed \in Nat /\ succeeded \in Nat
  BY <1>0 DEF ProducerTypes
<1>3. IsFiniteSet(DOMAIN queue) /\ Cardinality(DOMAIN queue) \in Nat /\ Cardinality(todo) \in Nat
  BY <1>0, SetsFinite
<1>4. /\ DOMAIN queue' = {}
      /\ queue' \in [DOMAIN queue' -> {"sent", "ok", "error"}]
      /\ failed' \in Nat /\ succeeded' \in Nat
      /\ Cardinality(DOMAIN queue') \in Nat
      /\ Cardinality(DOMAIN queue') <= Cardinality(DOMAIN queue)
      /\ Cardinality(DOMAIN queue') + failed' + succeeded'
           = Cardinality(DOMAIN queue) + failed + succeeded
      /\ failed' = 0 => failed = 0 /\ Reported(queue, "error") = {}
  BY <1>1, <1>2, <1>3, ServeEffect
<1>5. AllWork' = AllWork /\ (XmlWork \cup JsonWork)' = AllWork /\ XmlWork \cup JsonWork = AllWork
  BY <1>1, WorkSame DEF AllWork
<1>6. phase' \in {"exit0", "exit1"} /\ todo = {}
  BY <1>0, <1>1 DEF LoopsTrue
<1>7. \A e : InLog(e)' <=> InLog(e)
  BY <1>1, LogSame
<1>8. ProducerTypes'
  <2>1. Cardinality(DOMAIN queue') <= QueueLimit
    BY <1>0, <1>3, <1>4, ProducerAssumption DEF ProducerTypes
  <2>2. QED
    BY <1>0, <1>1, <1>4, <1>5, <1>6, <2>1 DEF ProducerTypes
<1>9. LoopsTrue' /\ QueueTrue'
  BY <1>1, <1>4, <1>6 DEF LoopsTrue, QueueTrue
<1>10. Accounted'
  <2>1. SUFFICES ASSUME failed' = 0, NEW e \in AllWork PROVE InLog(e)
    BY <1>5, <1>7 DEF Accounted
  <2>2. e \in DOMAIN queue \/ InLog(e)
    BY <1>0, <1>1, <1>4, <1>6, <2>1 DEF Accounted
  <2>3. e \in DOMAIN queue => queue[e] = "ok"
    BY <1>1, <1>2, <1>4, <2>1 DEF Reported
  <2>4. QED
    BY <1>0, <2>2, <2>3 DEF QueueTrue
<1>11. LogTrue' /\ StoredOnce'
  BY <1>1, <1>6, MainKeepsLog
<1>12. EverythingCounted'
  <2>1. Cardinality(todo) + Cardinality(DOMAIN queue) + failed + succeeded = Cardinality(AllWork)
    BY <1>0, <1>1, <1>5 DEF EverythingCounted
  <2>2. Cardinality(todo) + (Cardinality(DOMAIN queue') + failed' + succeeded') = Cardinality(AllWork)
    <3>1. Cardinality(todo) + (Cardinality(DOMAIN queue) + failed + succeeded) = Cardinality(AllWork)
      BY <1>2, <1>3, <2>1
    <3>2. QED
      BY <1>4, <3>1
  <2>3. Cardinality(todo) + Cardinality(DOMAIN queue') + failed' + succeeded' = Cardinality(AllWork)
    BY <1>3, <1>4, <2>2
  <2>4. QED
    BY <1>1, <1>5, <2>3 DEF EverythingCounted
<1>13. QED
  BY <1>8, <1>9, <1>10, <1>11, <1>12 DEF ProducerInv

LEMMA LoopEndsStep ==
  ASSUME ProducerInv, LoopEnds
  PROVE  ProducerInv'
<1>0. ProducerTypes /\ LogTrue /\ StoredOnce /\ LoopsTrue /\ QueueTrue /\ Accounted /\ EverythingCounted
  BY DEF ProducerInv
<1>1. /\ phase \in {"xml", "json"} /\ \A e \in todo : Form[e[1]] # phase
      /\ UNCHANGED <<readable, run, todo, queue, failed, succeeded, log, faults>>
      /\ phase' = IF phase = "xml" THEN "json" ELSE "flush"
  BY DEF LoopEnds
<1>2. AllWork' = AllWork /\ (XmlWork \cup JsonWork)' = XmlWork \cup JsonWork
  BY <1>1, WorkSame
<1>3. \A e : InLog(e)' <=> InLog(e)
  BY <1>1, LogSame
<1>4. \A e \in todo : Form[e[1]] \in {"xml", "json"}
  BY <1>0, AllWorkFacts DEF ProducerTypes
<1>5. LoopsTrue'
  BY <1>0, <1>1, <1>4 DEF LoopsTrue
<1>6. ProducerTypes'
  BY <1>0, <1>1, <1>2 DEF ProducerTypes
<1>7. QueueTrue' /\ Accounted' /\ EverythingCounted'
  BY <1>0, <1>1, <1>2, <1>3 DEF QueueTrue, Accounted, EverythingCounted
<1>8. LogTrue' /\ StoredOnce'
  BY <1>1, MainKeepsLog
<1>9. QED
  BY <1>5, <1>6, <1>7, <1>8 DEF ProducerInv

LEMMA KillStep ==
  ASSUME ProducerInv, Kill
  PROVE  ProducerInv'
<1>0. ProducerTypes
  BY DEF ProducerInv
<1>1. /\ phase' = "dead" /\ queue' = NoQueue /\ todo' = {}
      /\ UNCHANGED <<readable, run, failed, succeeded, log>>
  BY DEF Kill
<1>2. AllWork' = AllWork
  BY <1>1, WorkSame
<1>3. DOMAIN queue' = {} /\ queue' \in [DOMAIN queue' -> {"sent", "ok", "error"}]
      /\ Cardinality(DOMAIN queue') <= QueueLimit
  <2>1. DOMAIN queue' = {} /\ queue' \in [DOMAIN queue' -> {"sent", "ok", "error"}]
    BY <1>1, NoQueueFacts
  <2>2. QED
    BY <2>1, FS_EmptySet, ProducerAssumption
<1>4. ProducerTypes'
  BY <1>0, <1>1, <1>2, <1>3 DEF ProducerTypes
<1>5. LoopsTrue' /\ QueueTrue' /\ Accounted' /\ EverythingCounted'
  BY <1>1, <1>3 DEF LoopsTrue, QueueTrue, Accounted, EverythingCounted
<1>6. LogTrue' /\ StoredOnce'
  BY <1>1, MainKeepsLog
<1>7. QED
  BY <1>4, <1>5, <1>6 DEF ProducerInv

LEMMA RerunStep ==
  ASSUME ProducerInv, Rerun
  PROVE  ProducerInv'
<1>0. ProducerTypes /\ LogTrue /\ StoredOnce /\ LoopsTrue
  BY DEF ProducerInv
<1>1. /\ phase \in {"exit0", "exit1", "dead"} /\ run < MaxRuns
      /\ run' = run + 1 /\ phase' = "begin"
      /\ UNCHANGED <<readable, todo, queue, failed, succeeded, log, faults>>
  BY DEF Rerun
<1>2. AllWork' = AllWork
  BY <1>1, WorkSame
<1>3. todo = {} /\ DOMAIN queue = {}
  BY <1>0, <1>1 DEF LoopsTrue
<1>4. run \in Nat /\ MaxRuns \in Nat /\ run' \in 1 .. MaxRuns
  BY <1>0, <1>1, ProducerAssumption DEF ProducerTypes
<1>5. ProducerTypes'
  BY <1>0, <1>1, <1>2, <1>4 DEF ProducerTypes
<1>6. LoopsTrue' /\ QueueTrue' /\ Accounted' /\ EverythingCounted'
  BY <1>1, <1>3 DEF LoopsTrue, QueueTrue, Accounted, EverythingCounted
<1>7. LogTrue'
  <2>1. SUFFICES ASSUME NEW t \in Topics, NEW i \in DOMAIN log[t]
                 PROVE  log[t][i].run <= run + 1 /\ log[t][i].run < run + 1
    BY <1>0, <1>1, <1>2 DEF LogTrue
  <2>2. log[t] \in Seq(Stored) /\ i \in 1 .. Len(log[t])
    BY <1>0, <2>1, LenProperties DEF ProducerTypes
  <2>3. log[t][i] \in Stored
    BY <2>2, ElementOfSeq
  <2>4. log[t][i].run \in Nat /\ log[t][i].run <= run
    BY <1>0, <2>3, StoredFacts DEF LogTrue
  <2>5. QED
    BY <1>4, <2>4
<1>8. StoredOnce'
  BY <1>0, <1>1 DEF StoredOnce
<1>9. QED
  BY <1>5, <1>6, <1>7, <1>8 DEF ProducerInv

(* The next source is refused, unreadable, or finds the queue full: counted. *)
LEMMA CountedStep ==
  ASSUME ProducerInv, NEW e \in todo, phase \in {"xml", "json"},
         todo' = todo \ {e}, failed' = failed + 1,
         UNCHANGED <<queue, succeeded, readable, phase, run, log>>
  PROVE  ProducerInv'
<1>0. ProducerTypes /\ LogTrue /\ StoredOnce /\ LoopsTrue /\ QueueTrue /\ Accounted /\ EverythingCounted
  BY DEF ProducerInv
<1>1. AllWork' = AllWork /\ (XmlWork \cup JsonWork)' = AllWork /\ XmlWork \cup JsonWork = AllWork
  BY WorkSame DEF AllWork
<1>2. \A x : InLog(x)' <=> InLog(x)
  BY LogSame
<1>3. failed \in Nat /\ succeeded \in Nat /\ failed' \in Nat /\ failed' # 0
  BY <1>0 DEF ProducerTypes
<1>4. ProducerTypes'
  BY <1>0, <1>1, <1>3 DEF ProducerTypes
<1>5. LoopsTrue' /\ QueueTrue' /\ Accounted'
  BY <1>0, <1>2, <1>3 DEF LoopsTrue, QueueTrue, Accounted
<1>6. LogTrue' /\ StoredOnce'
  BY MainKeepsLog
<1>7. EverythingCounted'
  <2>1. Cardinality(todo) + Cardinality(DOMAIN queue) + failed + succeeded = Cardinality(AllWork)
    BY <1>0, <1>1 DEF EverythingCounted
  <2>2. /\ IsFiniteSet(todo) /\ Cardinality(todo) \in Nat /\ Cardinality(DOMAIN queue) \in Nat
        /\ Cardinality(AllWork) \in Nat
    BY <1>0, SetsFinite
  <2>3. Cardinality(todo') = Cardinality(todo) - 1
    BY <2>2, FS_RemoveElement
  <2>4. Cardinality(todo') + Cardinality(DOMAIN queue) + failed' + succeeded = Cardinality(AllWork)
    BY <1>3, <2>1, <2>2, <2>3
  <2>5. QED
    BY <1>1, <2>4 DEF EverythingCounted
<1>8. QED
  BY <1>4, <1>5, <1>6, <1>7 DEF ProducerInv

(* The next source goes to the queue, and poll(0) serves the reports. *)
LEMMA QueuedStep ==
  ASSUME ProducerInv, NEW e \in todo, phase \in {"xml", "json"}, e[1] \in readable,
         todo' = todo \ {e}, Cardinality(DOMAIN queue) # QueueLimit,
         Serve([x \in DOMAIN queue \cup {e} |-> IF x = e THEN "sent" ELSE queue[x]]),
         UNCHANGED <<readable, phase, run, log>>
  PROVE  ProducerInv'
<1> DEFINE q == [x \in DOMAIN queue \cup {e} |-> IF x = e THEN "sent" ELSE queue[x]]
<1>0. ProducerTypes /\ LogTrue /\ StoredOnce /\ LoopsTrue /\ QueueTrue /\ Accounted /\ EverythingCounted
  BY DEF ProducerInv
<1>1. AllWork' = AllWork /\ (XmlWork \cup JsonWork)' = AllWork /\ XmlWork \cup JsonWork = AllWork
  BY WorkSame DEF AllWork
<1>2. \A x : InLog(x)' <=> InLog(x)
  BY LogSame
<1>3. /\ failed \in Nat /\ succeeded \in Nat /\ todo \subseteq AllWork /\ DOMAIN queue \subseteq AllWork
      /\ queue \in [DOMAIN queue -> {"sent", "ok", "error"}]
      /\ Cardinality(DOMAIN queue) <= QueueLimit
  BY <1>0 DEF ProducerTypes
<1>4. /\ IsFiniteSet(todo) /\ IsFiniteSet(DOMAIN queue) /\ Cardinality(todo) \in Nat
      /\ Cardinality(DOMAIN queue) \in Nat /\ Cardinality(AllWork) \in Nat
  BY <1>0, SetsFinite
<1>5. e \notin DOMAIN queue /\ ~InLog(e)
  BY <1>0 DEF QueueTrue
<1>6. DOMAIN q = DOMAIN queue \cup {e} /\ q \in [DOMAIN q -> {"sent", "ok", "error"}]
  BY <1>3
<1>7. IsFiniteSet(DOMAIN q) /\ Cardinality(DOMAIN q) = Cardinality(DOMAIN queue) + 1
  BY <1>4, <1>5, <1>6, FS_AddElement
<1>8. /\ Reported(q, "sent") = Reported(queue, "sent") \cup {e}
      /\ Reported(q, "error") = Reported(queue, "error")
  BY <1>5 DEF Reported
<1>9. Serve(q)
  OBVIOUS
<1> HIDE DEF q
<1>10. /\ DOMAIN queue' = Reported(q, "sent")
       /\ queue' \in [DOMAIN queue' -> {"sent", "ok", "error"}]
       /\ \A x \in DOMAIN queue' : queue'[x] = "sent"
       /\ failed' \in Nat /\ succeeded' \in Nat
       /\ Cardinality(DOMAIN queue') \in Nat
       /\ Cardinality(DOMAIN queue') <= Cardinality(DOMAIN q)
       /\ Cardinality(DOMAIN queue') + failed' + succeeded'
            = Cardinality(DOMAIN q) + failed + succeeded
       /\ failed' = 0 => failed = 0 /\ Reported(q, "error") = {}
  BY <1>3, <1>6, <1>7, <1>9, ServeEffect
<1>11. ProducerTypes'
  <2>1. Cardinality(DOMAIN queue') <= QueueLimit
    BY <1>3, <1>4, <1>7, <1>10, ProducerAssumption
  <2>2. DOMAIN queue' \subseteq AllWork
    BY <1>3, <1>8, <1>10 DEF Reported
  <2>3. QED
    BY <1>0, <1>1, <1>10, <2>1, <2>2 DEF ProducerTypes
<1>12. LoopsTrue'
  BY <1>0 DEF LoopsTrue
<1>13. QueueTrue'
  <2>1. ASSUME NEW x \in DOMAIN queue'
        PROVE  x \notin todo' /\ x[1] \in readable' /\ queue'[x] = "sent" /\ ~InLog(x)'
    <3>1. x = e \/ (x \in DOMAIN queue /\ queue[x] = "sent")
      BY <1>8, <1>10, <2>1 DEF Reported
    <3>2. QED
      BY <1>0, <1>2, <1>5, <1>10, <2>1, <3>1 DEF QueueTrue
  <2>2. \A x \in todo' : ~InLog(x)'
    BY <1>0, <1>2 DEF QueueTrue
  <2>3. QED
    BY <2>1, <2>2 DEF QueueTrue
<1>14. Accounted'
  <2>1. SUFFICES ASSUME failed' = 0, NEW x \in AllWork
                 PROVE  x \in todo' \/ x \in DOMAIN queue' \/ InLog(x)
    BY <1>1, <1>2 DEF Accounted
  <2>2. x \in todo \/ x \in DOMAIN queue \/ InLog(x)
    BY <1>0, <1>10, <2>1 DEF Accounted
  <2>3. x \in DOMAIN queue => queue[x] \in {"sent", "ok"}
    BY <1>3, <1>8, <1>10, <2>1 DEF Reported
  <2>4. x \in DOMAIN queue => x \in DOMAIN queue' \/ InLog(x)
    BY <1>0, <1>8, <1>10, <2>3 DEF Reported, QueueTrue
  <2>5. e \in DOMAIN queue'
    BY <1>8, <1>10
  <2>6. QED
    BY <2>2, <2>4, <2>5
<1>15. LogTrue' /\ StoredOnce'
  BY MainKeepsLog
<1>16. EverythingCounted'
  <2>1. Cardinality(todo) + Cardinality(DOMAIN queue) + failed + succeeded = Cardinality(AllWork)
    BY <1>0, <1>1 DEF EverythingCounted
  <2>2. Cardinality(todo') = Cardinality(todo) - 1
    BY <1>4, FS_RemoveElement
  <2>3. Cardinality(DOMAIN queue') + failed' + succeeded'
          = Cardinality(DOMAIN queue) + 1 + failed + succeeded
    BY <1>3, <1>7, <1>10
  <2>4. Cardinality(todo') + (Cardinality(DOMAIN queue') + failed' + succeeded') = Cardinality(AllWork)
    <3>1. (Cardinality(todo) - 1) + (Cardinality(DOMAIN queue) + 1 + failed + succeeded)
            = Cardinality(AllWork)
      BY <1>3, <1>4, <2>1
    <3>2. QED
      BY <2>2, <2>3, <3>1
  <2>5. Cardinality(todo') + Cardinality(DOMAIN queue') + failed' + succeeded' = Cardinality(AllWork)
    BY <1>4, <1>10, <2>2, <2>4
  <2>6. QED
    BY <1>1, <2>5 DEF EverythingCounted
<1>17. QED
  BY <1>11, <1>12, <1>13, <1>14, <1>15, <1>16 DEF ProducerInv

LEMMA NextEventStep ==
  ASSUME ProducerInv, NEW e \in todo, NEW refused \in BOOLEAN, NextEvent(e, refused)
  PROVE  ProducerInv'
<1>1. /\ phase \in {"xml", "json"} /\ todo' = todo \ {e}
      /\ UNCHANGED <<readable, phase, run, log>>
      /\ \/ failed' = failed + 1 /\ UNCHANGED <<queue, succeeded>>
         \/ /\ e[1] \in readable /\ Cardinality(DOMAIN queue) # QueueLimit
            /\ Serve([x \in DOMAIN queue \cup {e} |-> IF x = e THEN "sent" ELSE queue[x]])
  BY DEF NextEvent, Produce
<1>2. CASE failed' = failed + 1 /\ UNCHANGED <<queue, succeeded>>
  BY <1>1, <1>2, CountedStep
<1>3. CASE /\ e[1] \in readable /\ Cardinality(DOMAIN queue) # QueueLimit
           /\ Serve([x \in DOMAIN queue \cup {e} |-> IF x = e THEN "sent" ELSE queue[x]])
  BY <1>1, <1>3, QueuedStep
<1>4. QED
  BY <1>1, <1>2, <1>3

(* The broker stores the message: the topics grow by it, and by nothing else. *)
LEMMA StoredEffect ==
  ASSUME ProducerInv, NEW e \in AllWork, run' = run,
         log' = [log EXCEPT ![Route[e[1]]] = Append(@, Message(e))]
  PROVE  /\ log' \in [Topics -> Seq(Stored)]
         /\ \A t \in Topics : \A i \in DOMAIN log[t] : i \in DOMAIN log'[t] /\ log'[t][i] = log[t][i]
         /\ \E n \in DOMAIN log'[Route[e[1]]] : log'[Route[e[1]]][n] = Msg(e, run)
         /\ \A t \in Topics : \A i \in DOMAIN log'[t] :
              \/ i \in DOMAIN log[t]
              \/ t = Route[e[1]] /\ i = Len(log[t]) + 1 /\ log'[t][i] = Msg(e, run)
         /\ \A x : InLog(x)' <=> (InLog(x) \/ x = e)
<1> DEFINE t0 == Route[e[1]]
           m0 == Msg(e, run)
<1>1. /\ readable \subseteq Files /\ run \in 1 .. MaxRuns /\ log \in [Topics -> Seq(Stored)]
  BY DEF ProducerInv, ProducerTypes
<1>2. t0 \in Topics /\ e \in Work
  BY <1>1, AllWorkFacts
<1>3. Message(e) = m0 /\ m0 \in Stored /\ m0.event = e /\ m0.run = run
  BY <1>1, <1>2 DEF Message, Msg, Stored
<1> HIDE DEF t0, m0
<1>4. log' = [log EXCEPT ![t0] = Append(log[t0], m0)]
  BY <1>3 DEF t0
<1>5. log[t0] \in Seq(Stored) /\ Len(log[t0]) \in Nat /\ DOMAIN log[t0] = 1 .. Len(log[t0])
  BY <1>1, <1>2, LenProperties
<1>6. /\ Append(log[t0], m0) \in Seq(Stored)
      /\ DOMAIN Append(log[t0], m0) = 1 .. Len(log[t0]) + 1
      /\ \A i \in 1 .. Len(log[t0]) : Append(log[t0], m0)[i] = log[t0][i]
      /\ Append(log[t0], m0)[Len(log[t0]) + 1] = m0
  BY <1>3, <1>5, AppendProperties
<1>7. log' \in [Topics -> Seq(Stored)]
  BY <1>1, <1>2, <1>4, <1>6
<1>8. log'[t0] = Append(log[t0], m0) /\ \A t \in Topics : t # t0 => log'[t] = log[t]
  BY <1>1, <1>2, <1>4
<1>9. \A t \in Topics : \A i \in DOMAIN log[t] : i \in DOMAIN log'[t] /\ log'[t][i] = log[t][i]
  BY <1>5, <1>6, <1>8
<1>10. Len(log[t0]) + 1 \in DOMAIN log'[t0] /\ log'[t0][Len(log[t0]) + 1] = m0
  BY <1>5, <1>6, <1>8
<1>11. \A t \in Topics : \A i \in DOMAIN log'[t] :
          \/ i \in DOMAIN log[t]
          \/ t = t0 /\ i = Len(log[t]) + 1 /\ log'[t][i] = m0
  BY <1>5, <1>6, <1>8
<1>12. \A x : InLog(x)' <=> (InLog(x) \/ x = e)
  <2>1. ASSUME NEW x, InLog(x) PROVE InLog(x)'
    BY <1>9, <2>1 DEF InLog
  <2>2. InLog(e)'
    BY <1>2, <1>3, <1>10 DEF InLog
  <2>3. ASSUME NEW x, InLog(x)', x # e PROVE InLog(x)
    <3>0. PICK t \in Topics : \E i \in DOMAIN log'[t] : log'[t][i].event = x /\ log'[t][i].run = run
      BY <2>3 DEF InLog
    <3>1. PICK i \in DOMAIN log'[t] : log'[t][i].event = x /\ log'[t][i].run = run
      BY <3>0
    <3>2. i \in DOMAIN log[t]
      BY <1>3, <1>11, <2>3, <3>1
    <3>3. QED
      BY <1>9, <3>1, <3>2 DEF InLog
  <2>4. QED
    BY <2>1, <2>2, <2>3
<1>13. QED
  BY <1>7, <1>9, <1>10, <1>11, <1>12 DEF t0, m0

(* What a delivery changes of the topics keeps them true, stored or not. *)
LEMMA DeliverLog ==
  ASSUME ProducerInv, NEW e \in AllWork, e[1] \in readable, ~InLog(e), phase # "begin",
         log' = [log EXCEPT ![Route[e[1]]] = Append(@, Message(e))],
         UNCHANGED <<readable, phase, run>>
  PROVE  LogTrue' /\ StoredOnce'
<1> DEFINE t0 == Route[e[1]]
           m0 == Msg(e, run)
<1>0. /\ log' \in [Topics -> Seq(Stored)]
      /\ \A t \in Topics : \A i \in DOMAIN log[t] : i \in DOMAIN log'[t] /\ log'[t][i] = log[t][i]
      /\ \A t \in Topics : \A i \in DOMAIN log'[t] :
           \/ i \in DOMAIN log[t]
           \/ t = t0 /\ i = Len(log[t]) + 1 /\ log'[t][i] = m0
  BY StoredEffect
<1>1. m0.event = e /\ m0.run = run
  BY DEF Msg
<1>2. LogTrue /\ StoredOnce /\ run \in Nat
  BY DEF ProducerInv, ProducerTypes
<1>3. AllWork' = AllWork
  BY WorkSame
<1>4. \A t \in Topics : \A i \in DOMAIN log[t] : ~(log[t][i].event = e /\ log[t][i].run = run)
  BY DEF InLog
<1> HIDE DEF t0, m0
<1>5. LogTrue'
  <2>1. SUFFICES ASSUME NEW t \in Topics, NEW i \in DOMAIN log'[t]
                 PROVE  /\ log'[t][i].event \in AllWork /\ log'[t][i].event[1] \in readable
                        /\ t = Route[log'[t][i].event[1]]
                        /\ log'[t][i].run <= run
    BY <1>3 DEF LogTrue
  <2>2. CASE i \in DOMAIN log[t]
    BY <1>0, <1>2, <2>2 DEF LogTrue
  <2>3. CASE i \notin DOMAIN log[t]
    <3>1. t = t0 /\ log'[t][i] = m0
      BY <1>0, <2>1, <2>3
    <3>2. QED
      BY <1>1, <1>2, <3>1 DEF t0
  <2>4. QED
    BY <2>2, <2>3
<1>6. StoredOnce'
  <2>1. SUFFICES ASSUME NEW t \in Topics, NEW i \in DOMAIN log'[t], NEW j \in DOMAIN log'[t],
                        log'[t][i].event = log'[t][j].event, log'[t][i].run = log'[t][j].run
                 PROVE  i = j
    BY DEF StoredOnce
  <2>2. CASE i \in DOMAIN log[t] /\ j \in DOMAIN log[t]
    BY <1>0, <1>2, <2>1, <2>2 DEF StoredOnce
  <2>3. CASE i \in DOMAIN log[t] /\ j \notin DOMAIN log[t]
    BY <1>0, <1>1, <1>4, <2>1, <2>3
  <2>4. CASE i \notin DOMAIN log[t] /\ j \in DOMAIN log[t]
    BY <1>0, <1>1, <1>4, <2>1, <2>4
  <2>5. CASE i \notin DOMAIN log[t] /\ j \notin DOMAIN log[t]
    BY <1>0, <2>1, <2>5
  <2>6. QED
    BY <2>2, <2>3, <2>4, <2>5
<1>7. QED
  BY <1>5, <1>6

LEMMA DeliverStep ==
  ASSUME ProducerInv, NEW e \in DOMAIN queue, NEW stored \in BOOLEAN,
         NEW reply \in {"ok", "error"}, Deliver(e, stored, reply)
  PROVE  ProducerInv'
<1>0. ProducerTypes /\ LogTrue /\ StoredOnce /\ LoopsTrue /\ QueueTrue /\ Accounted /\ EverythingCounted
  BY DEF ProducerInv
<1>1. /\ queue[e] = "sent" /\ (stored \/ reply = "error")
      /\ queue' = [queue EXCEPT ![e] = reply]
      /\ log' = IF stored THEN [log EXCEPT ![Route[e[1]]] = Append(@, Message(e))] ELSE log
      /\ UNCHANGED <<readable, phase, run, todo, failed, succeeded>>
  BY DEF Deliver, Reported
<1>2. AllWork' = AllWork /\ (XmlWork \cup JsonWork)' = AllWork /\ XmlWork \cup JsonWork = AllWork
  BY <1>1, WorkSame DEF AllWork
<1>3. e \in AllWork /\ queue \in [DOMAIN queue -> {"sent", "ok", "error"}]
  BY <1>0 DEF ProducerTypes
<1>4. e \notin todo /\ e[1] \in readable /\ ~InLog(e)
  BY <1>0, <1>1 DEF QueueTrue
<1>5. phase # "begin"
  BY <1>0 DEF LoopsTrue
<1>6. /\ DOMAIN queue' = DOMAIN queue
      /\ queue' \in [DOMAIN queue' -> {"sent", "ok", "error"}]
      /\ queue'[e] = reply
      /\ \A x \in DOMAIN queue : x # e => queue'[x] = queue[x]
  BY <1>1, <1>3
<1>7. /\ log' \in [Topics -> Seq(Stored)] /\ LogTrue' /\ StoredOnce'
      /\ \A x : InLog(x) => InLog(x)'
      /\ \A x : InLog(x)' => InLog(x) \/ x = e
      /\ stored => InLog(e)'
  <2>1. CASE stored
    BY <1>1, <1>3, <1>4, <1>5, <2>1, StoredEffect, DeliverLog
  <2>2. CASE ~stored
    <3>1. \A x : InLog(x)' <=> InLog(x)
      BY <1>1, <2>2, LogSame
    <3>2. LogTrue' /\ StoredOnce'
      BY <1>1, <1>5, <2>2, MainKeepsLog
    <3>3. QED
      BY <1>0, <1>1, <2>2, <3>1, <3>2 DEF ProducerTypes
  <2>3. QED
    BY <2>1, <2>2
<1>8. ProducerTypes'
  BY <1>0, <1>1, <1>2, <1>6, <1>7 DEF ProducerTypes
<1>9. LoopsTrue' /\ EverythingCounted'
  BY <1>0, <1>1, <1>2, <1>6 DEF LoopsTrue, EverythingCounted
<1>10. QueueTrue'
  <2>1. \A x \in todo' : ~InLog(x)'
    BY <1>0, <1>1, <1>4, <1>7 DEF QueueTrue
  <2>2. ASSUME NEW x \in DOMAIN queue'
        PROVE  /\ x \notin todo' /\ x[1] \in readable'
               /\ queue'[x] = "ok" => InLog(x)'
               /\ queue'[x] = "sent" => ~InLog(x)'
    <3>1. CASE x = e
      BY <1>1, <1>4, <1>6, <1>7, <3>1
    <3>2. CASE x # e
      BY <1>0, <1>1, <1>6, <1>7, <2>2, <3>2 DEF QueueTrue
    <3>3. QED
      BY <3>1, <3>2
  <2>3. QED
    BY <2>1, <2>2 DEF QueueTrue
<1>11. Accounted'
  BY <1>0, <1>1, <1>2, <1>6, <1>7 DEF Accounted
<1>12. QED
  BY <1>7, <1>8, <1>9, <1>10, <1>11 DEF ProducerInv

-----------------------------------------------------------------------------
(* The invariant holds, and what it says of a run's exit status *)

LEMMA ProducerInit == Init => ProducerInv
<1>1. SUFFICES ASSUME Init PROVE ProducerInv
  OBVIOUS
<1>2. /\ readable \subseteq Files /\ phase = "begin" /\ run = 1 /\ todo = {} /\ queue = NoQueue
      /\ failed = 0 /\ succeeded = 0 /\ log = [t \in Topics |-> <<>>]
  BY <1>1 DEF Init
<1>3. /\ DOMAIN queue = {} /\ queue \in [DOMAIN queue -> {"sent", "ok", "error"}]
      /\ Cardinality(DOMAIN queue) <= QueueLimit
  BY <1>2, NoQueueFacts, FS_EmptySet, ProducerAssumption
<1>4. log \in [Topics -> Seq(Stored)] /\ \A t \in Topics : DOMAIN log[t] = {}
  <2>1. <<>> \in Seq(Stored) /\ DOMAIN <<>> = {}
    OBVIOUS
  <2>2. QED
    BY <1>2, <2>1
<1>5. ProducerTypes
  BY <1>2, <1>3, <1>4, ProducerAssumption DEF ProducerTypes
<1>6. LoopsTrue /\ QueueTrue /\ Accounted /\ EverythingCounted
  BY <1>2, <1>3 DEF LoopsTrue, QueueTrue, Accounted, EverythingCounted
<1>7. LogTrue /\ StoredOnce
  BY <1>4 DEF LogTrue, StoredOnce
<1>8. QED
  BY <1>5, <1>6, <1>7 DEF ProducerInv

LEMMA ProducerNext ==
  ASSUME ProducerInv, [Next]_<<prodvars, log, faults>>
  PROVE  ProducerInv'
<1>1. CASE UNCHANGED <<prodvars, log, faults>>
  <2>1. /\ UNCHANGED <<readable, phase, run, todo, queue, failed, succeeded, log>>
    BY <1>1 DEF prodvars
  <2>2. AllWork' = AllWork /\ (XmlWork \cup JsonWork)' = XmlWork \cup JsonWork
    BY <2>1, WorkSame
  <2>3. \A x : InLog(x)' <=> InLog(x)
    BY <2>1, LogSame
  <2>4. ProducerTypes' /\ LoopsTrue' /\ EverythingCounted'
    BY <2>1, <2>2 DEF ProducerInv, ProducerTypes, LoopsTrue, EverythingCounted
  <2>5. QueueTrue' /\ Accounted'
    BY <2>1, <2>2, <2>3 DEF ProducerInv, QueueTrue, Accounted
  <2>6. LogTrue' /\ StoredOnce'
    BY <2>1, <2>2 DEF ProducerInv, LogTrue, StoredOnce
  <2>7. QED
    BY <2>4, <2>5, <2>6 DEF ProducerInv
<1>2. CASE ProducerStep
  BY <1>2, BeginStep, NextEventStep, LoopEndsStep, FlushStep DEF ProducerStep
<1>3. CASE BrokerStep
  BY <1>3, DeliverStep DEF BrokerStep
<1>4. CASE ProducerFault
  BY <1>4, NextEventStep, DeliverStep, KillStep DEF ProducerFault
<1>5. CASE Rerun
  BY <1>5, RerunStep
<1>6. QED
  BY <1>1, <1>2, <1>3, <1>4, <1>5 DEF Next

(* The messages a run with exit status 0 stored. *)
LEMMA ExitZeroStored ==
  ASSUME ProducerInv, phase = "exit0"
  PROVE  OfRun(run) = {Msg(e, run) : e \in AllWork}
<1>0. ProducerTypes /\ LogTrue /\ LoopsTrue /\ Accounted
  BY DEF ProducerInv
<1>1. /\ todo = {} /\ DOMAIN queue = {} /\ failed = 0 /\ log \in [Topics -> Seq(Stored)]
  BY <1>0 DEF LoopsTrue, ProducerTypes
<1>2. \A t \in Topics : \A i \in DOMAIN log[t] : log[t][i] = Msg(log[t][i].event, log[t][i].run)
  <2>1. SUFFICES ASSUME NEW t \in Topics, NEW i \in DOMAIN log[t]
                 PROVE  log[t][i] \in Stored
    BY StoredFacts
  <2>2. log[t] \in Seq(Stored) /\ i \in 1 .. Len(log[t])
    BY <1>1, <2>1, LenProperties
  <2>3. QED
    BY <2>2, ElementOfSeq
<1>3. ASSUME NEW m \in OfRun(run) PROVE m \in {Msg(e, run) : e \in AllWork}
  <2>1. PICK t \in Topics : m \in {log[t][i] : i \in DOMAIN log[t]} /\ m.run = run
    BY <1>3 DEF OfRun, Messages
  <2>2. PICK i \in DOMAIN log[t] : m = log[t][i]
    BY <2>1
  <2>3. m.event \in AllWork /\ m = Msg(m.event, run)
    BY <1>0, <1>2, <2>1, <2>2 DEF LogTrue
  <2>4. QED
    BY <2>3
<1>4. ASSUME NEW e \in AllWork PROVE Msg(e, run) \in OfRun(run)
  <2>1. InLog(e)
    BY <1>0, <1>1 DEF Accounted
  <2>2. PICK t \in Topics : \E i \in DOMAIN log[t] : log[t][i].event = e /\ log[t][i].run = run
    BY <2>1 DEF InLog
  <2>3. PICK i \in DOMAIN log[t] : log[t][i].event = e /\ log[t][i].run = run
    BY <2>2
  <2>4. log[t][i] = Msg(e, run) /\ log[t][i] \in Messages
    BY <1>2, <2>3 DEF Messages
  <2>5. QED
    BY <2>3, <2>4 DEF OfRun
<1>5. QED
  BY <1>3, <1>4

LEMMA ProducerInvTrue == ProducerInv => ProducerTrue
<1>0. SUFFICES ASSUME ProducerInv PROVE ProducerTrue
  OBVIOUS
<1>1. ProducerTypes /\ LogTrue /\ LoopsTrue /\ EverythingCounted /\ StoredOnce
  BY <1>0 DEF ProducerInv
<1>2. readable \subseteq Files
  BY <1>1 DEF ProducerTypes
<1>3. ProducerTypeOK
  <2>1. todo \subseteq Work /\ \A e \in DOMAIN queue : Route[e[1]] \in Topics
    BY <1>1, <1>2, AllWorkFacts DEF ProducerTypes
  <2>2. QED
    BY <1>1, <2>1 DEF ProducerTypes, ProducerTypeOK
<1>4. ExitZeroDelivered
  <2>1. SUFFICES ASSUME phase = "exit0"
                 PROVE  /\ {m.event : m \in OfRun(run)} = AllWork
                        /\ succeeded = Cardinality(OfRun(run))
                        /\ \A m \in OfRun(run) : m.event[1] \in readable
    BY <1>2, AllWorkIs DEF ExitZeroDelivered
  <2>2. OfRun(run) = {Msg(e, run) : e \in AllWork}
    BY <1>0, <2>1, ExitZeroStored
  <2>3. \A e : Msg(e, run).event = e
    BY DEF Msg
  <2>4. {m.event : m \in OfRun(run)} = AllWork
    BY <2>2, <2>3
  <2>5. succeeded = Cardinality(AllWork)
    <3>1. todo = {} /\ DOMAIN queue = {} /\ failed = 0 /\ succeeded \in Nat
      BY <1>1, <2>1 DEF LoopsTrue, ProducerTypes
    <3>2. Cardinality(todo) + Cardinality(DOMAIN queue) + failed + succeeded = Cardinality(AllWork)
      BY <1>1, <2>1 DEF EverythingCounted, AllWork
    <3>3. Cardinality(todo) = 0 /\ Cardinality(DOMAIN queue) = 0
      BY <3>1, FS_EmptySet
    <3>4. QED
      BY <3>1, <3>2, <3>3
  <2>6. Cardinality(OfRun(run)) = Cardinality(AllWork)
    <3> DEFINE h == [e \in AllWork |-> Msg(e, run)]
    <3>1. h \in Bijection(AllWork, OfRun(run))
      <4>1. h \in [AllWork -> OfRun(run)]
        BY <2>2
      <4>2. \A a, b \in AllWork : h[a] = h[b] => a = b
        <5>1. \A a \in AllWork : h[a].event = a
          BY <2>3
        <5>2. QED
          BY <5>1
      <4>3. \A m \in OfRun(run) : \E a \in AllWork : h[a] = m
        BY <2>2
      <4> HIDE DEF h
      <4>4. QED
        BY <4>1, <4>2, <4>3 DEF Bijection, Injection, Surjection, IsInjective
    <3>2. IsFiniteSet(AllWork)
      BY <1>1, SetsFinite
    <3> HIDE DEF h
    <3>3. QED
      BY <3>1, <3>2, FS_Bijection DEF ExistsBijection
  <2>7. \A m \in OfRun(run) : m.event[1] \in readable
    BY <1>1 DEF OfRun, Messages, LogTrue
  <2>8. QED
    BY <2>4, <2>5, <2>6, <2>7
<1>5. QED
  BY <1>1, <1>3, <1>4 DEF ProducerTrue

(* One pass over the source files, for any files, routes, queue limit and    *)
(* number of runs, with events refused, messages timed out and the process   *)
(* killed anywhere: exit status 0 means that every source with a route that  *)
(* could be read is on its topic, once, every source of the run is counted   *)
(* exactly once, and no run stores an event twice.                           *)
THEOREM ProducerTrueHolds == ProducerSpec => []ProducerTrue
<1>1. Init => ProducerInv
  BY ProducerInit
<1>2. ProducerInv /\ [Next]_<<prodvars, log, faults>> => ProducerInv'
  BY ProducerNext
<1>3. ProducerInv => ProducerTrue
  BY ProducerInvTrue
<1>4. QED
  BY <1>1, <1>2, <1>3, PTL DEF ProducerSpec

-----------------------------------------------------------------------------
(* The lifecycle job: the inductive invariant.  What is said of the job's    *)
(* state is said of any such state j, so that it holds of the one at work,   *)
(* of the checkpoint under way and of the last completed one: a restore puts *)
(* one in the place of another.  l is the topics, and late says whether a    *)
(* dedup entry has expired.                                                  *)

Stages == {Stage[f] : f \in Files} \cup {"none"}
KeyedStates == [stage : Stages, last : Work, history : Seq(Stages), retries : Nat]
MoveRecords ==
  [id : Correlations \X Work, corr : Correlations, from : Stages, to : Stages, epoch : Nat]
StateRecords == Correlations \X KeyedStates

JobShape(j) ==
  /\ j = [pos |-> j.pos, keyed |-> j.keyed, seen |-> j.seen]
  /\ j.pos \in [InputTopics -> Nat]
  /\ j.keyed \in [DOMAIN j.keyed -> KeyedStates] /\ DOMAIN j.keyed \subseteq Correlations

(* The messages read, the ids of the usable ones, and of a correlation's     *)
(* retries.                                                                  *)
ReadIn(l, j) == UNION {{l[t][i] : i \in 1 .. j.pos[t]} : t \in InputTopics}
IdsIn(l, j) == {m.id : m \in {x \in ReadIn(l, j) : Usable(x)}}
RetriesIn(l, j, c) ==
  {m.id : m \in {x \in ReadIn(l, j) : Correlation[FileOf(x)] = c /\ FileOf(x) \in Retrying}}

(* A state of the job is what follows from the messages it has read. *)
FollowsFrom(l, late, j) ==
  /\ JobShape(j)
  /\ \A t \in InputTopics : j.pos[t] <= Len(l[t])
  /\ j.seen \subseteq IdsIn(l, j)
  /\ \A m \in ReadIn(l, j) : Usable(m) => Correlation[FileOf(m)] \in DOMAIN j.keyed
  /\ ~late => /\ IdsIn(l, j) \subseteq j.seen
              /\ \A c \in DOMAIN j.keyed : j.keyed[c].retries = Cardinality(RetriesIn(l, j, c))

(* Of the records ms and ss for the two sinks, the first a and b hold what   *)
(* the job has to have written in state j.                                   *)
Written(l, j, ms, a, ss, b) ==
  /\ \A x \in IdsIn(l, j) : \E i \in DOMAIN ms : i <= a /\ ms[i].id[2] = x
  /\ \A c \in DOMAIN j.keyed : \E i \in DOMAIN ss : i <= b /\ ss[i] = <<c, j.keyed[c]>>

(* The transitions ms and states ss of a job in state j, restored ep times.  *)
Of(c, ms) == {i \in DOMAIN ms : ms[i].corr = c}
StatesIn(c, ss) == {i \in DOMAIN ss : ss[i][1] = c}
Chained(c, ms) ==
  \A i, k \in Of(c, ms) :
    /\ i < k /\ (\A n \in Of(c, ms) : n <= i \/ n >= k)
    /\ ms[i].epoch = ms[k].epoch
    => ms[k].from = ms[i].to
EndsIn(c, ms, ss, j, ep) ==
  \A i \in Of(c, ms) : LastIn(i, Of(c, ms)) /\ ms[i].epoch = ep =>
    /\ c \in DOMAIN j.keyed /\ ms[i].to = j.keyed[c].stage
    /\ \E n \in StatesIn(c, ss) : LastIn(n, StatesIn(c, ss)) /\ ss[n][2] = j.keyed[c]
MovesTrue(ms, ss, j, ep, late) ==
  /\ \A i \in DOMAIN ms : ms[i].epoch <= ep
  /\ ep = 0 /\ ~late =>
       /\ \A i \in DOMAIN ms : ms[i].id[2] \in j.seen
       /\ \A i, k \in DOMAIN ms : ms[i].id = ms[k].id => i = k
  /\ \A c \in Correlations : Chained(c, ms) /\ EndsIn(c, ms, ss, j, ep)

JobTypes ==
  /\ snap = [under |-> snap.under, job |-> snap.job, upto |-> snap.upto]
  /\ snap.under \in BOOLEAN /\ snap.upto \in [state : Nat, moves : Nat]
  /\ unsent \in [state : Seq(StateRecords), moves : Seq(MoveRecords)]
  /\ state \in Seq(StateRecords) /\ moves \in Seq(MoveRecords)
  /\ epoch \in Nat /\ expired \in BOOLEAN

(* A checkpoint is behind the operators, and the next one ahead of it. *)
OffsetsOrdered ==
  \A t \in InputTopics :
    /\ ckpt.pos[t] <= job.pos[t] /\ snap.job.pos[t] <= job.pos[t]
    /\ snap.under => ckpt.pos[t] <= snap.job.pos[t]

JobInv ==
  /\ ProducerInv /\ JobTypes /\ OffsetsOrdered
  /\ FollowsFrom(log, expired, job) /\ FollowsFrom(log, expired, ckpt)
  /\ FollowsFrom(log, expired, snap.job)
  /\ Written(log, job, AllMoves, Len(AllMoves), AllStates, Len(AllStates))
  /\ Written(log, snap.job, AllMoves, snap.upto.moves, AllStates, snap.upto.state)
  /\ Written(log, ckpt, AllMoves, Len(moves), AllStates, Len(state))
  /\ MovesTrue(AllMoves, AllStates, job, epoch, expired)

-----------------------------------------------------------------------------
(* What the messages and the job's states are *)

(* The id of a usable message fixes its file, whichever run stored it. *)
LEMMA UsableFacts ==
  ASSUME NEW m \in Stored
  PROVE  /\ FileOf(m) \in Files
         /\ Usable(m) =>
              /\ m.id \in Work /\ m.id[1] = FileOf(m)
              /\ Correlation[FileOf(m)] \in Correlations
         /\ \A c \in Correlations : Correlation[FileOf(m)] = c => Usable(m)
<1>1. m.event \in Work /\ m = Msg(m.event, m.run)
  BY StoredFacts
<1>2. m.event = <<m.event[1], m.event[2]>> /\ m.event[1] \in Files
  BY <1>1, WorkFacts
<1>3. m.id = EventId(m.event[1], m.event[2], m.run)
  BY <1>1 DEF Msg
<1>4. FileOf(m) = m.event[1]
  BY DEF FileOf
<1>5. ASSUME Usable(m) PROVE m.id = m.event
  <2>1. m.event[1] \in Technical
    BY <1>2, <1>4, <1>5, JobAssumption DEF Usable
  <2>2. QED
    BY <1>2, <1>3, <2>1 DEF EventId
<1>6. ASSUME Usable(m) PROVE Correlation[FileOf(m)] \in Correlations
  BY <1>2, <1>4, <1>6 DEF Usable, Correlations
<1>7. QED
  BY <1>1, <1>2, <1>4, <1>5, <1>6 DEF Usable, Correlations

LEMMA ReadMember ==
  ASSUME NEW l, NEW j, NEW m
  PROVE  m \in ReadIn(l, j) <=> \E t \in InputTopics : \E i \in 1 .. j.pos[t] : m = l[t][i]
BY DEF ReadIn

(* What a state of the job has read is on the topics. *)
LEMMA ReadStored ==
  ASSUME NEW l \in [Topics -> Seq(Stored)], NEW j, JobShape(j),
         \A t \in InputTopics : j.pos[t] <= Len(l[t])
  PROVE  /\ ReadIn(l, j) \subseteq Stored /\ IdsIn(l, j) \subseteq Work
         /\ \A c \in Correlations : RetriesIn(l, j, c) \subseteq IdsIn(l, j)
<1>1. ASSUME NEW m \in ReadIn(l, j) PROVE m \in Stored
  <2>1. PICK t \in InputTopics : m \in {l[t][i] : i \in 1 .. j.pos[t]}
    BY DEF ReadIn
  <2>2. PICK i \in 1 .. j.pos[t] : m = l[t][i]
    BY <2>1
  <2>3. t \in Topics /\ l[t] \in Seq(Stored) /\ j.pos[t] \in Nat
    BY JobAssumption DEF JobShape
  <2>4. i \in 1 .. Len(l[t])
    BY <2>2, <2>3, LenProperties
  <2>5. QED
    BY <2>2, <2>3, <2>4, ElementOfSeq
<1>2. IdsIn(l, j) \subseteq Work
  BY <1>1, UsableFacts DEF IdsIn
<1>3. ASSUME NEW c \in Correlations PROVE RetriesIn(l, j, c) \subseteq IdsIn(l, j)
  BY <1>1, UsableFacts DEF RetriesIn, IdsIn
<1>4. QED
  BY <1>1, <1>2, <1>3

(* The topics only grow, behind what has been read. *)
Grows(l, k) ==
  \A t \in Topics : Len(l[t]) <= Len(k[t]) /\ \A i \in 1 .. Len(l[t]) : k[t][i] = l[t][i]

LEMMA ReadKept ==
  ASSUME NEW l \in [Topics -> Seq(Stored)], NEW k \in [Topics -> Seq(Stored)], Grows(l, k),
         NEW late, NEW j, FollowsFrom(l, late, j)
  PROVE  FollowsFrom(k, late, j) /\ IdsIn(k, j) = IdsIn(l, j)
<1>1. JobShape(j) /\ \A t \in InputTopics : j.pos[t] <= Len(l[t])
  BY DEF FollowsFrom
<1>2. \A t \in InputTopics : j.pos[t] \in Nat /\ Len(l[t]) \in Nat /\ Len(k[t]) \in Nat
                             /\ Len(l[t]) <= Len(k[t])
  BY <1>1, JobAssumption, LenProperties DEF JobShape, Grows
<1>3. \A t \in InputTopics : \A i \in 1 .. j.pos[t] : k[t][i] = l[t][i]
  BY <1>1, <1>2, JobAssumption DEF Grows
<1>4. ReadIn(k, j) = ReadIn(l, j)
  <2>1. ASSUME NEW m PROVE m \in ReadIn(k, j) <=> m \in ReadIn(l, j)
    <3>1. m \in ReadIn(k, j) <=> \E t \in InputTopics : \E i \in 1 .. j.pos[t] : m = k[t][i]
      BY DEF ReadIn
    <3>2. m \in ReadIn(l, j) <=> \E t \in InputTopics : \E i \in 1 .. j.pos[t] : m = l[t][i]
      BY DEF ReadIn
    <3>3. QED
      BY <1>3, <3>1, <3>2
  <2>2. QED
    BY <2>1
<1>5. IdsIn(k, j) = IdsIn(l, j) /\ \A c : RetriesIn(k, j, c) = RetriesIn(l, j, c)
  BY <1>4 DEF IdsIn, RetriesIn
<1>6. \A t \in InputTopics : j.pos[t] <= Len(k[t])
  BY <1>1, <1>2
<1>7. QED
  BY <1>1, <1>4, <1>5, <1>6 DEF FollowsFrom

(* The next message of a topic, read. *)
LEMMA ReadNext ==
  ASSUME NEW l \in [Topics -> Seq(Stored)], NEW j, JobShape(j), NEW t \in InputTopics,
         j.pos[t] < Len(l[t]), NEW n, n.pos = [j.pos EXCEPT ![t] = @ + 1]
  PROVE  /\ l[t][j.pos[t] + 1] \in Stored
         /\ ReadIn(l, n) = ReadIn(l, j) \cup {l[t][j.pos[t] + 1]}
         /\ (\A u \in InputTopics : j.pos[u] <= Len(l[u])) =>
              \A u \in InputTopics : n.pos[u] <= Len(l[u])
<1>1. t \in Topics /\ j.pos \in [InputTopics -> Nat] /\ l[t] \in Seq(Stored)
  BY JobAssumption DEF JobShape
<1>2. j.pos[t] \in Nat /\ Len(l[t]) \in Nat /\ j.pos[t] + 1 \in 1 .. Len(l[t])
  BY <1>1, LenProperties
<1>3. n.pos[t] = j.pos[t] + 1 /\ \A u \in InputTopics : u # t => n.pos[u] = j.pos[u]
  BY <1>1
<1>4. 1 .. n.pos[t] = (1 .. j.pos[t]) \cup {j.pos[t] + 1}
  BY <1>2, <1>3
<1>5. ReadIn(l, n) = ReadIn(l, j) \cup {l[t][j.pos[t] + 1]}
  <2>1. ASSUME NEW m \in ReadIn(l, n) PROVE m \in ReadIn(l, j) \cup {l[t][j.pos[t] + 1]}
    <3>1. PICK u \in InputTopics : \E i \in 1 .. n.pos[u] : m = l[u][i]
      BY <2>1 DEF ReadIn
    <3>2. PICK i \in 1 .. n.pos[u] : m = l[u][i]
      BY <3>1
    <3>3. CASE u = t /\ i = j.pos[t] + 1
      BY <3>2, <3>3
    <3>4. CASE ~(u = t /\ i = j.pos[t] + 1)
      <4>1. i \in 1 .. j.pos[u]
        BY <1>3, <1>4, <3>4
      <4>2. QED
        BY <3>2, <4>1, ReadMember
    <3>5. QED
      BY <3>3, <3>4
  <2>2. ASSUME NEW m \in ReadIn(l, j) PROVE m \in ReadIn(l, n)
    <3>1. PICK u \in InputTopics : \E i \in 1 .. j.pos[u] : m = l[u][i]
      BY <2>2, ReadMember
    <3>2. 1 .. j.pos[u] \subseteq 1 .. n.pos[u]
      BY <1>3, <1>4
    <3>3. QED
      BY <3>1, <3>2, ReadMember
  <2>3. l[t][j.pos[t] + 1] \in ReadIn(l, n)
    <3>1. j.pos[t] + 1 \in 1 .. n.pos[t]
      BY <1>4
    <3>2. QED
      BY <3>1, ReadMember
  <2>4. QED
    BY <2>1, <2>2, <2>3
<1>6. l[t][j.pos[t] + 1] \in Stored
  BY <1>1, <1>2, ElementOfSeq
<1>7. ASSUME \A u \in InputTopics : j.pos[u] <= Len(l[u])
      PROVE  \A u \in InputTopics : n.pos[u] <= Len(l[u])
  BY <1>2, <1>3, <1>7
<1>8. QED
  BY <1>5, <1>6, <1>7

LEMMA MovedFacts ==
  ASSUME NEW j, JobShape(j), NEW t \in InputTopics
  PROVE  /\ [j EXCEPT !.pos[t] = @ + 1].pos = [j.pos EXCEPT ![t] = @ + 1]
         /\ [j EXCEPT !.pos[t] = @ + 1].keyed = j.keyed
         /\ [j EXCEPT !.pos[t] = @ + 1].seen = j.seen
         /\ JobShape([j EXCEPT !.pos[t] = @ + 1])
<1> DEFINE p == [j.pos EXCEPT ![t] = @ + 1]
<1>1. j = [pos |-> j.pos, keyed |-> j.keyed, seen |-> j.seen]
  BY DEF JobShape
<1>2. [j EXCEPT !.pos[t] = @ + 1] = [pos |-> p, keyed |-> j.keyed, seen |-> j.seen]
  BY <1>1
<1>3. p \in [InputTopics -> Nat]
  BY DEF JobShape
<1> HIDE DEF p
<1>4. JobShape([pos |-> p, keyed |-> j.keyed, seen |-> j.seen])
  BY <1>3 DEF JobShape
<1>5. QED
  BY <1>2, <1>4 DEF p

(* A message passed over, for it is not usable or its id is known. *)
LEMMA FollowsSkip ==
  ASSUME NEW l \in [Topics -> Seq(Stored)], NEW late, NEW j, FollowsFrom(l, late, j),
         NEW t \in InputTopics, j.pos[t] < Len(l[t]),
         ~Usable(l[t][j.pos[t] + 1]) \/ l[t][j.pos[t] + 1].id \in j.seen
  PROVE  /\ FollowsFrom(l, late, [j EXCEPT !.pos[t] = @ + 1])
         /\ IdsIn(l, [j EXCEPT !.pos[t] = @ + 1]) = IdsIn(l, j)
<1> DEFINE m == l[t][j.pos[t] + 1]
           n == [j EXCEPT !.pos[t] = @ + 1]
<1>1. JobShape(j) /\ \A u \in InputTopics : j.pos[u] <= Len(l[u])
  BY DEF FollowsFrom
<1>2. n.pos = [j.pos EXCEPT ![t] = @ + 1] /\ n.keyed = j.keyed /\ n.seen = j.seen /\ JobShape(n)
  BY <1>1, MovedFacts
<1>3. ~Usable(m) \/ m.id \in j.seen
  OBVIOUS
<1> HIDE DEF n
<1>4. /\ m \in Stored /\ ReadIn(l, n) = ReadIn(l, j) \cup {m}
      /\ \A u \in InputTopics : n.pos[u] <= Len(l[u])
  <2>1. /\ l[t][j.pos[t] + 1] \in Stored
        /\ ReadIn(l, n) = ReadIn(l, j) \cup {l[t][j.pos[t] + 1]}
        /\ (\A u \in InputTopics : j.pos[u] <= Len(l[u])) =>
             \A u \in InputTopics : n.pos[u] <= Len(l[u])
    BY <1>1, <1>2, ReadNext, Zenon
  <2>2. QED
    BY <1>1, <2>1
<1>5. ReadIn(l, j) \subseteq Stored
  BY <1>1, ReadStored
<1> HIDE DEF m
<1>6. ASSUME Usable(m)
      PROVE  \E x \in ReadIn(l, j) : Usable(x) /\ x.id = m.id /\ FileOf(x) = FileOf(m)
  <2>1. m.id \in IdsIn(l, j)
    BY <1>3, <1>6 DEF FollowsFrom
  <2>2. PICK x \in ReadIn(l, j) : Usable(x) /\ x.id = m.id
    BY <2>1 DEF IdsIn
  <2>3. QED
    BY <1>4, <1>5, <1>6, <2>2, UsableFacts
<1>7. IdsIn(l, n) = IdsIn(l, j)
  BY <1>4, <1>6 DEF IdsIn
<1>8. ASSUME NEW c \in Correlations PROVE RetriesIn(l, n, c) = RetriesIn(l, j, c)
  <2>1. Correlation[FileOf(m)] = c => Usable(m)
    BY <1>4, UsableFacts
  <2>2. QED
    BY <1>4, <1>6, <2>1 DEF RetriesIn
<1>9. \A x \in ReadIn(l, n) : Usable(x) => Correlation[FileOf(x)] \in DOMAIN n.keyed
  BY <1>2, <1>4, <1>6 DEF FollowsFrom
<1>10. DOMAIN j.keyed \subseteq Correlations
  BY <1>1 DEF JobShape
<1>11. FollowsFrom(l, late, n)
  BY <1>2, <1>4, <1>7, <1>8, <1>9, <1>10 DEF FollowsFrom
<1>12. QED
  BY <1>7, <1>11 DEF n

(* The retries of a correlation, with one more message read. *)
LEMMA RetriesNext ==
  ASSUME NEW l \in [Topics -> Seq(Stored)], NEW j, JobShape(j),
         \A u \in InputTopics : j.pos[u] <= Len(l[u]),
         NEW m \in Stored, m.id \notin IdsIn(l, j),
         NEW n, ReadIn(l, n) = ReadIn(l, j) \cup {m}, NEW c \in Correlations
  PROVE  /\ Cardinality(RetriesIn(l, j, c)) \in Nat
         /\ Correlation[FileOf(m)] = c /\ FileOf(m) \in Retrying =>
              Cardinality(RetriesIn(l, n, c)) = Cardinality(RetriesIn(l, j, c)) + 1
         /\ ~(Correlation[FileOf(m)] = c /\ FileOf(m) \in Retrying) =>
              RetriesIn(l, n, c) = RetriesIn(l, j, c)
<1>1. RetriesIn(l, j, c) \in SUBSET Work /\ m.id \notin RetriesIn(l, j, c)
  BY ReadStored
<1>2. IsFiniteSet(RetriesIn(l, j, c))
  BY <1>1, WorkFinite, FS_Subset
<1>3. Cardinality(RetriesIn(l, j, c)) \in Nat
  BY <1>2, FS_CardinalityType
<1>4. Cardinality(RetriesIn(l, j, c) \cup {m.id}) = Cardinality(RetriesIn(l, j, c)) + 1
  BY <1>1, <1>2, FS_AddElement
<1>5. ASSUME Correlation[FileOf(m)] = c, FileOf(m) \in Retrying
      PROVE  RetriesIn(l, n, c) = RetriesIn(l, j, c) \cup {m.id}
  BY <1>5 DEF RetriesIn
<1>6. ASSUME ~(Correlation[FileOf(m)] = c /\ FileOf(m) \in Retrying)
      PROVE  RetriesIn(l, n, c) = RetriesIn(l, j, c)
  BY <1>6 DEF RetriesIn
<1>7. QED
  BY <1>3, <1>4, <1>5, <1>6

(* Message m of topic t is folded into the state of correlation c, which     *)
(* becomes v: the job is then in state n.                                    *)
NextOf(l, j, t, m) ==
  /\ j.pos[t] < Len(l[t]) /\ m = l[t][j.pos[t] + 1]
  /\ Usable(m) /\ m.id \notin j.seen
FoldedTo(j, m, c, v) ==
  /\ c = Correlation[FileOf(m)]
  /\ v.retries = (IF c \in DOMAIN j.keyed THEN j.keyed[c].retries ELSE 0)
                   + (IF FileOf(m) \in Retrying THEN 1 ELSE 0)
TakenTo(j, n, t, m, c, v) ==
  /\ n = [pos |-> n.pos, keyed |-> n.keyed, seen |-> n.seen]
  /\ n.pos = [j.pos EXCEPT ![t] = @ + 1] /\ n.keyed = Put(j.keyed, c, v)
  /\ n.seen = j.seen \cup {m.id}

LEMMA FollowsTake ==
  ASSUME NEW l \in [Topics -> Seq(Stored)], NEW late, NEW j, FollowsFrom(l, late, j),
         NEW t \in InputTopics, NEW m, NextOf(l, j, t, m), NEW c, NEW v \in KeyedStates,
         FoldedTo(j, m, c, v), NEW n, TakenTo(j, n, t, m, c, v)
  PROVE  FollowsFrom(l, late, n) /\ IdsIn(l, n) = IdsIn(l, j) \cup {m.id}
<1>0. /\ Usable(m) /\ m.id \notin j.seen /\ c = Correlation[FileOf(m)]
      /\ v.retries = (IF c \in DOMAIN j.keyed THEN j.keyed[c].retries ELSE 0)
                       + (IF FileOf(m) \in Retrying THEN 1 ELSE 0)
  BY DEF NextOf, FoldedTo
<1>1. JobShape(j) /\ \A u \in InputTopics : j.pos[u] <= Len(l[u])
  BY DEF FollowsFrom
<1>2. /\ n.pos = [j.pos EXCEPT ![t] = @ + 1] /\ n.keyed = Put(j.keyed, c, v)
      /\ n.seen = j.seen \cup {m.id}
  BY DEF TakenTo
<1>3. /\ m \in Stored /\ ReadIn(l, n) = ReadIn(l, j) \cup {m}
      /\ \A u \in InputTopics : n.pos[u] <= Len(l[u])
  <2>1. /\ l[t][j.pos[t] + 1] \in Stored
        /\ ReadIn(l, n) = ReadIn(l, j) \cup {l[t][j.pos[t] + 1]}
        /\ (\A u \in InputTopics : j.pos[u] <= Len(l[u])) =>
             \A u \in InputTopics : n.pos[u] <= Len(l[u])
    BY <1>1, <1>2, ReadNext, Zenon DEF NextOf
  <2>2. QED
    BY <1>1, <2>1 DEF NextOf
<1>4. c \in Correlations
  BY <1>0, <1>3, UsableFacts
<1>5. /\ DOMAIN n.keyed = DOMAIN j.keyed \cup {c} /\ n.keyed[c] = v
      /\ \A d \in DOMAIN j.keyed : d # c => n.keyed[d] = j.keyed[d]
  BY <1>2 DEF Put
<1>6. JobShape(n)
  <2>1. n.keyed \in [DOMAIN n.keyed -> KeyedStates]
    <3>1. \A d \in DOMAIN n.keyed : n.keyed[d] \in KeyedStates
      BY <1>1, <1>5 DEF JobShape
    <3>2. n.keyed = [d \in DOMAIN n.keyed |-> n.keyed[d]]
      BY <1>2 DEF Put
    <3>3. QED
      BY <3>1, <3>2
  <2>2. n.pos \in [InputTopics -> Nat]
    BY <1>1, <1>2 DEF JobShape
  <2>3. n = [pos |-> n.pos, keyed |-> n.keyed, seen |-> n.seen]
    BY DEF TakenTo
  <2>4. DOMAIN n.keyed \subseteq Correlations
    BY <1>1, <1>4, <1>5 DEF JobShape
  <2>5. QED
    BY <2>1, <2>2, <2>3, <2>4 DEF JobShape
<1>7. IdsIn(l, n) = IdsIn(l, j) \cup {m.id}
  BY <1>0, <1>3 DEF IdsIn
<1>8. n.seen \subseteq IdsIn(l, n)
  BY <1>2, <1>7 DEF FollowsFrom
<1>9. \A x \in ReadIn(l, n) : Usable(x) => Correlation[FileOf(x)] \in DOMAIN n.keyed
  BY <1>0, <1>3, <1>5 DEF FollowsFrom
<1>10. ASSUME ~late PROVE IdsIn(l, n) \subseteq n.seen
  BY <1>2, <1>7, <1>10 DEF FollowsFrom
<1>11. ASSUME ~late, NEW d \in DOMAIN n.keyed
       PROVE  n.keyed[d].retries = Cardinality(RetriesIn(l, n, d))
  <2>1. d \in Correlations /\ m.id \notin IdsIn(l, j)
    BY <1>0, <1>6, <1>11 DEF JobShape, FollowsFrom
  <2>2. /\ Cardinality(RetriesIn(l, j, d)) \in Nat
        /\ Correlation[FileOf(m)] = d /\ FileOf(m) \in Retrying =>
             Cardinality(RetriesIn(l, n, d)) = Cardinality(RetriesIn(l, j, d)) + 1
        /\ ~(Correlation[FileOf(m)] = d /\ FileOf(m) \in Retrying) =>
             RetriesIn(l, n, d) = RetriesIn(l, j, d)
    <3>1. l \in [Topics -> Seq(Stored)]
      OBVIOUS
    <3>2. QED
      BY ONLY <1>1, <1>3, <2>1, <3>1, RetriesNext, ZenonT(30)
  <2>3. CASE d # c
    <3>1. d \in DOMAIN j.keyed /\ n.keyed[d] = j.keyed[d]
      BY <1>5, <1>11, <2>3
    <3>2. j.keyed[d].retries = Cardinality(RetriesIn(l, j, d))
      BY <1>11, <3>1 DEF FollowsFrom
    <3>3. RetriesIn(l, n, d) = RetriesIn(l, j, d)
      BY <1>0, <2>2, <2>3
    <3>4. QED
      BY <3>1, <3>2, <3>3
  <2>4. CASE d = c
    <3>1. (IF c \in DOMAIN j.keyed THEN j.keyed[c].retries ELSE 0)
            = Cardinality(RetriesIn(l, j, d))
      <4>1. CASE c \in DOMAIN j.keyed
        BY <1>11, <2>4, <4>1 DEF FollowsFrom
      <4>2. CASE c \notin DOMAIN j.keyed
        <5>1. ASSUME NEW x \in ReadIn(l, j), Correlation[FileOf(x)] = c PROVE FALSE
          <6>1. x \in Stored
            BY <1>1, ReadStored
          <6>2. Usable(x)
            BY <1>4, <5>1, <6>1, UsableFacts
          <6>3. QED
            BY <4>2, <5>1, <6>2 DEF FollowsFrom
        <5>2. RetriesIn(l, j, d) = {}
          BY <2>4, <5>1 DEF RetriesIn
        <5>3. QED
          BY <4>2, <5>2, FS_EmptySet
      <4>3. QED
        BY <4>1, <4>2
    <3>2. n.keyed[d].retries = Cardinality(RetriesIn(l, j, d))
                                 + (IF FileOf(m) \in Retrying THEN 1 ELSE 0)
      BY <1>0, <1>5, <2>4, <3>1
    <3>3. CASE FileOf(m) \in Retrying
      BY <1>0, <2>2, <2>4, <3>2, <3>3
    <3>4. CASE FileOf(m) \notin Retrying
      <4>1. RetriesIn(l, n, d) = RetriesIn(l, j, d)
        BY <2>2, <3>4
      <4>2. QED
        BY <2>2, <3>2, <3>4, <4>1
    <3>5. QED
      BY <3>3, <3>4
  <2>5. QED
    BY <2>3, <2>4
<1>12. FollowsFrom(l, late, n)
  BY <1>3, <1>6, <1>8, <1>9, <1>10, <1>11 DEF FollowsFrom
<1>13. QED
  BY <1>7, <1>12

(* A dedup entry expires, of this or of another state of the job. *)
LEMMA FollowsLate ==
  ASSUME NEW l, NEW late, NEW j, FollowsFrom(l, late, j)
  PROVE  /\ FollowsFrom(l, TRUE, j)
         /\ \A id : /\ FollowsFrom(l, TRUE, [j EXCEPT !.seen = @ \ {id}])
                    /\ IdsIn(l, [j EXCEPT !.seen = @ \ {id}]) = IdsIn(l, j)
<1>1. FollowsFrom(l, TRUE, j)
  BY DEF FollowsFrom
<1>2. ASSUME NEW id
      PROVE  /\ FollowsFrom(l, TRUE, [j EXCEPT !.seen = @ \ {id}])
             /\ IdsIn(l, [j EXCEPT !.seen = @ \ {id}]) = IdsIn(l, j)
  <2> DEFINE n == [j EXCEPT !.seen = @ \ {id}]
  <2>1. j = [pos |-> j.pos, keyed |-> j.keyed, seen |-> j.seen]
    BY DEF FollowsFrom, JobShape
  <2>2. n = [pos |-> j.pos, keyed |-> j.keyed, seen |-> j.seen \ {id}]
    BY <2>1
  <2> HIDE DEF n
  <2>3. n.pos = j.pos /\ n.keyed = j.keyed /\ n.seen = j.seen \ {id}
    BY <2>2
  <2>4. JobShape(n)
    BY <2>2, <2>3 DEF FollowsFrom, JobShape
  <2>5. ReadIn(l, n) = ReadIn(l, j)
    BY <2>3 DEF ReadIn
  <2>6. IdsIn(l, n) = IdsIn(l, j)
    BY <2>5 DEF IdsIn
  <2>7. FollowsFrom(l, TRUE, n)
    BY <2>3, <2>4, <2>5, <2>6 DEF FollowsFrom
  <2>8. QED
    BY <2>6, <2>7 DEF n
<1>3. QED
  BY <1>1, <1>2

-----------------------------------------------------------------------------
(* What the sinks have and hold *)

(* A record put into a sink's buffer comes after all the others. *)
LEMMA Buffered ==
  ASSUME NEW S, NEW s \in Seq(S), NEW u \in Seq(S), NEW x \in S
  PROVE  s \o Append(u, x) = Append(s \o u, x) /\ Append(u, x) \in Seq(S)
<1>1. <<x>> \in Seq(S) /\ s \o u \in Seq(S)
  BY ConcatProperties
<1>2. Append(u, x) = u \o <<x>> /\ Append(s \o u, x) = (s \o u) \o <<x>>
  BY <1>1, AppendIsConcat
<1>3. (s \o u) \o <<x>> = s \o (u \o <<x>>)
  BY <1>1, ConcatAssociative
<1>4. QED
  BY <1>2, <1>3, AppendProperties

(* Sending the first of the buffer changes nothing in their order. *)
LEMMA Flushed ==
  ASSUME NEW S, NEW s \in Seq(S), NEW u \in Seq(S), u # <<>>
  PROVE  /\ Append(s, Head(u)) \o Tail(u) = s \o u
         /\ Append(s, Head(u)) \in Seq(S) /\ Tail(u) \in Seq(S)
         /\ Len(Append(s, Head(u))) = Len(s) + 1
<1>1. /\ Head(u) \in S /\ Tail(u) \in Seq(S) /\ Len(Tail(u)) = Len(u) - 1
      /\ \A i \in 1 .. Len(Tail(u)) : Tail(u)[i] = u[i + 1]
  BY HeadTailProperties
<1>2. /\ Append(s, Head(u)) \in Seq(S) /\ Len(Append(s, Head(u))) = Len(s) + 1
      /\ \A i \in 1 .. Len(s) : Append(s, Head(u))[i] = s[i]
      /\ Append(s, Head(u))[Len(s) + 1] = Head(u)
  BY <1>1, AppendProperties
<1>3. Len(s) \in Nat /\ Len(u) \in Nat \ {0} /\ Head(u) = u[1]
  BY LenProperties, EmptySeq
<1> DEFINE p == Append(s, Head(u)) \o Tail(u)
           q == s \o u
<1>4. /\ p \in Seq(S) /\ Len(p) = Len(s) + 1 + (Len(u) - 1)
      /\ \A i \in 1 .. Len(s) + 1 + (Len(u) - 1) :
           p[i] = IF i <= Len(s) + 1 THEN Append(s, Head(u))[i] ELSE Tail(u)[i - (Len(s) + 1)]
  <2>1. /\ p \in Seq(S) /\ Len(p) = Len(Append(s, Head(u))) + Len(Tail(u))
        /\ \A i \in 1 .. Len(Append(s, Head(u))) + Len(Tail(u)) :
             p[i] = IF i <= Len(Append(s, Head(u))) THEN Append(s, Head(u))[i]
                    ELSE Tail(u)[i - Len(Append(s, Head(u)))]
    BY <1>1, <1>2, ConcatProperties
  <2> HIDE DEF p
  <2>2. QED
    BY <1>1, <1>2, <1>3, <2>1
<1>5. /\ q \in Seq(S) /\ Len(q) = Len(s) + Len(u)
      /\ \A i \in 1 .. Len(s) + Len(u) : q[i] = IF i <= Len(s) THEN s[i] ELSE u[i - Len(s)]
  BY ConcatProperties
<1> HIDE DEF p, q
<1>6. Len(p) = Len(q)
  BY <1>3, <1>4, <1>5
<1>7. ASSUME NEW i \in 1 .. Len(p) PROVE p[i] = q[i]
  <2>1. i \in 1 .. Len(s) + Len(u) /\ i \in 1 .. Len(s) + 1 + (Len(u) - 1)
    BY <1>3, <1>4
  <2>2. CASE i <= Len(s)
    <3>1. p[i] = Append(s, Head(u))[i] /\ q[i] = s[i] /\ i \in 1 .. Len(s)
      BY <1>3, <1>4, <1>5, <2>1, <2>2
    <3>2. QED
      BY <1>2, <3>1
  <2>3. CASE i = Len(s) + 1
    <3>1. p[i] = Append(s, Head(u))[i] /\ q[i] = u[i - Len(s)] /\ i - Len(s) = 1
      BY <1>3, <1>4, <1>5, <2>1, <2>3
    <3>2. QED
      BY <1>2, <1>3, <2>3, <3>1
  <2>4. CASE i > Len(s) + 1
    <3>1. p[i] = Tail(u)[i - (Len(s) + 1)] /\ q[i] = u[i - Len(s)]
      BY <1>3, <1>4, <1>5, <2>1, <2>4
    <3>2. i - (Len(s) + 1) \in 1 .. Len(Tail(u)) /\ (i - (Len(s) + 1)) + 1 = i - Len(s)
      BY <1>1, <1>3, <2>1, <2>4
    <3>3. QED
      BY <1>1, <3>1, <3>2
  <2>5. QED
    BY <1>3, <2>1, <2>2, <2>3, <2>4
<1>8. p = q
  BY <1>4, <1>5, <1>6, <1>7, SeqEqual
<1>9. QED
  BY <1>1, <1>2, <1>8 DEF p, q

(* What was sent comes first. *)
LEMMA SentFirst ==
  ASSUME NEW S, NEW s \in Seq(S), NEW u \in Seq(S)
  PROVE  /\ s \o u \in Seq(S) /\ Len(s \o u) = Len(s) + Len(u)
         /\ DOMAIN s = 1 .. Len(s) /\ Len(s) \in Nat /\ Len(u) \in Nat
         /\ DOMAIN (s \o u) = 1 .. Len(s) + Len(u)
         /\ \A i \in DOMAIN s : i \in DOMAIN (s \o u) /\ (s \o u)[i] = s[i]
         /\ \A i \in DOMAIN (s \o u) : i <= Len(s) => i \in DOMAIN s
<1>1. /\ s \o u \in Seq(S) /\ Len(s \o u) = Len(s) + Len(u)
      /\ \A i \in 1 .. Len(s) + Len(u) : (s \o u)[i] = IF i <= Len(s) THEN s[i] ELSE u[i - Len(s)]
  BY ConcatProperties
<1>2. DOMAIN s = 1 .. Len(s) /\ DOMAIN (s \o u) = 1 .. Len(s \o u)
      /\ Len(s) \in Nat /\ Len(u) \in Nat
  BY <1>1, LenProperties
<1>3. QED
  BY <1>1, <1>2

(* More records, or more of them, hold what was written before. *)
LEMMA WrittenKept ==
  ASSUME NEW l, NEW j, NEW ms, NEW a \in Nat, NEW ss, NEW b \in Nat, Written(l, j, ms, a, ss, b),
         DOMAIN ms \subseteq Nat, DOMAIN ss \subseteq Nat,
         NEW l2, NEW j2, NEW ms2, NEW a2 \in Nat, NEW ss2, NEW b2 \in Nat,
         IdsIn(l2, j2) = IdsIn(l, j), j2.keyed = j.keyed, a <= a2, b <= b2,
         \A i \in DOMAIN ms : i <= a => i \in DOMAIN ms2 /\ ms2[i] = ms[i],
         \A i \in DOMAIN ss : i <= b => i \in DOMAIN ss2 /\ ss2[i] = ss[i]
  PROVE  Written(l2, j2, ms2, a2, ss2, b2)
<1>1. ASSUME NEW x \in IdsIn(l2, j2)
      PROVE  \E i \in DOMAIN ms2 : i <= a2 /\ ms2[i].id[2] = x
  <2>1. PICK i \in DOMAIN ms : i <= a /\ ms[i].id[2] = x
    BY <1>1 DEF Written
  <2>2. i \in DOMAIN ms2 /\ ms2[i] = ms[i] /\ i <= a2
    BY <2>1
  <2>3. QED
    BY <2>1, <2>2
<1>2. ASSUME NEW c \in DOMAIN j2.keyed
      PROVE  \E i \in DOMAIN ss2 : i <= b2 /\ ss2[i] = <<c, j2.keyed[c]>>
  <2>1. PICK i \in DOMAIN ss : i <= b /\ ss[i] = <<c, j.keyed[c]>>
    BY <1>2 DEF Written
  <2>2. i \in DOMAIN ss2 /\ ss2[i] = ss[i] /\ i <= b2
    BY <2>1
  <2>3. QED
    BY <2>1, <2>2
<1>3. QED
  BY <1>1, <1>2 DEF Written

(* A transition r and a state <<c, v>> more. *)
LEMMA AppendFacts ==
  ASSUME NEW S, NEW s \in Seq(S), NEW x \in S
  PROVE  /\ Append(s, x) \in Seq(S) /\ Len(s) \in Nat /\ Len(Append(s, x)) = Len(s) + 1
         /\ DOMAIN s = 1 .. Len(s) /\ DOMAIN Append(s, x) = (1 .. Len(s)) \cup {Len(s) + 1}
         /\ \A i \in 1 .. Len(s) : Append(s, x)[i] = s[i]
         /\ Append(s, x)[Len(s) + 1] = x
<1>1. /\ Append(s, x) \in Seq(S) /\ Len(Append(s, x)) = Len(s) + 1
      /\ \A i \in 1 .. Len(s) : Append(s, x)[i] = s[i]
      /\ Append(s, x)[Len(s) + 1] = x
  BY AppendProperties
<1>2. Len(s) \in Nat /\ DOMAIN s = 1 .. Len(s) /\ DOMAIN Append(s, x) = 1 .. Len(s) + 1
  BY <1>1, LenProperties
<1>3. 1 .. Len(s) + 1 = (1 .. Len(s)) \cup {Len(s) + 1}
  BY <1>2
<1>4. QED
  BY <1>1, <1>2, <1>3

LEMMA WrittenTake ==
  ASSUME NEW l, NEW j, NEW n, NEW ms \in Seq(MoveRecords), NEW ss \in Seq(StateRecords),
         Written(l, j, ms, Len(ms), ss, Len(ss)),
         NEW r \in MoveRecords, NEW c, NEW v, <<c, v>> \in StateRecords,
         IdsIn(l, n) = IdsIn(l, j) \cup {r.id[2]}, n.keyed = Put(j.keyed, c, v)
  PROVE  Written(l, n, Append(ms, r), Len(Append(ms, r)), Append(ss, <<c, v>>), Len(Append(ss, <<c, v>>)))
<1> DEFINE M == Append(ms, r)
           T == Append(ss, <<c, v>>)
<1>1. /\ Len(ms) \in Nat /\ Len(M) = Len(ms) + 1 /\ DOMAIN ms = 1 .. Len(ms)
      /\ DOMAIN M = (1 .. Len(ms)) \cup {Len(ms) + 1}
      /\ (\A i \in 1 .. Len(ms) : M[i] = ms[i]) /\ M[Len(ms) + 1] = r
  BY AppendFacts
<1>2. /\ Len(ss) \in Nat /\ Len(T) = Len(ss) + 1 /\ DOMAIN ss = 1 .. Len(ss)
      /\ DOMAIN T = (1 .. Len(ss)) \cup {Len(ss) + 1}
      /\ (\A i \in 1 .. Len(ss) : T[i] = ss[i]) /\ T[Len(ss) + 1] = <<c, v>>
  BY AppendFacts
<1> HIDE DEF M, T
<1>3. ASSUME NEW x \in IdsIn(l, n) PROVE \E i \in DOMAIN M : i <= Len(M) /\ M[i].id[2] = x
  <2>1. CASE x = r.id[2]
    BY <1>1, <2>1
  <2>2. CASE x \in IdsIn(l, j)
    <3>1. PICK i \in DOMAIN ms : ms[i].id[2] = x
      BY <2>2 DEF Written
    <3>2. i \in DOMAIN M /\ i <= Len(M) /\ M[i] = ms[i]
      BY <1>1
    <3>3. QED
      BY <3>1, <3>2
  <2>3. QED
    BY <2>1, <2>2
<1>4. ASSUME NEW d \in DOMAIN n.keyed
      PROVE  \E i \in DOMAIN T : i <= Len(T) /\ T[i] = <<d, n.keyed[d]>>
  <2>1. CASE d = c
    <3>1. n.keyed[d] = v
      BY <2>1 DEF Put
    <3>2. QED
      BY <1>2, <2>1, <3>1
  <2>2. CASE d # c
    <3>1. d \in DOMAIN j.keyed /\ n.keyed[d] = j.keyed[d]
      BY <2>2 DEF Put
    <3>2. PICK i \in DOMAIN ss : ss[i] = <<d, j.keyed[d]>>
      BY <3>1 DEF Written
    <3>3. i \in DOMAIN T /\ i <= Len(T) /\ T[i] = ss[i]
      BY <1>2
    <3>4. QED
      BY <3>1, <3>2, <3>3
  <2>3. QED
    BY <2>1, <2>2
<1>5. Written(l, n, M, Len(M), T, Len(T))
  BY <1>3, <1>4 DEF Written
<1>6. QED
  BY <1>5 DEF M, T

(* The transitions of a correlation still chain with one more, which begins  *)
(* where the state of the job was and ends where it is now.                  *)
LEMMA ChainTake ==
  ASSUME NEW j, NEW n, NEW ep \in Nat,
         NEW ms \in Seq(MoveRecords), NEW ss \in Seq(StateRecords),
         \A d \in Correlations : Chained(d, ms) /\ EndsIn(d, ms, ss, j, ep),
         NEW r \in MoveRecords, NEW c \in Correlations, NEW v, <<c, v>> \in StateRecords,
         r.corr = c, r.epoch = ep, r.to = v.stage,
         c \in DOMAIN j.keyed => r.from = j.keyed[c].stage,
         n.keyed = Put(j.keyed, c, v)
  PROVE  \A d \in Correlations :
           Chained(d, Append(ms, r)) /\ EndsIn(d, Append(ms, r), Append(ss, <<c, v>>), n, ep)
<1> DEFINE M == Append(ms, r)
           T == Append(ss, <<c, v>>)
           e == Len(ms) + 1
           z == Len(ss) + 1
<1>1. /\ Len(ms) \in Nat /\ DOMAIN ms = 1 .. Len(ms) /\ DOMAIN M = (1 .. Len(ms)) \cup {e}
      /\ (\A i \in 1 .. Len(ms) : M[i] = ms[i]) /\ M[e] = r
  BY AppendFacts
<1>2. /\ Len(ss) \in Nat /\ DOMAIN ss = 1 .. Len(ss) /\ DOMAIN T = (1 .. Len(ss)) \cup {z}
      /\ (\A i \in 1 .. Len(ss) : T[i] = ss[i]) /\ T[z] = <<c, v>>
  BY AppendFacts
<1>3. e \in Nat /\ z \in Nat /\ (\A i \in 1 .. Len(ms) : i < e) /\ (\A i \in 1 .. Len(ss) : i < z)
  BY <1>1, <1>2
<1> HIDE DEF M, T, e, z
<1>4. /\ Of(c, M) = Of(c, ms) \cup {e} /\ StatesIn(c, T) = StatesIn(c, ss) \cup {z}
      /\ Of(c, ms) \subseteq 1 .. Len(ms) /\ StatesIn(c, ss) \subseteq 1 .. Len(ss)
  BY <1>1, <1>2 DEF Of, StatesIn
<1>5. ASSUME NEW d \in Correlations, d # c
      PROVE  /\ Of(d, M) = Of(d, ms) /\ StatesIn(d, T) = StatesIn(d, ss)
             /\ Of(d, ms) \subseteq 1 .. Len(ms) /\ StatesIn(d, ss) \subseteq 1 .. Len(ss)
  <2>1. e \notin Of(d, M) /\ z \notin StatesIn(d, T)
    BY <1>1, <1>2, <1>5 DEF Of, StatesIn
  <2>2. QED
    BY <1>1, <1>2, <2>1 DEF Of, StatesIn
<1>6. n.keyed[c] = v /\ c \in DOMAIN n.keyed
  BY DEF Put
<1>7. Chained(c, M)
  <2>1. SUFFICES ASSUME NEW i \in Of(c, M), NEW k \in Of(c, M), i < k,
                        \A x \in Of(c, M) : x <= i \/ x >= k, M[i].epoch = M[k].epoch
                 PROVE  M[k].from = M[i].to
    BY DEF Chained
  <2>2. i \in Of(c, ms) /\ M[i] = ms[i]
    BY <1>1, <1>3, <1>4, <2>1
  <2>3. CASE k \in Of(c, ms)
    <3>1. M[k] = ms[k] /\ \A x \in Of(c, ms) : x <= i \/ x >= k
      BY <1>1, <1>4, <2>1, <2>3
    <3>2. QED
      BY <2>1, <2>2, <2>3, <3>1 DEF Chained
  <2>4. CASE k = e
    <3>1. \A x \in Of(c, ms) : x <= i
      BY <1>3, <1>4, <2>1, <2>4
    <3>2. LastIn(i, Of(c, ms)) /\ ms[i].epoch = ep
      BY <1>1, <2>1, <2>2, <2>4, <3>1 DEF LastIn
    <3>3. c \in DOMAIN j.keyed /\ ms[i].to = j.keyed[c].stage
      BY <2>2, <3>2 DEF EndsIn
    <3>4. QED
      BY <1>1, <2>2, <2>4, <3>3
  <2>5. QED
    BY <1>4, <2>1, <2>3, <2>4
<1>8. EndsIn(c, M, T, n, ep)
  <2>1. SUFFICES ASSUME NEW i \in Of(c, M), LastIn(i, Of(c, M))
                 PROVE  /\ c \in DOMAIN n.keyed /\ M[i].to = n.keyed[c].stage
                        /\ \E k \in StatesIn(c, T) : LastIn(k, StatesIn(c, T)) /\ T[k][2] = n.keyed[c]
    BY DEF EndsIn
  <2>2. i = e
    BY <1>3, <1>4, <2>1 DEF LastIn
  <2>3. LastIn(z, StatesIn(c, T)) /\ T[z][2] = v
    BY <1>2, <1>3, <1>4 DEF LastIn
  <2>4. QED
    BY <1>1, <1>4, <1>6, <2>2, <2>3
<1>9. ASSUME NEW d \in Correlations, d # c PROVE Chained(d, M) /\ EndsIn(d, M, T, n, ep)
  <2>1. \A i \in Of(d, M) : M[i] = ms[i]
    BY <1>1, <1>5, <1>9
  <2>2. \A i \in StatesIn(d, T) : T[i] = ss[i]
    BY <1>2, <1>5, <1>9
  <2>3. d \in DOMAIN j.keyed => d \in DOMAIN n.keyed /\ n.keyed[d] = j.keyed[d]
    BY <1>9 DEF Put
  <2>4. Chained(d, M)
    BY <1>5, <1>9, <2>1 DEF Chained
  <2>5. EndsIn(d, M, T, n, ep)
    <3>1. SUFFICES ASSUME NEW i \in Of(d, M), LastIn(i, Of(d, M)), M[i].epoch = ep
                   PROVE  /\ d \in DOMAIN n.keyed /\ M[i].to = n.keyed[d].stage
                          /\ \E k \in StatesIn(d, T) : LastIn(k, StatesIn(d, T)) /\ T[k][2] = n.keyed[d]
      BY DEF EndsIn
    <3>2. /\ d \in DOMAIN j.keyed /\ ms[i].to = j.keyed[d].stage
          /\ \E k \in StatesIn(d, ss) : LastIn(k, StatesIn(d, ss)) /\ ss[k][2] = j.keyed[d]
      BY <1>5, <1>9, <2>1, <3>1 DEF EndsIn
    <3>3. QED
      BY <1>5, <1>9, <2>1, <2>2, <2>3, <3>1, <3>2
  <2>6. QED
    BY <2>4, <2>5
<1>10. QED
  BY <1>7, <1>8, <1>9 DEF M, T

(* The same for all that is said of the transitions. *)
LEMMA MovesTake ==
  ASSUME NEW j, NEW n, NEW ep \in Nat, NEW late,
         NEW ms \in Seq(MoveRecords), NEW ss \in Seq(StateRecords),
         MovesTrue(ms, ss, j, ep, late),
         NEW r \in MoveRecords, NEW c \in Correlations, NEW v, <<c, v>> \in StateRecords,
         r.corr = c, r.epoch = ep, r.to = v.stage,
         c \in DOMAIN j.keyed => r.from = j.keyed[c].stage,
         n.keyed = Put(j.keyed, c, v), n.seen = j.seen \cup {r.id[2]}, r.id[2] \notin j.seen
  PROVE  MovesTrue(Append(ms, r), Append(ss, <<c, v>>), n, ep, late)
<1> DEFINE M == Append(ms, r)
           T == Append(ss, <<c, v>>)
           e == Len(ms) + 1
<1>1. /\ Len(ms) \in Nat /\ DOMAIN ms = 1 .. Len(ms) /\ DOMAIN M = (1 .. Len(ms)) \cup {e}
      /\ (\A i \in 1 .. Len(ms) : M[i] = ms[i]) /\ M[e] = r
  BY AppendFacts
<1>2. \A d \in Correlations : Chained(d, M) /\ EndsIn(d, M, T, n, ep)
  <2>1. \A d \in Correlations : Chained(d, ms) /\ EndsIn(d, ms, ss, j, ep)
    BY DEF MovesTrue
  <2>2. QED
    BY <2>1, ChainTake, Zenon
<1> HIDE DEF M, T, e
<1>3. \A i \in DOMAIN M : M[i].epoch <= ep
  BY <1>1 DEF MovesTrue
<1>4. ASSUME ep = 0, ~late
      PROVE  /\ \A i \in DOMAIN M : M[i].id[2] \in n.seen
             /\ \A i, k \in DOMAIN M : M[i].id = M[k].id => i = k
  <2>1. \A i \in DOMAIN ms : ms[i].id[2] \in j.seen
    BY <1>4 DEF MovesTrue
  <2>2. \A i \in DOMAIN ms : ms[i].id # r.id
    BY <2>1
  <2>3. \A i, k \in DOMAIN ms : ms[i].id = ms[k].id => i = k
    BY <1>4 DEF MovesTrue
  <2>4. QED
    BY <1>1, <2>1, <2>2, <2>3
<1>5. MovesTrue(M, T, n, ep, late)
  BY <1>2, <1>3, <1>4 DEF MovesTrue
<1>6. QED
  BY <1>5 DEF M, T

(* Nothing is said of a job just restored but that its transitions chain. *)
LEMMA MovesCut ==
  ASSUME NEW j, NEW n, NEW ep \in Nat, NEW late, NEW ss, NEW ss2,
         NEW ms \in Seq(MoveRecords), NEW u \in Seq(MoveRecords),
         MovesTrue(ms \o u, ss, j, ep, late)
  PROVE  MovesTrue(ms, ss2, n, ep + 1, late)
<1> DEFINE M == ms \o u
<1>1. /\ DOMAIN ms = 1 .. Len(ms) /\ Len(ms) \in Nat
      /\ \A i \in DOMAIN ms : i \in DOMAIN M /\ M[i] = ms[i]
      /\ DOMAIN M \subseteq Nat /\ \A i \in DOMAIN M : i <= Len(ms) => i \in DOMAIN ms
  BY SentFirst
<1>2. \A i \in DOMAIN ms : ms[i].epoch \in Nat
  <2>1. \A i \in DOMAIN ms : ms[i] \in MoveRecords
    BY <1>1, ElementOfSeq
  <2>2. QED
    BY <2>1 DEF MoveRecords
<1> HIDE DEF M
<1>3. \A i \in DOMAIN ms : ms[i].epoch <= ep
  BY <1>1 DEF MovesTrue, M
<1>4. ASSUME NEW c \in Correlations PROVE Chained(c, ms) /\ EndsIn(c, ms, ss2, n, ep + 1)
  <2>1. /\ Of(c, ms) \subseteq Of(c, M) /\ Of(c, M) \subseteq Nat /\ Of(c, ms) \subseteq 1 .. Len(ms)
        /\ \A i \in Of(c, M) : i <= Len(ms) => i \in Of(c, ms)
    BY <1>1 DEF Of
  <2>2. Chained(c, M)
    BY DEF MovesTrue, M
  <2>3. Chained(c, ms)
    <3>1. SUFFICES ASSUME NEW i \in Of(c, ms), NEW k \in Of(c, ms), i < k,
                          \A x \in Of(c, ms) : x <= i \/ x >= k, ms[i].epoch = ms[k].epoch
                   PROVE  ms[k].from = ms[i].to
      BY DEF Chained
    <3>2. \A x \in Of(c, M) : x <= i \/ x >= k
      BY <1>1, <2>1, <3>1
    <3>3. M[i] = ms[i] /\ M[k] = ms[k]
      BY <1>1 DEF Of
    <3>4. QED
      BY <2>1, <2>2, <3>1, <3>2, <3>3 DEF Chained
  <2>4. EndsIn(c, ms, ss2, n, ep + 1)
    <3>1. \A i \in Of(c, ms) : ms[i].epoch # ep + 1
      BY <1>2, <1>3 DEF Of
    <3>2. QED
      BY <3>1 DEF EndsIn
  <2>5. QED
    BY <2>3, <2>4
<1>5. QED
  BY <1>2, <1>3, <1>4 DEF MovesTrue

(* What the job does with its offsets and dedup entries leaves them true. *)
LEMMA MovesSame ==
  ASSUME NEW j, NEW n, NEW ep, NEW late, NEW late2, NEW ss, NEW ms,
         MovesTrue(ms, ss, j, ep, late), n.keyed = j.keyed,
         late2 \/ (n.seen = j.seen /\ ~late)
  PROVE  MovesTrue(ms, ss, n, ep, late2)
BY DEF MovesTrue, EndsIn

-----------------------------------------------------------------------------
(* The steps *)

(* No step of the producer takes anything from a topic. *)
LEMMA LogGrows ==
  ASSUME ProducerInv, [Next]_<<prodvars, log, faults>>
  PROVE  Grows(log, log') /\ log \in [Topics -> Seq(Stored)] /\ log' \in [Topics -> Seq(Stored)]
<1>0. ProducerInv'
  BY ProducerNext
<1>1. log \in [Topics -> Seq(Stored)] /\ log' \in [Topics -> Seq(Stored)]
  BY <1>0 DEF ProducerInv, ProducerTypes
<1>2. CASE log' = log
  <2>1. \A t \in Topics : Len(log[t]) \in Nat
    BY <1>1, LenProperties
  <2>2. QED
    BY <1>1, <1>2, <2>1 DEF Grows
<1>3. CASE log' # log
  <2>1. \E e \in DOMAIN queue, stored \in BOOLEAN, a \in {"ok", "error"} : Deliver(e, stored, a)
    BY <1>3 DEF Next, ProducerStep, BrokerStep, ProducerFault, Begin, NextEvent, LoopEnds, Flush,
                Kill, Rerun
  <2>2. PICK e \in DOMAIN queue, stored \in BOOLEAN, a \in {"ok", "error"} : Deliver(e, stored, a)
    BY <2>1
  <2>3. /\ log' = [log EXCEPT ![Route[e[1]]] = Append(@, Message(e))] /\ run' = run
        /\ e \in AllWork
    BY <1>3, <2>2 DEF Deliver, ProducerInv, ProducerTypes
  <2>4. \A t \in Topics : \A i \in DOMAIN log[t] : i \in DOMAIN log'[t] /\ log'[t][i] = log[t][i]
    BY <2>3, StoredEffect
  <2>5. \A t \in Topics : /\ DOMAIN log[t] = 1 .. Len(log[t]) /\ DOMAIN log'[t] = 1 .. Len(log'[t])
                          /\ Len(log[t]) \in Nat /\ Len(log'[t]) \in Nat
    BY <1>1, LenProperties
  <2>6. ASSUME NEW t \in Topics PROVE Len(log[t]) <= Len(log'[t])
    <3>1. CASE Len(log[t]) = 0
      BY <2>5, <3>1
    <3>2. CASE Len(log[t]) # 0
      <4>1. Len(log[t]) \in DOMAIN log[t]
        BY <2>5, <3>2
      <4>2. Len(log[t]) \in DOMAIN log'[t]
        BY <2>4, <4>1
      <4>3. QED
        BY <2>5, <4>2
    <3>3. QED
      BY <3>1, <3>2
  <2>7. QED
    BY <1>1, <2>4, <2>5, <2>6 DEF Grows
<1>4. QED
  BY <1>2, <1>3

(* The records of both sinks. *)
LEMMA SinkFacts ==
  ASSUME JobTypes
  PROVE  /\ AllMoves \in Seq(MoveRecords) /\ AllStates \in Seq(StateRecords)
         /\ Len(AllMoves) = Len(moves) + Len(unsent.moves)
         /\ Len(AllStates) = Len(state) + Len(unsent.state)
         /\ Len(moves) \in Nat /\ Len(state) \in Nat /\ Len(unsent.moves) \in Nat
         /\ Len(unsent.state) \in Nat /\ Len(AllMoves) \in Nat /\ Len(AllStates) \in Nat
         /\ DOMAIN AllMoves = 1 .. Len(AllMoves) /\ DOMAIN AllStates = 1 .. Len(AllStates)
         /\ DOMAIN moves = 1 .. Len(moves) /\ DOMAIN state = 1 .. Len(state)
         /\ \A i \in DOMAIN moves : i \in DOMAIN AllMoves /\ AllMoves[i] = moves[i]
         /\ \A i \in DOMAIN state : i \in DOMAIN AllStates /\ AllStates[i] = state[i]
         /\ \A i \in DOMAIN AllMoves : i <= Len(moves) => i \in DOMAIN moves
         /\ \A i \in DOMAIN AllStates : i <= Len(state) => i \in DOMAIN state
<1>1. /\ moves \in Seq(MoveRecords) /\ unsent.moves \in Seq(MoveRecords)
      /\ state \in Seq(StateRecords) /\ unsent.state \in Seq(StateRecords)
  BY DEF JobTypes
<1>2. /\ AllMoves \in Seq(MoveRecords) /\ Len(AllMoves) = Len(moves) + Len(unsent.moves)
      /\ DOMAIN moves = 1 .. Len(moves) /\ Len(moves) \in Nat /\ Len(unsent.moves) \in Nat
      /\ DOMAIN AllMoves = 1 .. Len(moves) + Len(unsent.moves)
      /\ \A i \in DOMAIN moves : i \in DOMAIN AllMoves /\ AllMoves[i] = moves[i]
      /\ \A i \in DOMAIN AllMoves : i <= Len(moves) => i \in DOMAIN moves
  BY <1>1, SentFirst DEF AllMoves
<1>3. /\ AllStates \in Seq(StateRecords) /\ Len(AllStates) = Len(state) + Len(unsent.state)
      /\ DOMAIN state = 1 .. Len(state) /\ Len(state) \in Nat /\ Len(unsent.state) \in Nat
      /\ DOMAIN AllStates = 1 .. Len(state) + Len(unsent.state)
      /\ \A i \in DOMAIN state : i \in DOMAIN AllStates /\ AllStates[i] = state[i]
      /\ \A i \in DOMAIN AllStates : i <= Len(state) => i \in DOMAIN state
  BY <1>1, SentFirst DEF AllStates
<1>4. Len(AllMoves) \in Nat /\ Len(AllStates) \in Nat
  BY <1>2, <1>3
<1>5. QED
  BY <1>2, <1>3, <1>4

LEMMA StartFacts ==
  /\ Start.pos = [t \in InputTopics |-> 0] /\ Start.seen = {} /\ DOMAIN Start.keyed = {}
  /\ \A l, late : FollowsFrom(l, late, Start) <=> \A t \in InputTopics : 0 <= Len(l[t])
  /\ \A l, ms, a, ss, b : Written(l, Start, ms, a, ss, b)
<1>1. Start.pos = [t \in InputTopics |-> 0] /\ Start.seen = {} /\ DOMAIN Start.keyed = {}
  BY DEF Start
<1>2. \A l : ReadIn(l, Start) = {}
  <2>1. \A t \in InputTopics : 1 .. Start.pos[t] = {}
    BY <1>1
  <2>2. QED
    BY <2>1 DEF ReadIn
<1>3. \A l : IdsIn(l, Start) = {}
  BY <1>2 DEF IdsIn
<1>4. JobShape(Start)
  BY DEF Start, JobShape
<1>5. QED
  BY <1>1, <1>2, <1>3, <1>4 DEF FollowsFrom, Written

(* A step of the producer. *)
LEMMA ProducerBeside ==
  ASSUME JobInv, [Next]_<<prodvars, log, faults>>, UNCHANGED jobvars
  PROVE  JobInv'
<1>1. UNCHANGED <<job, snap, ckpt, unsent, state, moves, epoch, expired>>
  BY DEF jobvars
<1>2. Grows(log, log') /\ log \in [Topics -> Seq(Stored)] /\ log' \in [Topics -> Seq(Stored)]
  BY LogGrows DEF JobInv
<1>3. ProducerInv'
  BY ProducerNext DEF JobInv
<1>4. AllMoves' = AllMoves /\ AllStates' = AllStates
  BY <1>1 DEF AllMoves, AllStates
<1>5. JobTypes' /\ OffsetsOrdered'
  BY <1>1 DEF JobInv, JobTypes, OffsetsOrdered
<1>6. \A j : FollowsFrom(log, expired, j) =>
               FollowsFrom(log', expired, j) /\ IdsIn(log', j) = IdsIn(log, j)
  BY <1>2, ReadKept
<1>7. FollowsFrom(log', expired, job) /\ FollowsFrom(log', expired, ckpt)
      /\ FollowsFrom(log', expired, snap.job)
  BY <1>6 DEF JobInv
<1>8. /\ Written(log', job, AllMoves, Len(AllMoves), AllStates, Len(AllStates))
      /\ Written(log', snap.job, AllMoves, snap.upto.moves, AllStates, snap.upto.state)
      /\ Written(log', ckpt, AllMoves, Len(moves), AllStates, Len(state))
  BY <1>6 DEF JobInv, Written
<1>9. QED
  BY <1>1, <1>3, <1>4, <1>5, <1>7, <1>8 DEF JobInv

(* A step of the job leaves the producer alone. *)
LEMMA ProducerStays ==
  ASSUME ProducerInv, UNCHANGED <<prodvars, log>>
  PROVE  ProducerInv' /\ log' = log /\ log \in [Topics -> Seq(Stored)]
<1>1. UNCHANGED <<readable, phase, run, todo, queue, failed, succeeded, log>>
  BY DEF prodvars
<1>2. AllWork' = AllWork /\ (XmlWork \cup JsonWork)' = XmlWork \cup JsonWork
  BY <1>1, WorkSame
<1>3. \A x : InLog(x)' <=> InLog(x)
  BY <1>1, LogSame
<1>4. ProducerTypes' /\ LoopsTrue' /\ EverythingCounted'
  BY <1>1, <1>2 DEF ProducerInv, ProducerTypes, LoopsTrue, EverythingCounted
<1>5. QueueTrue' /\ Accounted'
  BY <1>1, <1>2, <1>3 DEF ProducerInv, QueueTrue, Accounted
<1>6. LogTrue' /\ StoredOnce'
  BY <1>1, <1>2 DEF ProducerInv, LogTrue, StoredOnce
<1>7. QED
  BY <1>1, <1>4, <1>5, <1>6 DEF ProducerInv, ProducerTypes

(* A message passed over: only the offset moves. *)
LEMMA SkipStep ==
  ASSUME JobInv, UNCHANGED <<prodvars, log>>, NEW t \in InputTopics,
         job.pos[t] < Len(log[t]),
         ~Usable(log[t][job.pos[t] + 1]) \/ log[t][job.pos[t] + 1].id \in job.seen,
         job' = [job EXCEPT !.pos[t] = @ + 1],
         UNCHANGED <<snap, ckpt, unsent, state, moves, epoch, expired>>
  PROVE  JobInv'
<1>1. ProducerInv' /\ log' = log /\ log \in [Topics -> Seq(Stored)]
  BY ProducerStays DEF JobInv
<1>2. /\ FollowsFrom(log, expired, job) /\ JobShape(job) /\ JobTypes /\ OffsetsOrdered
      /\ FollowsFrom(log, expired, ckpt) /\ FollowsFrom(log, expired, snap.job)
      /\ JobShape(ckpt) /\ JobShape(snap.job)
  BY DEF JobInv, FollowsFrom
<1>3. FollowsFrom(log, expired, job') /\ IdsIn(log, job') = IdsIn(log, job)
  BY <1>1, <1>2, FollowsSkip
<1>4. /\ job'.pos = [job.pos EXCEPT ![t] = @ + 1] /\ job'.keyed = job.keyed
      /\ job'.seen = job.seen
  BY <1>2, MovedFacts
<1>5. AllMoves' = AllMoves /\ AllStates' = AllStates
  BY DEF AllMoves, AllStates
<1>6. JobTypes'
  BY <1>2 DEF JobTypes
<1>7. OffsetsOrdered'
  <2>1. \A u \in InputTopics : job.pos[u] \in Nat /\ job'.pos[u] \in Nat /\ job.pos[u] <= job'.pos[u]
                               /\ ckpt.pos[u] \in Nat /\ snap.job.pos[u] \in Nat
    BY <1>2, <1>4 DEF JobShape
  <2>2. QED
    BY <1>2, <2>1 DEF OffsetsOrdered
<1>8. Written(log, job', AllMoves, Len(AllMoves), AllStates, Len(AllStates))
  BY <1>3, <1>4 DEF JobInv, Written
<1>9. MovesTrue(AllMoves, AllStates, job', epoch, expired)
  <2>1. MovesTrue(AllMoves, AllStates, job, epoch, expired)
    BY DEF JobInv
  <2>2. QED
    BY <1>4, <2>1, MovesSame
<1>10. QED
  BY <1>1, <1>2, <1>3, <1>5, <1>6, <1>7, <1>8, <1>9 DEF JobInv

(* What process_element computes from a message it has not seen. *)
LEMMA TakenFacts ==
  ASSUME JobInv, NEW m \in Stored, Usable(m), NEW c, c = Correlation[FileOf(m)]
  PROVE  /\ c \in Correlations /\ Folded(c, FileOf(m), m.id) \in KeyedStates
         /\ Folded(c, FileOf(m), m.id).stage = Stage[FileOf(m)]
         /\ Folded(c, FileOf(m), m.id).retries =
              (IF c \in DOMAIN job.keyed THEN job.keyed[c].retries ELSE 0)
                + (IF FileOf(m) \in Retrying THEN 1 ELSE 0)
         /\ Transition(c, FileOf(m), m.id) \in MoveRecords
         /\ Transition(c, FileOf(m), m.id).corr = c
         /\ Transition(c, FileOf(m), m.id).epoch = epoch
         /\ Transition(c, FileOf(m), m.id).to = Stage[FileOf(m)]
         /\ Transition(c, FileOf(m), m.id).id = <<c, m.id>>
         /\ c \in DOMAIN job.keyed => Transition(c, FileOf(m), m.id).from = job.keyed[c].stage
<1> DEFINE f == FileOf(m)
           old == IF c \in DOMAIN job.keyed THEN job.keyed[c] ELSE [history |-> <<>>, retries |-> 0]
           h == old.history
           s == Stage[f]
           hh == IF s # "" /\ (h = <<>> \/ h[Len(h)] # s) THEN Append(h, s) ELSE h
           rr == old.retries + (IF f \in Retrying THEN 1 ELSE 0)
<1>1. f \in Files /\ m.id \in Work /\ c \in Correlations
  BY UsableFacts
<1>2. s \in Stages
  BY <1>1 DEF Stages
<1>3. c \in DOMAIN job.keyed => job.keyed[c] \in KeyedStates
  BY DEF JobInv, FollowsFrom, JobShape
<1>4. h \in Seq(Stages) /\ old.retries \in Nat
  BY <1>3 DEF KeyedStates
<1>5. hh \in Seq(Stages)
  <2>1. Append(h, s) \in Seq(Stages)
    BY <1>2, <1>4, AppendProperties
  <2>2. QED
    BY <1>4, <2>1
<1>6. rr \in Nat /\ old.retries = (IF c \in DOMAIN job.keyed THEN job.keyed[c].retries ELSE 0)
  BY <1>4
<1>7. Folded(c, f, m.id) = [stage |-> s, last |-> m.id, history |-> hh, retries |-> rr]
  BY DEF Folded, Known
<1>8. epoch \in Nat /\ (c \in DOMAIN job.keyed => job.keyed[c].stage \in Stages) /\ "none" \in Stages
  BY <1>3 DEF JobInv, JobTypes, KeyedStates, Stages
<1> DEFINE from == IF c \in DOMAIN job.keyed THEN job.keyed[c].stage ELSE "none"
<1>9. Transition(c, f, m.id) = [id |-> <<c, m.id>>, corr |-> c, from |-> from, to |-> s, epoch |-> epoch]
  BY DEF Transition, Known
<1>10. from \in Stages /\ (c \in DOMAIN job.keyed => from = job.keyed[c].stage)
  BY <1>8
<1> HIDE DEF old, hh, rr, s, h, from
<1>11. /\ Folded(c, f, m.id) \in KeyedStates /\ Folded(c, f, m.id).stage = s
       /\ Folded(c, f, m.id).retries = rr
  BY <1>1, <1>2, <1>5, <1>6, <1>7 DEF KeyedStates
<1>12. /\ Transition(c, f, m.id) \in MoveRecords /\ Transition(c, f, m.id).corr = c
       /\ Transition(c, f, m.id).epoch = epoch /\ Transition(c, f, m.id).to = s
       /\ Transition(c, f, m.id).id = <<c, m.id>> /\ Transition(c, f, m.id).from = from
  BY <1>1, <1>2, <1>8, <1>9, <1>10 DEF MoveRecords
<1>13. QED
  BY <1>1, <1>6, <1>10, <1>11, <1>12 DEF s, rr

MovedTo(m, c, v, r) ==
  /\ r.corr = c /\ r.epoch = epoch /\ r.to = v.stage /\ r.id[2] = m.id
  /\ c \in DOMAIN job.keyed => r.from = job.keyed[c].stage
SinksTake(c, v, r) ==
  /\ unsent' = [state |-> Append(unsent.state, <<c, v>>), moves |-> Append(unsent.moves, r)]
  /\ UNCHANGED <<snap, ckpt, state, moves, epoch, expired>>

LEMMA TakeStep ==
  ASSUME JobInv, UNCHANGED <<prodvars, log>>, NEW t \in InputTopics,
         NEW m \in Stored, NextOf(log, job, t, m), NEW c \in Correlations, NEW v \in KeyedStates,
         FoldedTo(job, m, c, v), NEW r \in MoveRecords, MovedTo(m, c, v, r),
         TakenTo(job, job', t, m, c, v), SinksTake(c, v, r)
  PROVE  JobInv'
<1>1. ProducerInv' /\ log' = log /\ log \in [Topics -> Seq(Stored)]
  BY ProducerStays DEF JobInv
<1>2. /\ FollowsFrom(log, expired, job) /\ JobShape(job) /\ JobTypes /\ OffsetsOrdered
      /\ FollowsFrom(log, expired, ckpt) /\ FollowsFrom(log, expired, snap.job)
      /\ JobShape(ckpt) /\ JobShape(snap.job)
  BY DEF JobInv, FollowsFrom
<1>3. UNCHANGED <<snap, ckpt, state, moves, epoch, expired>>
  BY DEF SinksTake
<1>4. job'.keyed = Put(job.keyed, c, v) /\ job'.seen = job.seen \cup {m.id} /\ r.id[2] = m.id
      /\ m.id \notin job.seen
  BY DEF TakenTo, MovedTo, NextOf
<1>6. FollowsFrom(log, expired, job') /\ IdsIn(log, job') = IdsIn(log, job) \cup {m.id}
  BY <1>1, <1>2, FollowsTake
<1>7. /\ moves \in Seq(MoveRecords) /\ unsent.moves \in Seq(MoveRecords)
      /\ state \in Seq(StateRecords) /\ unsent.state \in Seq(StateRecords)
      /\ <<c, v>> \in StateRecords
  BY <1>2 DEF JobTypes, StateRecords
<1>8. /\ unsent'.state = Append(unsent.state, <<c, v>>)
      /\ unsent'.moves = Append(unsent.moves, r)
      /\ unsent' \in [state : Seq(StateRecords), moves : Seq(MoveRecords)]
  <2>1. Append(unsent.state, <<c, v>>) \in Seq(StateRecords)
        /\ Append(unsent.moves, r) \in Seq(MoveRecords)
    BY <1>7, Buffered
  <2>2. QED
    BY <2>1 DEF SinksTake
<1>9. AllMoves' = Append(AllMoves, r) /\ AllStates' = Append(AllStates, <<c, v>>)
  <2>1. moves \o Append(unsent.moves, r) = Append(moves \o unsent.moves, r)
    BY <1>7, Buffered
  <2>2. state \o Append(unsent.state, <<c, v>>) = Append(state \o unsent.state, <<c, v>>)
    BY <1>7, Buffered
  <2>3. QED
    BY <1>3, <1>8, <2>1, <2>2 DEF AllMoves, AllStates
<1>10. JobTypes'
  BY <1>2, <1>3, <1>8 DEF JobTypes
<1>11. OffsetsOrdered'
  <2>1. \A u \in InputTopics : job.pos[u] \in Nat /\ job'.pos[u] \in Nat /\ job.pos[u] <= job'.pos[u]
                               /\ ckpt.pos[u] \in Nat /\ snap.job.pos[u] \in Nat
    BY <1>2 DEF JobShape, TakenTo
  <2>2. QED
    BY <1>2, <1>3, <2>1 DEF OffsetsOrdered
<1>12. /\ AllMoves \in Seq(MoveRecords) /\ AllStates \in Seq(StateRecords)
       /\ Len(AllMoves) \in Nat /\ Len(AllStates) \in Nat
       /\ Len(moves) \in Nat /\ Len(state) \in Nat /\ epoch \in Nat
       /\ snap.upto.moves \in Nat /\ snap.upto.state \in Nat
  BY <1>2, SinkFacts DEF JobTypes
<1>13. Written(log, job', AllMoves', Len(AllMoves'), AllStates', Len(AllStates'))
  <2>1. Written(log, job, AllMoves, Len(AllMoves), AllStates, Len(AllStates))
    BY DEF JobInv
  <2>2. Written(log, job', Append(AllMoves, r), Len(Append(AllMoves, r)),
                Append(AllStates, <<c, v>>), Len(Append(AllStates, <<c, v>>)))
    BY <1>4, <1>6, <1>7, <1>12, <2>1, WrittenTake
  <2>3. QED
    BY <1>9, <2>2
<1>14. /\ DOMAIN AllMoves \subseteq Nat /\ DOMAIN AllStates \subseteq Nat
       /\ \A i \in DOMAIN AllMoves : i \in DOMAIN AllMoves' /\ AllMoves'[i] = AllMoves[i]
       /\ \A i \in DOMAIN AllStates : i \in DOMAIN AllStates' /\ AllStates'[i] = AllStates[i]
  <2>1. /\ DOMAIN AllMoves = 1 .. Len(AllMoves)
        /\ DOMAIN Append(AllMoves, r) = (1 .. Len(AllMoves)) \cup {Len(AllMoves) + 1}
        /\ \A i \in 1 .. Len(AllMoves) : Append(AllMoves, r)[i] = AllMoves[i]
    BY <1>12, AppendFacts
  <2>2. /\ DOMAIN AllStates = 1 .. Len(AllStates)
        /\ DOMAIN Append(AllStates, <<c, v>>) = (1 .. Len(AllStates)) \cup {Len(AllStates) + 1}
        /\ \A i \in 1 .. Len(AllStates) : Append(AllStates, <<c, v>>)[i] = AllStates[i]
    BY <1>7, <1>12, AppendFacts
  <2>3. QED
    BY <1>9, <2>1, <2>2
<1>15. /\ Written(log, snap.job, AllMoves', snap.upto.moves, AllStates', snap.upto.state)
       /\ Written(log, ckpt, AllMoves', Len(moves), AllStates', Len(state))
  <2>1. /\ Written(log, snap.job, AllMoves, snap.upto.moves, AllStates, snap.upto.state)
        /\ Written(log, ckpt, AllMoves, Len(moves), AllStates, Len(state))
    BY DEF JobInv
  <2>2. QED
    BY <1>14, <2>1 DEF Written
<1>16. MovesTrue(AllMoves', AllStates', job', epoch, expired)
  <2>1. MovesTrue(AllMoves, AllStates, job, epoch, expired)
    BY DEF JobInv
  <2>2. job'.seen = job.seen \cup {r.id[2]} /\ r.id[2] \notin job.seen
    BY <1>4
  <2>3. MovesTrue(Append(AllMoves, r), Append(AllStates, <<c, v>>), job', epoch, expired)
    BY <1>4, <1>7, <1>12, <2>1, <2>2, MovesTake DEF MovedTo
  <2>4. QED
    BY <1>9, <2>3
<1>17. QED
  BY <1>1, <1>2, <1>3, <1>6, <1>10, <1>11, <1>13, <1>15, <1>16 DEF JobInv

(* One record of an input topic. *)
LEMMA ProcessStep ==
  ASSUME JobInv, UNCHANGED <<prodvars, log>>, NEW t \in InputTopics, Process(t)
  PROVE  JobInv'
<1> DEFINE m == log[t][job.pos[t] + 1]
           c == Correlation[FileOf(m)]
           v == Folded(c, FileOf(m), m.id)
           r == Transition(c, FileOf(m), m.id)
<1>1. job.pos[t] < Len(log[t]) /\ UNCHANGED <<snap, ckpt, state, moves, epoch, expired>>
  BY DEF Process
<1>2. CASE ~Usable(m) \/ Seen(m)
  <2>1. job' = [job EXCEPT !.pos[t] = @ + 1] /\ UNCHANGED unsent
    BY <1>2 DEF Process
  <2>2. QED
    BY <1>1, <1>2, <2>1, SkipStep DEF Seen
<1>3. CASE ~(~Usable(m) \/ Seen(m))
  <2>1. /\ job' = [[job EXCEPT !.pos[t] = @ + 1] EXCEPT !.seen = @ \cup {m.id}, !.keyed = Put(@, c, v)]
        /\ unsent' = [state |-> Append(unsent.state, <<c, v>>), moves |-> Append(unsent.moves, r)]
    BY <1>3 DEF Process
  <2>2. Usable(m) /\ m.id \notin job.seen
    BY <1>3 DEF Seen
  <2>3. JobShape(job) /\ log \in [Topics -> Seq(Stored)]
    BY DEF JobInv, FollowsFrom, ProducerInv, ProducerTypes
  <2>4. m \in Stored
    <3>1. t \in Topics /\ log[t] \in Seq(Stored) /\ job.pos[t] \in Nat
      BY <2>3, JobAssumption DEF JobShape
    <3>2. job.pos[t] + 1 \in 1 .. Len(log[t])
      BY <1>1, <3>1, LenProperties
    <3>3. QED
      BY <3>1, <3>2, ElementOfSeq
  <2>5. NextOf(log, job, t, m)
    BY <1>1, <2>2 DEF NextOf
  <2> HIDE DEF m
  <2>6. /\ c \in Correlations /\ v \in KeyedStates /\ v.stage = Stage[FileOf(m)]
        /\ v.retries = (IF c \in DOMAIN job.keyed THEN job.keyed[c].retries ELSE 0)
                         + (IF FileOf(m) \in Retrying THEN 1 ELSE 0)
        /\ r \in MoveRecords /\ r.corr = c /\ r.epoch = epoch /\ r.to = Stage[FileOf(m)]
        /\ r.id = <<c, m.id>> /\ (c \in DOMAIN job.keyed => r.from = job.keyed[c].stage)
    BY <2>2, <2>4, TakenFacts
  <2>7. c = Correlation[FileOf(m)]
    OBVIOUS
  <2> HIDE DEF c, v, r
  <2>8. FoldedTo(job, m, c, v) /\ MovedTo(m, c, v, r)
    BY <2>6, <2>7 DEF FoldedTo, MovedTo
  <2>9. TakenTo(job, job', t, m, c, v)
    <3>1. job = [pos |-> job.pos, keyed |-> job.keyed, seen |-> job.seen]
      BY <2>3 DEF JobShape
    <3>2. [job EXCEPT !.pos[t] = @ + 1]
            = [pos |-> [job.pos EXCEPT ![t] = @ + 1], keyed |-> job.keyed, seen |-> job.seen]
      BY <3>1
    <3>3. job' = [pos |-> [job.pos EXCEPT ![t] = @ + 1], keyed |-> Put(job.keyed, c, v),
                  seen |-> job.seen \cup {m.id}]
      BY <2>1, <3>2
    <3>4. QED
      BY <3>3 DEF TakenTo
  <2>10. SinksTake(c, v, r)
    BY <1>1, <2>1 DEF SinksTake
  <2>11. QED
    BY <2>4, <2>5, <2>6, <2>8, <2>9, <2>10, TakeStep
<1>4. QED
  BY <1>2, <1>3

(* A sink writes the first record of its buffer. *)
LEMMA SendStep ==
  ASSUME JobInv, UNCHANGED <<prodvars, log>>, SendState \/ SendMove
  PROVE  JobInv'
<1>1. ProducerInv' /\ log' = log
  BY ProducerStays DEF JobInv
<1>2. JobTypes /\ OffsetsOrdered
  BY DEF JobInv
<1>3. UNCHANGED <<job, snap, ckpt, epoch, expired>>
  BY DEF SendState, SendMove
<1>4. /\ moves \in Seq(MoveRecords) /\ unsent.moves \in Seq(MoveRecords)
      /\ state \in Seq(StateRecords) /\ unsent.state \in Seq(StateRecords)
      /\ unsent = [state |-> unsent.state, moves |-> unsent.moves]
  BY <1>2 DEF JobTypes
<1>5. /\ moves' \in Seq(MoveRecords) /\ state' \in Seq(StateRecords)
      /\ unsent' \in [state : Seq(StateRecords), moves : Seq(MoveRecords)]
      /\ AllMoves' = AllMoves /\ AllStates' = AllStates
      /\ Len(moves) <= Len(moves') /\ Len(state) <= Len(state')
  <2>1. Len(moves) \in Nat /\ Len(state) \in Nat
    BY <1>4, LenProperties
  <2>2. CASE SendState
    <3>1. /\ unsent.state # <<>> /\ state' = Append(state, Head(unsent.state)) /\ moves' = moves
          /\ unsent' = [state |-> Tail(unsent.state), moves |-> unsent.moves]
      BY <1>4, <2>2 DEF SendState
    <3>2. /\ Append(state, Head(unsent.state)) \o Tail(unsent.state) = state \o unsent.state
          /\ Append(state, Head(unsent.state)) \in Seq(StateRecords)
          /\ Tail(unsent.state) \in Seq(StateRecords)
          /\ Len(Append(state, Head(unsent.state))) = Len(state) + 1
      BY <1>4, <3>1, Flushed
    <3>3. unsent'.state = Tail(unsent.state) /\ unsent'.moves = unsent.moves
      BY <3>1
    <3>4. AllMoves' = AllMoves /\ AllStates' = AllStates
      BY <3>1, <3>2, <3>3 DEF AllMoves, AllStates
    <3>5. unsent' \in [state : Seq(StateRecords), moves : Seq(MoveRecords)]
      BY <1>4, <3>1, <3>2
    <3>6. QED
      BY <1>4, <2>1, <3>1, <3>2, <3>4, <3>5
  <2>3. CASE SendMove
    <3>1. /\ unsent.moves # <<>> /\ moves' = Append(moves, Head(unsent.moves)) /\ state' = state
          /\ unsent' = [state |-> unsent.state, moves |-> Tail(unsent.moves)]
      BY <1>4, <2>3 DEF SendMove
    <3>2. /\ Append(moves, Head(unsent.moves)) \o Tail(unsent.moves) = moves \o unsent.moves
          /\ Append(moves, Head(unsent.moves)) \in Seq(MoveRecords)
          /\ Tail(unsent.moves) \in Seq(MoveRecords)
          /\ Len(Append(moves, Head(unsent.moves))) = Len(moves) + 1
      BY <1>4, <3>1, Flushed
    <3>3. unsent'.state = unsent.state /\ unsent'.moves = Tail(unsent.moves)
      BY <3>1
    <3>4. AllMoves' = AllMoves /\ AllStates' = AllStates
      BY <3>1, <3>2, <3>3 DEF AllMoves, AllStates
    <3>5. unsent' \in [state : Seq(StateRecords), moves : Seq(MoveRecords)]
      BY <1>4, <3>1, <3>2
    <3>6. QED
      BY <1>4, <2>1, <3>1, <3>2, <3>4, <3>5
  <2>4. QED
    BY <2>2, <2>3
<1>6. JobTypes' /\ OffsetsOrdered'
  BY <1>2, <1>3, <1>5 DEF JobTypes, OffsetsOrdered
<1>7. Written(log, ckpt, AllMoves, Len(moves'), AllStates, Len(state'))
  <2>1. Written(log, ckpt, AllMoves, Len(moves), AllStates, Len(state))
    BY DEF JobInv
  <2>2. /\ Len(moves) \in Nat /\ Len(state) \in Nat /\ Len(moves') \in Nat /\ Len(state') \in Nat
        /\ DOMAIN AllMoves \subseteq Nat /\ DOMAIN AllStates \subseteq Nat
    <3>1. Len(moves') \in Nat /\ Len(state') \in Nat
      BY <1>5, LenProperties
    <3>2. /\ Len(moves) \in Nat /\ Len(state) \in Nat
          /\ Len(AllMoves) \in Nat /\ Len(AllStates) \in Nat
          /\ DOMAIN AllMoves = 1 .. Len(AllMoves) /\ DOMAIN AllStates = 1 .. Len(AllStates)
      BY <1>2, SinkFacts, Zenon
    <3>3. DOMAIN AllMoves \subseteq Nat
      BY ONLY <3>2, SMT
    <3>4. DOMAIN AllStates \subseteq Nat
      BY ONLY <3>2, SMT
    <3>5. QED
      BY ONLY <3>1, <3>2, <3>3, <3>4
  <2>3. QED
    BY <1>5, <2>1, <2>2, WrittenKept
<1>8. QED
  BY <1>1, <1>3, <1>5, <1>6, <1>7 DEF JobInv

(* The barrier of a checkpoint passes the operators. *)
LEMMA BarrierStep ==
  ASSUME JobInv, UNCHANGED <<prodvars, log>>, Barrier
  PROVE  JobInv'
<1>1. ProducerInv' /\ log' = log
  BY ProducerStays DEF JobInv
<1>2. JobTypes /\ OffsetsOrdered /\ FollowsFrom(log, expired, job) /\ JobShape(job)
  BY DEF JobInv, FollowsFrom
<1>3. UNCHANGED <<job, ckpt, unsent, state, moves, epoch, expired>>
  BY DEF Barrier
<1>4. /\ snap' = [under |-> TRUE, job |-> job,
                  upto |-> [state |-> Len(state) + Len(unsent.state),
                            moves |-> Len(moves) + Len(unsent.moves)]]
  BY DEF Barrier
<1>5. /\ Len(AllMoves) = Len(moves) + Len(unsent.moves) /\ Len(AllMoves) \in Nat
      /\ Len(AllStates) = Len(state) + Len(unsent.state) /\ Len(AllStates) \in Nat
  BY <1>2, SinkFacts
<1>6. /\ snap'.job = job /\ snap'.upto.moves = Len(AllMoves) /\ snap'.upto.state = Len(AllStates)
      /\ snap' = [under |-> snap'.under, job |-> snap'.job, upto |-> snap'.upto]
      /\ snap'.under \in BOOLEAN /\ snap'.upto \in [state : Nat, moves : Nat]
  BY <1>4, <1>5
<1>7. AllMoves' = AllMoves /\ AllStates' = AllStates
  BY <1>3 DEF AllMoves, AllStates
<1>8. JobTypes'
  BY <1>2, <1>3, <1>6 DEF JobTypes
<1>9. OffsetsOrdered'
  <2>1. \A t \in InputTopics : job.pos[t] \in Nat
    BY <1>2 DEF JobShape
  <2>2. QED
    BY <1>2, <1>3, <1>6, <2>1 DEF OffsetsOrdered
<1>10. QED
  BY <1>1, <1>3, <1>6, <1>7, <1>8, <1>9 DEF JobInv

LEMMA NoSnapFacts ==
  /\ NoSnap = [under |-> NoSnap.under, job |-> NoSnap.job, upto |-> NoSnap.upto]
  /\ NoSnap.under = FALSE /\ NoSnap.job = Start /\ NoSnap.upto \in [state : Nat, moves : Nat]
BY DEF NoSnap

(* Both sinks have flushed: the checkpoint completes. *)
LEMMA CompleteStep ==
  ASSUME JobInv, UNCHANGED <<prodvars, log>>, Complete
  PROVE  JobInv'
<1>1. ProducerInv' /\ log' = log /\ log \in [Topics -> Seq(Stored)]
  BY ProducerStays DEF JobInv
<1>2. JobTypes /\ OffsetsOrdered /\ FollowsFrom(log, expired, snap.job) /\ JobShape(job)
  BY DEF JobInv, FollowsFrom
<1>3. /\ UNCHANGED <<job, unsent, state, moves, epoch, expired>> /\ snap.under
      /\ ckpt' = snap.job /\ snap' = NoSnap
      /\ Len(state) >= snap.upto.state /\ Len(moves) >= snap.upto.moves
  BY DEF Complete
<1>4. AllMoves' = AllMoves /\ AllStates' = AllStates
  BY <1>3 DEF AllMoves, AllStates
<1>5. JobTypes'
  BY <1>2, <1>3, NoSnapFacts DEF JobTypes
<1>6. OffsetsOrdered'
  <2>1. \A t \in InputTopics : job.pos[t] \in Nat /\ Start.pos[t] = 0
    BY <1>2, StartFacts DEF JobShape
  <2>2. QED
    BY <1>2, <1>3, <2>1, NoSnapFacts DEF OffsetsOrdered
<1>7. \A t \in InputTopics : 0 <= Len(log[t])
  BY <1>1, JobAssumption, LenProperties
<1>8. /\ FollowsFrom(log, expired, Start)
      /\ Written(log, Start, AllMoves, snap'.upto.moves, AllStates, snap'.upto.state)
  BY <1>7, StartFacts
<1>9. Written(log, snap.job, AllMoves, Len(moves), AllStates, Len(state))
  <2>1. Written(log, snap.job, AllMoves, snap.upto.moves, AllStates, snap.upto.state)
    BY DEF JobInv
  <2>2. /\ Len(moves) \in Nat /\ Len(state) \in Nat /\ snap.upto.moves \in Nat /\ snap.upto.state \in Nat
        /\ DOMAIN AllMoves \subseteq Nat /\ DOMAIN AllStates \subseteq Nat
    BY <1>2, SinkFacts DEF JobTypes
  <2>3. snap.upto.moves <= Len(moves) /\ snap.upto.state <= Len(state)
    BY <1>3, <2>2
  <2>4. \A n \in Nat : /\ n <= snap.upto.moves => n <= Len(moves)
                       /\ n <= snap.upto.state => n <= Len(state)
    BY <2>2, <2>3
  <2>5. QED
    BY <2>1, <2>2, <2>4 DEF Written
<1>10. snap'.job = Start
  BY <1>3, NoSnapFacts
<1>11. QED
  BY <1>1, <1>2, <1>3, <1>4, <1>5, <1>6, <1>8, <1>9, <1>10 DEF JobInv

(* The job is restored: it is again what its last checkpoint was. *)
LEMMA RestoreStep ==
  ASSUME JobInv, UNCHANGED <<prodvars, log>>, Restore
  PROVE  JobInv'
<1>1. ProducerInv' /\ log' = log /\ log \in [Topics -> Seq(Stored)]
  BY ProducerStays DEF JobInv
<1>2. JobTypes /\ OffsetsOrdered /\ FollowsFrom(log, expired, ckpt) /\ JobShape(ckpt)
  BY DEF JobInv, FollowsFrom
<1>3. /\ UNCHANGED <<ckpt, state, moves, expired>> /\ job' = ckpt /\ snap' = NoSnap
      /\ unsent' = [state |-> <<>>, moves |-> <<>>] /\ epoch' = epoch + 1
  BY DEF Restore
<1>4. /\ moves \in Seq(MoveRecords) /\ unsent.moves \in Seq(MoveRecords)
      /\ state \in Seq(StateRecords) /\ epoch \in Nat
  BY <1>2 DEF JobTypes
<1>5. AllMoves' = moves /\ AllStates' = state
  <2>1. unsent'.moves = <<>> /\ unsent'.state = <<>>
    BY <1>3
  <2>2. QED
    BY <1>3, <1>4, <2>1, ConcatEmptySeq DEF AllMoves, AllStates
<1>6. JobTypes'
  <2>1. unsent' \in [state : Seq(StateRecords), moves : Seq(MoveRecords)]
    BY <1>3
  <2>2. /\ snap' = [under |-> snap'.under, job |-> snap'.job, upto |-> snap'.upto]
        /\ snap'.under \in BOOLEAN /\ snap'.upto \in [state : Nat, moves : Nat]
    BY <1>3, NoSnapFacts
  <2>3. epoch' \in Nat
    BY <1>3, <1>4
  <2>4. state' \in Seq(StateRecords) /\ moves' \in Seq(MoveRecords) /\ expired' \in BOOLEAN
    BY <1>2, <1>3 DEF JobTypes
  <2>5. QED
    BY ONLY <2>1, <2>2, <2>3, <2>4 DEF JobTypes
<1>7. OffsetsOrdered'
  <2>1. \A t \in InputTopics : ckpt.pos[t] \in Nat /\ Start.pos[t] = 0
    BY <1>2, StartFacts DEF JobShape
  <2>2. QED
    BY <1>3, <2>1, NoSnapFacts DEF OffsetsOrdered
<1>8. \A t \in InputTopics : 0 <= Len(log[t])
  BY <1>1, JobAssumption, LenProperties
<1>9. /\ FollowsFrom(log, expired, Start)
      /\ Written(log, Start, moves, snap'.upto.moves, state, snap'.upto.state)
  BY <1>8, StartFacts
<1>10. Written(log, ckpt, moves, Len(moves), state, Len(state))
  <2>1. Written(log, ckpt, AllMoves, Len(moves), AllStates, Len(state))
    BY DEF JobInv
  <2>2. /\ \A i \in DOMAIN moves : i \in DOMAIN AllMoves /\ AllMoves[i] = moves[i]
        /\ \A i \in DOMAIN state : i \in DOMAIN AllStates /\ AllStates[i] = state[i]
        /\ \A i \in DOMAIN AllMoves : i <= Len(moves) => i \in DOMAIN moves
        /\ \A i \in DOMAIN AllStates : i <= Len(state) => i \in DOMAIN state
    BY <1>2, SinkFacts
  <2>3. QED
    BY <2>1, <2>2 DEF Written
<1>11. MovesTrue(moves, state, ckpt, epoch + 1, expired)
  <2>1. MovesTrue(moves \o unsent.moves, AllStates, job, epoch, expired)
    BY DEF JobInv, AllMoves
  <2>2. QED
    BY <1>4, <2>1, MovesCut
<1>12. snap'.job = Start
  BY <1>3, NoSnapFacts
<1>13. QED
  BY <1>1, <1>2, <1>3, <1>5, <1>6, <1>7, <1>9, <1>10, <1>11, <1>12 DEF JobInv

(* A dedup entry is dropped when its time has passed. *)
LEMMA ExpireStep ==
  ASSUME JobInv, UNCHANGED <<prodvars, log>>, NEW id, Expire(id)
  PROVE  JobInv'
<1>1. ProducerInv' /\ log' = log
  BY ProducerStays DEF JobInv
<1>2. /\ job' = [job EXCEPT !.seen = @ \ {id}] /\ expired' = TRUE
      /\ UNCHANGED <<snap, ckpt, unsent, state, moves, epoch>>
  BY DEF Expire
<1>3. /\ FollowsFrom(log, TRUE, job') /\ IdsIn(log, job') = IdsIn(log, job)
      /\ FollowsFrom(log, TRUE, ckpt) /\ FollowsFrom(log, TRUE, snap.job)
  BY <1>2, FollowsLate DEF JobInv
<1>4. job'.pos = job.pos /\ job'.keyed = job.keyed
  <2>1. job = [pos |-> job.pos, keyed |-> job.keyed, seen |-> job.seen]
    BY DEF JobInv, FollowsFrom, JobShape
  <2>2. job' = [pos |-> job.pos, keyed |-> job.keyed, seen |-> job.seen \ {id}]
    BY <1>2, <2>1
  <2>3. QED
    BY <2>2
<1>5. AllMoves' = AllMoves /\ AllStates' = AllStates
  BY <1>2 DEF AllMoves, AllStates
<1>6. JobTypes' /\ OffsetsOrdered'
  BY <1>2, <1>4 DEF JobInv, JobTypes, OffsetsOrdered
<1>7. Written(log, job', AllMoves, Len(AllMoves), AllStates, Len(AllStates))
  BY <1>3, <1>4 DEF JobInv, Written
<1>8. MovesTrue(AllMoves, AllStates, job', epoch, TRUE)
  <2>1. MovesTrue(AllMoves, AllStates, job, epoch, expired)
    BY DEF JobInv
  <2>2. QED
    BY <1>4, <2>1, MovesSame
<1>9. QED
  BY <1>1, <1>2, <1>3, <1>5, <1>6, <1>7, <1>8 DEF JobInv

-----------------------------------------------------------------------------
(* The invariant holds, and what it says of the job *)

LEMMA JobInvInit == Init /\ JobInit => JobInv
<1>1. SUFFICES ASSUME Init, JobInit PROVE JobInv
  OBVIOUS
<1>2. ProducerInv
  BY <1>1, ProducerInit
<1>3. /\ job = Start /\ snap = NoSnap /\ ckpt = Start /\ unsent = [state |-> <<>>, moves |-> <<>>]
      /\ state = <<>> /\ moves = <<>> /\ epoch = 0 /\ expired = FALSE
  BY <1>1 DEF JobInit
<1>4. JobTypes
  <2>1. unsent \in [state : Seq(StateRecords), moves : Seq(MoveRecords)]
    BY <1>3
  <2>2. QED
    BY <1>3, <2>1, NoSnapFacts DEF JobTypes
<1>5. snap.job = Start /\ snap.under = FALSE
  BY <1>3, NoSnapFacts
<1>6. OffsetsOrdered
  BY <1>3, <1>5, StartFacts DEF OffsetsOrdered
<1>7. \A t \in InputTopics : 0 <= Len(log[t])
  BY <1>2, JobAssumption, LenProperties DEF ProducerInv, ProducerTypes
<1>8. /\ FollowsFrom(log, expired, Start)
      /\ \A ms, a, ss, b : Written(log, Start, ms, a, ss, b)
  BY <1>7, StartFacts
<1>9. MovesTrue(AllMoves, AllStates, job, epoch, expired)
  <2>1. DOMAIN AllMoves = {}
    <3>1. AllMoves = <<>>
      BY <1>3 DEF AllMoves
    <3>2. QED
      BY <3>1
  <2> HIDE DEF AllMoves
  <2>2. QED
    BY <2>1 DEF MovesTrue, Chained, EndsIn, Of
<1>10. QED
  BY <1>2, <1>3, <1>4, <1>5, <1>6, <1>8, <1>9 DEF JobInv

LEMMA JobInvNext == JobInv /\ [JobNext]_<<prodvars, log, faults, jobvars>> => JobInv'
<1> SUFFICES ASSUME JobInv, [JobNext]_<<prodvars, log, faults, jobvars>> PROVE JobInv'
  OBVIOUS
<1>1. CASE UNCHANGED <<prodvars, log, faults, jobvars>>
  BY <1>1, ProducerBeside
<1>2. CASE Next /\ UNCHANGED jobvars
  BY <1>2, ProducerBeside
<1>3. CASE JobStep /\ UNCHANGED <<prodvars, log, faults>>
  BY <1>3, ProcessStep, SendStep, BarrierStep, CompleteStep DEF JobStep
<1>4. CASE JobFault /\ UNCHANGED <<prodvars, log>>
  BY <1>4, RestoreStep, ExpireStep DEF JobFault
<1>5. QED
  BY <1>1, <1>2, <1>3, <1>4 DEF JobNext

LEMMA JobInvExact == JobInv => JobExact
<1> SUFFICES ASSUME JobInv PROVE JobExact
  OBVIOUS
<1>1. /\ JobTypes /\ OffsetsOrdered /\ FollowsFrom(log, expired, job)
      /\ FollowsFrom(log, expired, ckpt)
      /\ MovesTrue(AllMoves, AllStates, job, epoch, expired)
      /\ Written(log, ckpt, AllMoves, Len(moves), AllStates, Len(state))
  BY DEF JobInv
<1>2. \A j : /\ UsableIds(j) = IdsIn(log, j) /\ \A c : RetryIds(j, c) = RetriesIn(log, j, c)
  BY DEF UsableIds, RetryIds, IdsIn, RetriesIn, ReadBy, ReadIn
<1>3. /\ \A i \in DOMAIN moves : i \in DOMAIN AllMoves /\ AllMoves[i] = moves[i]
      /\ \A i \in DOMAIN state : i \in DOMAIN AllStates /\ AllStates[i] = state[i]
      /\ \A i \in DOMAIN AllMoves : i <= Len(moves) => i \in DOMAIN moves
      /\ \A i \in DOMAIN AllStates : i <= Len(state) => i \in DOMAIN state
  BY <1>1, SinkFacts
<1>4. JobTypeOK
  BY <1>1, <1>2, <1>3 DEF JobTypeOK, OffsetsOrdered, FollowsFrom, JobShape, MovesTrue
<1>5. NothingLost
  <2>1. ASSUME NEW x \in UsableIds(ckpt) PROVE x \in MoveIds(moves)
    <3>1. PICK i \in DOMAIN AllMoves : i <= Len(moves) /\ AllMoves[i].id[2] = x
      BY <1>1, <1>2, <2>1 DEF Written
    <3>2. i \in DOMAIN moves /\ moves[i].id[2] = x
      BY <1>3, <3>1
    <3>3. QED
      BY <3>2 DEF MoveIds
  <2>2. ASSUME NEW c \in DOMAIN ckpt.keyed
        PROVE  \E i \in DOMAIN state : state[i] = <<c, ckpt.keyed[c]>>
    <3>1. PICK i \in DOMAIN AllStates : i <= Len(state) /\ AllStates[i] = <<c, ckpt.keyed[c]>>
      BY <1>1, <2>2 DEF Written
    <3>2. i \in DOMAIN state /\ state[i] = AllStates[i]
      BY <1>3, <3>1
    <3>3. QED
      BY <3>1, <3>2
  <2>3. QED
    BY <2>1, <2>2 DEF NothingLost
<1>6. SecondMoveExplained
  BY <1>1 DEF SecondMoveExplained, MovesTrue
<1>7. RetriesExact
  BY <1>1, <1>2 DEF RetriesExact, FollowsFrom
<1>8. MovesChain
  <2>1. \A c : MovesOf(c) = Of(c, AllMoves) /\ StatesOf(c) = StatesIn(c, AllStates)
    BY DEF MovesOf, Of, StatesOf, StatesIn
  <2>2. \A c \in Correlations : Chained(c, AllMoves) /\ EndsIn(c, AllMoves, AllStates, job, epoch)
    BY <1>1 DEF MovesTrue
  <2>3. QED
    BY <2>1, <2>2 DEF MovesChain, Chained, EndsIn, Known
<1>9. QED
  BY <1>4, <1>5, <1>6, <1>7, <1>8 DEF JobExact

(* The lifecycle job beside the producer that feeds it, for any files,       *)
(* topics, correlations, stages, runs and faults, in any interleaving, with  *)
(* checkpoints, restores and expiring dedup entries anywhere: what a         *)
(* completed checkpoint has passed is on both sinks, a second transition of  *)
(* an event means a restore or an expired entry, the retries counted are     *)
(* those of the distinct events, and between restores the transitions of a   *)
(* correlation chain and end in the state published last.                    *)
THEOREM JobExactHolds == JobSpec => []JobExact
<1>1. Init /\ JobInit => JobInv
  BY JobInvInit
<1>2. JobInv /\ [JobNext]_<<prodvars, log, faults, jobvars>> => JobInv'
  BY JobInvNext
<1>3. JobInv => JobExact
  BY JobInvExact
<1>4. QED
  BY <1>1, <1>2, <1>3, PTL DEF JobSpec

-----------------------------------------------------------------------------
(* The MDM publisher.  The rows are read three times and edited in between;  *)
(* that none of another authority or without its key is published rests on   *)
(* the plan the command builds last, and on the check of every row there.    *)

PlanItems == [spec : SpecSet, key : Keys \cup {"none"}]
Delivered(a, p, x) == {i \in DOMAIN a : a[i] = "ok" /\ p[i] = x}
HeldAs(q, x) == {i \in DOMAIN q : q[i] = x}

MdmModes == mode \in {"validate", "plan", "execute"}

MdmTypes ==
  /\ rows \in [SpecSet -> Contents] /\ at \in 0 .. Len(Specs)
  /\ plan \in Seq(PlanItems) /\ published \in Seq(PlanItems)
  /\ answer \in Seq({"sent", "ok", "error"}) /\ Len(answer) = sent /\ sent <= Len(plan)

(* What the command's place says: it answers for nothing before it produces, *)
(* and it gets there only with --execute and the switch on.                  *)
MdmPlaces ==
  /\ mpc \in {"validate", "plan", "replan"} => answer = <<>> /\ published = <<>>
  /\ mpc = "plan" => mode \in {"plan", "execute"}
  /\ mpc \in {"replan", "produce", "flush"} \/ published # <<>> => mode = "execute" /\ enabled
  /\ mpc = "flush" => sent = Len(plan)
  /\ mpc = "exit0" /\ mode = "execute" =>
       /\ enabled /\ delivered = Len(plan) /\ sent = Len(plan)
       /\ \A i \in DOMAIN answer : answer[i] = "ok"

(* The rows in a plan, or on the topics, are keyed rows of the authority. *)
OwnRows(q) == \A i \in DOMAIN q : Authority[q[i].spec] = who /\ q[i].key # "none"

(* What the broker has taken is on the topics, as often as it was taken. *)
TakenIsHeld ==
  /\ Cardinality(Answered("ok")) = Len(published)
  /\ \A x \in PlanItems : Cardinality(Delivered(answer, plan, x)) = Cardinality(HeldAs(published, x))

MdmInv ==
  MdmModes /\ MdmTypes /\ MdmPlaces /\ OwnRows(plan) /\ OwnRows(published) /\ TakenIsHeld

(* An empty sequence of answers or of rows says nothing. *)
LEMMA NothingTaken ==
  /\ Cardinality({i \in DOMAIN <<>> : <<>>[i] = "ok"}) = 0
  /\ \A p, x : Cardinality(Delivered(<<>>, p, x)) = 0
  /\ \A x : Cardinality(HeldAs(<<>>, x)) = 0
<1>1. DOMAIN <<>> = {}
  OBVIOUS
<1>2. /\ {i \in DOMAIN <<>> : <<>>[i] = "ok"} = {}
      /\ \A p, x : Delivered(<<>>, p, x) = {}
      /\ \A x : HeldAs(<<>>, x) = {}
  BY <1>1 DEF Delivered, HeldAs
<1>3. QED
  BY <1>2, FS_EmptySet

LEMMA MdmInvInit == MdmInit => MdmInv
<1> SUFFICES ASSUME MdmInit PROVE MdmInv
  OBVIOUS
<1>1. /\ plan = <<>> /\ answer = <<>> /\ published = <<>> /\ sent = 0 /\ at = 0 /\ mpc = "validate"
      /\ rows \in [SpecSet -> Contents]
  BY DEF MdmInit
<1>2. MdmTypes
  BY <1>1, MdmAssumption, LenProperties, EmptySeq DEF MdmTypes
<1>3. MdmPlaces
  BY <1>1 DEF MdmPlaces
<1>4. OwnRows(plan) /\ OwnRows(published)
  BY <1>1 DEF OwnRows
<1>5. TakenIsHeld
  BY <1>1, NothingTaken DEF TakenIsHeld, Answered
<1>6. MdmModes
  BY DEF MdmInit, MdmModes
<1>7. QED
  BY <1>2, <1>3, <1>4, <1>5, <1>6 DEF MdmInv

(* The rows of a keyed file, appended to the plan. *)
LEMMA RowsFacts ==
  ASSUME MdmTypes, NEW s \in SpecSet
  PROVE  /\ RowsOf(s) \in Seq(PlanItems)
         /\ Keyed(s) => \A i \in DOMAIN RowsOf(s) : RowsOf(s)[i].spec = s /\ RowsOf(s)[i].key # "none"
<1>1. rows[s] \in Seq(Keys \cup {"none"})
  BY MdmAssumption DEF MdmTypes
<1>2. Len(rows[s]) \in Nat /\ DOMAIN rows[s] = 1 .. Len(rows[s])
      /\ \A i \in DOMAIN rows[s] : rows[s][i] \in Keys \cup {"none"}
  BY <1>1, LenProperties, ElementOfSeq
<1>3. RowsOf(s) \in [1 .. Len(rows[s]) -> PlanItems]
  BY <1>2 DEF RowsOf, PlanItems
<1>4. RowsOf(s) \in Seq(PlanItems)
  BY <1>2, <1>3, SeqDef
<1>5. ASSUME Keyed(s), NEW i \in DOMAIN RowsOf(s)
      PROVE  RowsOf(s)[i].spec = s /\ RowsOf(s)[i].key # "none"
  BY <1>5 DEF Keyed, RowsOf
<1>6. QED
  BY <1>4, <1>5

LEMMA OwnRowsConcat ==
  ASSUME NEW p \in Seq(PlanItems), NEW q \in Seq(PlanItems), OwnRows(p), OwnRows(q)
  PROVE  p \o q \in Seq(PlanItems) /\ OwnRows(p \o q)
<1>1. /\ p \o q \in Seq(PlanItems) /\ Len(p \o q) = Len(p) + Len(q)
      /\ Len(p) \in Nat /\ Len(q) \in Nat
      /\ DOMAIN p = 1 .. Len(p) /\ DOMAIN q = 1 .. Len(q) /\ DOMAIN (p \o q) = 1 .. Len(p \o q)
      /\ \A i \in 1 .. Len(p) + Len(q) : (p \o q)[i] = IF i <= Len(p) THEN p[i] ELSE q[i - Len(p)]
  BY LenProperties, ConcatProperties
<1>2. ASSUME NEW i \in DOMAIN (p \o q)
      PROVE  Authority[(p \o q)[i].spec] = who /\ (p \o q)[i].key # "none"
  <2>1. CASE i <= Len(p)
    <3>1. i \in DOMAIN p /\ (p \o q)[i] = p[i]
      BY <1>1, <1>2, <2>1
    <3>2. QED
      BY <3>1 DEF OwnRows
  <2>2. CASE ~(i <= Len(p))
    <3>1. i - Len(p) \in DOMAIN q /\ (p \o q)[i] = q[i - Len(p)]
      BY <1>1, <1>2, <2>2
    <3>2. QED
      BY <3>1 DEF OwnRows
  <2>3. QED
    BY <2>1, <2>2
<1>3. QED
  BY <1>1, <1>2 DEF OwnRows

(* A step that leaves the plan, the answers and the topics alone keeps what  *)
(* is said of them.                                                          *)
LEMMA RowsStay ==
  ASSUME MdmInv, UNCHANGED <<who, answer, plan, published>>
  PROVE  OwnRows(plan)' /\ OwnRows(published)' /\ TakenIsHeld'
<1>1. OwnRows(plan)'
  BY DEF MdmInv, OwnRows
<1>2. OwnRows(published)'
  BY DEF MdmInv, OwnRows
<1>3. TakenIsHeld'
  BY DEF MdmInv, TakenIsHeld, Answered
<1>4. QED
  BY <1>1, <1>2, <1>3

LEMMA ValidateStep ==
  ASSUME MdmInv, Validate
  PROVE  MdmInv'
<1>1. /\ UNCHANGED <<mode, who, enabled, rows, at, plan, sent, answer, delivered, published>>
      /\ mpc = "validate" /\ mpc' \in {"exit1", "exit0", "plan"}
      /\ mpc' = "exit0" => mode = "validate"
  BY DEF Validate
<1>2. mpc' = "plan" => mode' \in {"plan", "execute"}
  BY DEF Validate, MdmInv, MdmModes
<1>3. MdmModes' /\ MdmTypes'
  BY <1>1 DEF MdmInv, MdmModes, MdmTypes
<1>4. MdmPlaces'
  BY <1>1, <1>2 DEF MdmInv, MdmPlaces
<1>5. QED
  BY <1>1, <1>3, <1>4, RowsStay DEF MdmInv

(* The next record of the registry: its rows, keyed, end the plan. *)
LEMMA PlanRecordStep ==
  ASSUME MdmInv, PlanRecord
  PROVE  MdmInv'
<1> DEFINE s == Specs[at + 1]
<1>1. /\ UNCHANGED <<mode, who, enabled, rows, sent, answer, delivered, published>>
      /\ mpc \in {"plan", "replan"} /\ at < Len(Specs)
  BY DEF PlanRecord
<1>2. \/ mpc' = "exit1" /\ at' = at /\ plan' = plan
      \/ at' = at + 1 /\ mpc' = mpc /\ plan' = plan
      \/ at' = at + 1 /\ mpc' = mpc /\ plan' = plan \o RowsOf(s) /\ Selects(s) /\ Keyed(s)
  BY DEF PlanRecord
<1>3. /\ MdmTypes /\ MdmModes /\ MdmPlaces /\ OwnRows(plan) /\ OwnRows(published) /\ TakenIsHeld
      /\ answer = <<>> /\ published = <<>>
  BY <1>1 DEF MdmInv, MdmPlaces
<1>4. Len(Specs) \in Nat /\ at \in Nat /\ at + 1 \in DOMAIN Specs /\ s \in SpecSet
  <2>1. Len(Specs) \in Nat /\ DOMAIN Specs = 1 .. Len(Specs)
    BY MdmAssumption, LenProperties
  <2>2. at \in Nat /\ at + 1 \in DOMAIN Specs
    BY <1>1, <1>3, <2>1 DEF MdmTypes
  <2>3. QED
    BY <2>1, <2>2 DEF SpecSet
<1>5. plan' \in Seq(PlanItems) /\ OwnRows(plan)' /\ at' \in 0 .. Len(Specs)
  <2>1. CASE plan' = plan
    <3>1. OwnRows(plan)'
      BY <1>1, <1>3, <2>1 DEF OwnRows
    <3>2. plan' \in Seq(PlanItems) /\ at' \in 0 .. Len(Specs)
      BY <1>1, <1>2, <1>3, <1>4, <2>1 DEF MdmTypes
    <3>3. QED
      BY <3>1, <3>2
  <2>2. CASE plan' # plan
    <3>1. at' = at + 1 /\ plan' = plan \o RowsOf(s) /\ Selects(s) /\ Keyed(s)
      BY <1>2, <2>2
    <3>2. /\ RowsOf(s) \in Seq(PlanItems)
          /\ \A i \in DOMAIN RowsOf(s) : RowsOf(s)[i].spec = s /\ RowsOf(s)[i].key # "none"
      BY <1>3, <1>4, <3>1, RowsFacts, Zenon
    <3>3. OwnRows(RowsOf(s))
      BY <3>1, <3>2 DEF OwnRows, Selects
    <3>4. plan \in Seq(PlanItems)
      BY <1>3 DEF MdmTypes
    <3>5. plan \o RowsOf(s) \in Seq(PlanItems) /\ OwnRows(plan \o RowsOf(s))
      BY <1>3, <3>2, <3>3, <3>4, OwnRowsConcat, Zenon
    <3>6. OwnRows(plan)'
      BY <1>1, <3>1, <3>5 DEF OwnRows
    <3>7. at' \in 0 .. Len(Specs)
      BY <1>1, <1>4, <3>1
    <3>8. QED
      BY <3>1, <3>5, <3>6, <3>7
  <2>3. QED
    BY <2>1, <2>2
<1>6. sent = 0 /\ sent <= Len(plan')
  <2>1. sent = 0
    BY <1>3 DEF MdmTypes
  <2>2. Len(plan') \in Nat
    BY <1>5, LenProperties
  <2>3. QED
    BY <2>1, <2>2
<1>7. MdmTypes'
  BY <1>1, <1>3, <1>5, <1>6 DEF MdmTypes
<1>8. MdmModes' /\ MdmPlaces'
  BY <1>1, <1>2, <1>3 DEF MdmModes, MdmPlaces
<1>9. OwnRows(published)'
  BY <1>1, <1>3 DEF OwnRows
<1>10. TakenIsHeld'
  BY <1>1, <1>3, NothingTaken DEF TakenIsHeld, Answered
<1>11. QED
  BY <1>5, <1>7, <1>8, <1>9, <1>10 DEF MdmInv

LEMMA PlanBuiltStep ==
  ASSUME MdmInv, PlanBuilt
  PROVE  MdmInv'
<1>1. /\ UNCHANGED <<mode, who, enabled, rows, sent, answer, delivered, published>>
      /\ mpc \in {"plan", "replan"}
      /\ mpc' = "replan" => at' = 0 /\ plan' = <<>>
      /\ mpc' # "replan" => at' = at /\ plan' = plan
  BY DEF PlanBuilt
<1>2. /\ MdmTypes /\ MdmModes /\ MdmPlaces /\ OwnRows(plan) /\ OwnRows(published)
      /\ answer = <<>> /\ published = <<>>
  BY <1>1 DEF MdmInv, MdmPlaces
<1>3. \/ mpc = "replan" /\ mpc' = "produce"
      \/ mpc = "plan" /\ mode = "plan" /\ mpc' = "exit0"
      \/ mpc = "plan" /\ mode # "plan" /\ enabled /\ mpc' = "replan"
      \/ mpc' = "exit1"
  BY <1>1 DEF PlanBuilt
<1>4. plan' \in Seq(PlanItems) /\ OwnRows(plan)'
  <2>1. CASE mpc' = "replan"
    BY <1>1, <2>1, EmptySeq DEF OwnRows
  <2>2. CASE mpc' # "replan"
    BY <1>1, <1>2, <2>2 DEF OwnRows, MdmTypes
  <2>3. QED
    BY <2>1, <2>2
<1>5. sent = 0 /\ sent <= Len(plan')
  <2>1. sent = 0
    BY <1>2 DEF MdmTypes
  <2>2. Len(plan') \in Nat
    BY <1>4, LenProperties
  <2>3. QED
    BY <2>1, <2>2
<1>6. at' \in 0 .. Len(Specs)
  <2>1. Len(Specs) \in Nat
    BY MdmAssumption, LenProperties
  <2>2. QED
    BY <1>1, <1>2, <2>1 DEF MdmTypes
<1>7. MdmTypes'
  BY <1>1, <1>2, <1>4, <1>5, <1>6 DEF MdmTypes
<1>8. MdmModes' /\ MdmPlaces'
  BY <1>1, <1>2, <1>3 DEF MdmModes, MdmPlaces
<1>9. OwnRows(published)'
  BY <1>1, <1>2 DEF OwnRows
<1>10. TakenIsHeld'
  BY <1>1, <1>2, NothingTaken DEF TakenIsHeld, Answered
<1>11. QED
  BY <1>4, <1>7, <1>8, <1>9, <1>10 DEF MdmInv

(* What the broker has been asked counts for nothing until it answers. *)
LEMMA ProduceItemStep ==
  ASSUME MdmInv, ProduceItem
  PROVE  MdmInv'
<1>1. /\ UNCHANGED <<mode, who, enabled, rows, at, plan, delivered, published>> /\ mpc = "produce"
  BY DEF ProduceItem
<1>2. \/ sent = Len(plan) /\ mpc' = "flush" /\ sent' = sent /\ answer' = answer
      \/ mpc' = "exit1" /\ sent' = sent /\ answer' = answer
      \/ sent # Len(plan) /\ mpc' = mpc /\ sent' = sent + 1 /\ answer' = Append(answer, "sent")
  BY DEF ProduceItem
<1>3. /\ MdmTypes /\ MdmModes /\ MdmPlaces /\ OwnRows(plan) /\ OwnRows(published) /\ TakenIsHeld
  BY DEF MdmInv
<1>4. CASE answer' = answer /\ sent' = sent /\ mpc' \in {"flush", "exit1"}
  <2>1. MdmTypes' /\ MdmModes'
    BY <1>1, <1>3, <1>4 DEF MdmTypes, MdmModes
  <2>2. MdmPlaces'
    BY <1>1, <1>2, <1>3, <1>4 DEF MdmPlaces
  <2>3. QED
    BY <1>1, <1>4, <2>1, <2>2, RowsStay DEF MdmInv
<1>5. CASE sent # Len(plan) /\ mpc' = mpc /\ sent' = sent + 1 /\ answer' = Append(answer, "sent")
  <2>1. /\ answer \in Seq({"sent", "ok", "error"}) /\ Len(answer) = sent /\ sent \in Nat
        /\ Len(plan) \in Nat /\ sent < Len(plan) /\ DOMAIN answer = 1 .. sent
    <3>1. /\ answer \in Seq({"sent", "ok", "error"}) /\ Len(answer) = sent /\ sent <= Len(plan)
          /\ plan \in Seq(PlanItems)
      BY <1>3 DEF MdmTypes
    <3>2. Len(answer) \in Nat /\ Len(plan) \in Nat /\ DOMAIN answer = 1 .. Len(answer)
      BY <3>1, LenProperties
    <3>3. QED
      BY <1>5, <3>1, <3>2
  <2>2. /\ answer' \in Seq({"sent", "ok", "error"}) /\ Len(answer') = sent + 1
        /\ DOMAIN answer' = 1 .. sent + 1
        /\ \A i \in 1 .. sent : answer'[i] = answer[i]
        /\ answer'[sent + 1] = "sent"
    BY <1>5, <2>1, AppendProperties
  <2>3. MdmTypes' /\ MdmModes' /\ MdmPlaces'
    BY <1>1, <1>3, <1>5, <2>1, <2>2 DEF MdmTypes, MdmModes, MdmPlaces
  <2>4. Answered("ok")' = Answered("ok")
    BY <2>1, <2>2 DEF Answered
  <2>5. \A x : Delivered(answer, plan, x)' = Delivered(answer, plan, x)
    BY <1>1, <2>1, <2>2 DEF Delivered
  <2>6. TakenIsHeld'
    BY <1>1, <1>3, <2>4, <2>5 DEF TakenIsHeld, HeldAs
  <2>7. OwnRows(plan)' /\ OwnRows(published)'
    BY <1>1, <1>3 DEF OwnRows
  <2>8. QED
    BY <2>3, <2>6, <2>7 DEF MdmInv
<1>6. QED
  BY <1>2, <1>4, <1>5

(* A positive answer adds one to what was taken and one to what is held,     *)
(* and it is the same row; a failure adds nothing.                           *)
LEMMA AcknowledgeStep ==
  ASSUME MdmInv, NEW n \in DOMAIN answer, NEW ok \in BOOLEAN, Acknowledge(n, ok)
  PROVE  MdmInv'
<1> DEFINE word == IF ok THEN "ok" ELSE "error"
<1>1. /\ UNCHANGED <<mode, who, enabled, rows, mpc, at, plan, sent, delivered>>
      /\ mpc \in {"produce", "flush"} /\ answer[n] = "sent"
      /\ answer' = [answer EXCEPT ![n] = word]
      /\ published' = IF ok THEN Append(published, plan[n]) ELSE published
  BY DEF Acknowledge
<1>2. /\ MdmTypes /\ MdmModes /\ MdmPlaces /\ OwnRows(plan) /\ OwnRows(published) /\ TakenIsHeld
  BY DEF MdmInv
<1>3. /\ answer \in Seq({"sent", "ok", "error"}) /\ Len(answer) = sent /\ sent <= Len(plan)
      /\ plan \in Seq(PlanItems) /\ published \in Seq(PlanItems)
  BY <1>2 DEF MdmTypes
<1>4. /\ Len(answer) \in Nat /\ Len(plan) \in Nat /\ Len(published) \in Nat
      /\ DOMAIN answer = 1 .. Len(answer) /\ DOMAIN plan = 1 .. Len(plan)
      /\ DOMAIN published = 1 .. Len(published)
  BY <1>3, LenProperties
<1>5. n \in DOMAIN plan /\ plan[n] \in PlanItems
  BY <1>3, <1>4, ElementOfSeq
<1>6. /\ answer' \in Seq({"sent", "ok", "error"}) /\ Len(answer') = Len(answer)
      /\ DOMAIN answer' = DOMAIN answer /\ answer'[n] = word
      /\ \A i \in DOMAIN answer : i # n => answer'[i] = answer[i]
  <2>1. word \in {"sent", "ok", "error"}
    OBVIOUS
  <2>2. answer \in [1 .. Len(answer) -> {"sent", "ok", "error"}]
    BY <1>3, <1>4
  <2>3. answer' \in [1 .. Len(answer) -> {"sent", "ok", "error"}]
    BY <1>1, <1>4, <2>1, <2>2
  <2>4. answer' \in Seq({"sent", "ok", "error"})
    BY <1>4, <2>3, SeqDef
  <2>5. Len(answer') = Len(answer)
    BY <1>4, <2>3, <2>4, LenProperties
  <2>6. DOMAIN answer' = DOMAIN answer
    BY <1>4, <2>3
  <2>7. answer'[n] = word /\ \A i \in DOMAIN answer : i # n => answer'[i] = answer[i]
    BY <1>1, <1>4, <2>2
  <2>8. QED
    BY <2>4, <2>5, <2>6, <2>7
<1>7. /\ published' \in Seq(PlanItems)
      /\ ok => /\ Len(published') = Len(published) + 1
               /\ DOMAIN published' = 1 .. Len(published) + 1
               /\ \A i \in DOMAIN published : published'[i] = published[i]
               /\ published'[Len(published) + 1] = plan[n]
      /\ ~ok => published' = published
  <2>1. CASE ok
    BY <1>1, <1>3, <1>4, <1>5, <2>1, AppendProperties
  <2>2. CASE ~ok
    BY <1>1, <1>3, <2>2
  <2>3. QED
    BY <2>1, <2>2
<1>8. mode = "execute" /\ enabled
  BY <1>1, <1>2 DEF MdmPlaces
<1>9. MdmModes' /\ MdmTypes'
  BY <1>1, <1>2, <1>3, <1>6, <1>7 DEF MdmModes, MdmTypes
<1>10. MdmPlaces'
  BY <1>1, <1>2, <1>8 DEF MdmPlaces
<1>11. OwnRows(plan)'
  BY <1>1, <1>2 DEF OwnRows
<1>12. OwnRows(published)'
  <2>1. CASE ok
    <3>1. Authority[plan[n].spec] = who /\ plan[n].key # "none"
      BY <1>2, <1>5 DEF OwnRows
    <3>2. ASSUME NEW i \in DOMAIN published'
          PROVE  Authority[published'[i].spec] = who' /\ published'[i].key # "none"
      <4>1. CASE i \in DOMAIN published
        BY <1>1, <1>2, <1>7, <2>1, <4>1 DEF OwnRows
      <4>2. CASE i \notin DOMAIN published
        <5>1. i = Len(published) + 1
          BY <1>4, <1>7, <2>1, <3>2, <4>2
        <5>2. QED
          BY <1>1, <1>7, <2>1, <3>1, <5>1
      <4>3. QED
        BY <4>1, <4>2
    <3>3. QED
      BY <3>2 DEF OwnRows
  <2>2. CASE ~ok
    BY <1>1, <1>2, <1>7, <2>2 DEF OwnRows
  <2>3. QED
    BY <2>1, <2>2
<1>13. TakenIsHeld'
  <2>1. CASE ok
    <3>1. IsFiniteSet(DOMAIN answer) /\ IsFiniteSet(DOMAIN published)
      BY <1>4, FS_Interval
    <3>2. Cardinality(Answered("ok"))' = Len(published')
      <4>1. Answered("ok")' = Answered("ok") \cup {n} /\ n \notin Answered("ok")
        BY <1>1, <1>6, <2>1 DEF Answered
      <4>2. IsFiniteSet(Answered("ok"))
        BY <3>1, FS_Subset DEF Answered
      <4>3. Cardinality(Answered("ok") \cup {n}) = Cardinality(Answered("ok")) + 1
        BY <4>1, <4>2, FS_AddElement
      <4>4. Cardinality(Answered("ok")) = Len(published)
        BY <1>2 DEF TakenIsHeld
      <4>5. QED
        BY <1>7, <2>1, <4>1, <4>3, <4>4
    <3>3. ASSUME NEW x \in PlanItems
          PROVE  Cardinality(Delivered(answer', plan', x)) = Cardinality(HeldAs(published', x))
      <4>1. Cardinality(Delivered(answer, plan, x)) = Cardinality(HeldAs(published, x))
        BY <1>2 DEF TakenIsHeld
      <4>2. CASE plan[n] = x
        <5>1. /\ Delivered(answer', plan', x) = Delivered(answer, plan, x) \cup {n}
              /\ n \notin Delivered(answer, plan, x)
          BY <1>1, <1>6, <2>1, <4>2 DEF Delivered
        <5>2. /\ HeldAs(published', x) = HeldAs(published, x) \cup {Len(published) + 1}
              /\ Len(published) + 1 \notin HeldAs(published, x)
          BY <1>4, <1>7, <2>1, <4>2 DEF HeldAs
        <5>3. IsFiniteSet(Delivered(answer, plan, x)) /\ IsFiniteSet(HeldAs(published, x))
          BY <3>1, FS_Subset DEF Delivered, HeldAs
        <5>4. /\ Cardinality(Delivered(answer', plan', x)) = Cardinality(Delivered(answer, plan, x)) + 1
              /\ Cardinality(HeldAs(published', x)) = Cardinality(HeldAs(published, x)) + 1
          BY <5>1, <5>2, <5>3, FS_AddElement
        <5>5. QED
          BY <4>1, <5>4
      <4>3. CASE plan[n] # x
        <5>1. Delivered(answer', plan', x) = Delivered(answer, plan, x)
          BY <1>1, <1>6, <2>1, <4>3 DEF Delivered
        <5>2. HeldAs(published', x) = HeldAs(published, x)
          BY <1>4, <1>7, <2>1, <4>3 DEF HeldAs
        <5>3. QED
          BY <4>1, <5>1, <5>2
      <4>4. QED
        BY <4>2, <4>3
    <3>4. QED
      BY <3>2, <3>3 DEF TakenIsHeld
  <2>2. CASE ~ok
    <3>1. Answered("ok")' = Answered("ok")
      BY <1>1, <1>6, <2>2 DEF Answered
    <3>2. \A x : Delivered(answer', plan', x) = Delivered(answer, plan, x)
      BY <1>1, <1>6, <2>2 DEF Delivered
    <3>3. QED
      BY <1>2, <1>7, <2>2, <3>1, <3>2 DEF TakenIsHeld
  <2>3. QED
    BY <2>1, <2>2
<1>14. QED
  BY <1>9, <1>10, <1>11, <1>12, <1>13 DEF MdmInv

(* Exit 0 is reached only with every answer there and none a failure. *)
LEMMA FlushAllStep ==
  ASSUME MdmInv, FlushAll
  PROVE  MdmInv'
<1>1. /\ UNCHANGED <<mode, who, enabled, rows, at, plan, sent, answer, published>> /\ mpc = "flush"
  BY DEF FlushAll
<1>2. \/ mpc' = "exit1"
      \/ /\ mpc' = "exit0" /\ delivered' = Len(plan)
         /\ Answered("sent") = {} /\ Answered("error") = {}
  BY DEF FlushAll
<1>3. /\ MdmTypes /\ MdmModes /\ MdmPlaces
  BY DEF MdmInv
<1>4. MdmTypes' /\ MdmModes'
  BY <1>1, <1>3 DEF MdmTypes, MdmModes
<1>5. MdmPlaces'
  <2>1. sent = Len(plan) /\ mode = "execute" /\ enabled
    BY <1>1, <1>3 DEF MdmPlaces
  <2>2. mpc' = "exit0" => \A i \in DOMAIN answer : answer[i] = "ok"
    <3>1. \A i \in DOMAIN answer : answer[i] \in {"sent", "ok", "error"}
      BY <1>3, ElementOfSeq, LenProperties DEF MdmTypes
    <3>2. QED
      BY <1>2, <3>1 DEF Answered
  <2>3. QED
    BY <1>1, <1>2, <1>3, <2>1, <2>2 DEF MdmPlaces
<1>6. QED
  BY <1>1, <1>4, <1>5, RowsStay DEF MdmInv

(* An edit touches a file, not what was planned from it. *)
LEMMA EditStep ==
  ASSUME MdmInv, NEW s \in SpecSet, NEW c \in Contents, Edit(s, c)
  PROVE  MdmInv'
<1>1. /\ UNCHANGED <<mode, who, enabled, mpc, at, plan, sent, answer, delivered, published>>
      /\ rows' = [rows EXCEPT ![s] = c]
  BY DEF Edit
<1>2. MdmTypes' /\ MdmModes'
  BY <1>1 DEF MdmInv, MdmTypes, MdmModes
<1>3. MdmPlaces'
  BY <1>1 DEF MdmInv, MdmPlaces
<1>4. QED
  BY <1>1, <1>2, <1>3, RowsStay DEF MdmInv

LEMMA MdmInvNext == MdmInv /\ [MdmNext]_mdmvars => MdmInv'
<1> SUFFICES ASSUME MdmInv, [MdmNext]_mdmvars PROVE MdmInv'
  OBVIOUS
<1>1. CASE UNCHANGED mdmvars
  <2>1. UNCHANGED <<mode, who, enabled, mpc, rows, at, plan, sent, answer, delivered, published>>
    BY <1>1 DEF mdmvars
  <2>2. MdmTypes' /\ MdmModes'
    BY <2>1 DEF MdmInv, MdmTypes, MdmModes
  <2>3. MdmPlaces'
    BY <2>1 DEF MdmInv, MdmPlaces
  <2>4. QED
    BY <2>1, <2>2, <2>3, RowsStay DEF MdmInv
<1>2. CASE MdmStep
  BY <1>2, ValidateStep, PlanRecordStep, PlanBuiltStep, ProduceItemStep, FlushAllStep DEF MdmStep
<1>3. CASE MdmBroker
  BY <1>3, AcknowledgeStep DEF MdmBroker
<1>4. ASSUME NEW i \in DOMAIN answer, Acknowledge(i, FALSE) PROVE MdmInv'
  BY <1>4, AcknowledgeStep
<1>5. ASSUME NEW s \in SpecSet, NEW c \in Contents, Edit(s, c) PROVE MdmInv'
  BY <1>5, EditStep
<1>6. QED
  BY <1>1, <1>2, <1>3, <1>4, <1>5 DEF MdmNext

LEMMA MdmInvTrue == MdmInv => MdmTrue
<1> SUFFICES ASSUME MdmInv PROVE MdmTrue
  OBVIOUS
<1>1. AuthorityKept
  BY DEF MdmInv, MdmPlaces, OwnRows, AuthorityKept
<1>2. ASSUME mpc = "exit0", mode = "execute"
      PROVE  /\ enabled /\ delivered = Len(plan) /\ Len(published) = Len(plan)
             /\ \A x \in {plan[i] : i \in DOMAIN plan} :
                  Cardinality({i \in DOMAIN plan : plan[i] = x})
                    = Cardinality({i \in DOMAIN published : published[i] = x})
  <2>1. /\ enabled /\ delivered = Len(plan) /\ sent = Len(plan)
        /\ \A i \in DOMAIN answer : answer[i] = "ok"
    BY <1>2 DEF MdmInv, MdmPlaces
  <2>2. /\ answer \in Seq({"sent", "ok", "error"}) /\ Len(answer) = sent /\ plan \in Seq(PlanItems)
    BY DEF MdmInv, MdmTypes
  <2>3. DOMAIN answer = DOMAIN plan /\ DOMAIN answer = 1 .. Len(plan) /\ Len(plan) \in Nat
    BY <2>1, <2>2, LenProperties
  <2>4. Len(published) = Len(plan)
    <3>1. Answered("ok") = 1 .. Len(plan)
      BY <2>1, <2>3 DEF Answered
    <3>2. Cardinality(1 .. Len(plan)) = Len(plan)
      BY <2>3, FS_Interval
    <3>3. QED
      BY <3>1, <3>2 DEF MdmInv, TakenIsHeld
  <2>5. ASSUME NEW x \in {plan[i] : i \in DOMAIN plan}
        PROVE  Cardinality({i \in DOMAIN plan : plan[i] = x})
                 = Cardinality({i \in DOMAIN published : published[i] = x})
    <3>1. x \in PlanItems
      BY <2>2, ElementOfSeq, LenProperties
    <3>2. Delivered(answer, plan, x) = {i \in DOMAIN plan : plan[i] = x}
      BY <2>1, <2>3 DEF Delivered
    <3>3. Cardinality(Delivered(answer, plan, x)) = Cardinality(HeldAs(published, x))
      BY <3>1 DEF MdmInv, TakenIsHeld
    <3>4. QED
      BY <3>2, <3>3 DEF HeldAs
  <2>6. QED
    BY <2>1, <2>4, <2>5
<1>3. MdmExitTrue
  BY <1>2 DEF MdmExitTrue
<1>4. QED
  BY <1>1, <1>3 DEF MdmTrue

(* For any registry, any files and any edits of them while the command runs, *)
(* any queue limit and any failures: exit 0 of --execute means that the      *)
(* topics hold each row of the plan as often as the plan does and nothing    *)
(* more, and no row of the other authority or without its key is published.  *)
THEOREM MdmTrueHolds == MdmSpec => []MdmTrue
<1>1. MdmInit => MdmInv
  BY MdmInvInit
<1>2. MdmInv /\ [MdmNext]_mdmvars => MdmInv'
  BY MdmInvNext
<1>3. MdmInv => MdmTrue
  BY MdmInvTrue
<1>4. QED
  BY <1>1, <1>2, <1>3, PTL DEF MdmSpec
=============================================================================
