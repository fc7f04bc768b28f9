---------------------------- MODULE ReplayLedger ----------------------------
(* The replay ledger: reservations of replays and their status, in SQLite,   *)
(* shared by processes that each have a connection.  BEGIN IMMEDIATE takes   *)
(* the database's write lock before the status is read.                      *)
EXTENDS Naturals, Sequences, FiniteSets

CONSTANTS
  Clients,      \* processes with a connection
  Requests,     \* calls of reserve that may be made
  IdentityOf,   \* request -> canonical_replay_identity of its source and target
  IdOf,         \* request -> replay_request_id, which a caller may use twice
  Refused,      \* requests that are incomplete, unapproved or carry a payload
  Targets,      \* bound: statuses the transitions ask for
  Calls         \* bound: calls a client makes

ASSUME LedgerAssumption == "none" \notin Clients /\ Calls \in Nat

VARIABLES
  ledger,    \* identity -> [status, request]
  attempts,  \* replay_attempts, in order of attempt_id
  lock,      \* client that holds the write lock, or "none"
  call,      \* client -> [pc, kind, id, req, to, read]
  left,      \* client -> calls left
  started,   \* history: identity -> how often a transition to IN_PROGRESS won
  answers    \* history: <<request, answer>> of each call of reserve

lvars == <<ledger, attempts, lock, call, left, started, answers>>

Identities == {IdentityOf[r] : r \in Requests}

Statuses == {"REQUESTED", "APPROVED", "IN_PROGRESS", "SUCCEEDED", "FAILED",
             "SUPPRESSED_DUPLICATE", "BLOCKED_POLICY"}

(* ALLOWED_TRANSITIONS *)
Allowed(s) ==
  CASE s = "REQUESTED" -> {"APPROVED", "BLOCKED_POLICY", "SUPPRESSED_DUPLICATE"}
    [] s = "APPROVED" -> {"IN_PROGRESS", "BLOCKED_POLICY"}
    [] s = "IN_PROGRESS" -> {"SUCCEEDED", "FAILED"}
    [] OTHER -> {}

NoCall == [pc |-> "idle", kind |-> "none", id |-> "none", req |-> "none",
           to |-> "none", read |-> "none"]

LedgerInit ==
  /\ ledger = [i \in {} |-> NoCall] /\ attempts = <<>> /\ lock = "none"
  /\ call = [c \in Clients |-> NoCall]
  /\ left = [c \in Clients |-> Calls]
  /\ started = [i \in Identities |-> 0]
  /\ answers = {}

Status(id) == IF id \in DOMAIN ledger THEN ledger[id].status ELSE "absent"

(* reserve: validate_request and reject_prohibited_metadata come first. *)
Reserve(c, r) ==
  /\ call[c].pc = "idle" /\ left[c] > 0
  /\ left' = [left EXCEPT ![c] = @ - 1]
  /\ call' = IF r \in Refused THEN call
             ELSE [call EXCEPT ![c] = [NoCall EXCEPT !.pc = "begin", !.kind = "reserve",
                                                     !.id = IdentityOf[r], !.req = r]]
  /\ answers' = IF r \in Refused THEN answers \cup {<<r, "refused">>} ELSE answers
  /\ UNCHANGED <<ledger, attempts, lock, started>>

TransitionTo(c, id, to) ==
  /\ call[c].pc = "idle" /\ left[c] > 0
  /\ left' = [left EXCEPT ![c] = @ - 1]
  /\ call' = [call EXCEPT ![c] = [NoCall EXCEPT !.pc = "begin", !.kind = "transition",
                                                !.id = id, !.to = to]]
  /\ UNCHANGED <<ledger, attempts, lock, started, answers>>

(* Mutant: BEGIN DEFERRED, the status is read without the lock. *)
BeginDeferred(c) ==
  /\ call[c].pc = "begin"
  /\ call' = [call EXCEPT ![c].pc = "read"]
  /\ UNCHANGED <<ledger, attempts, lock, left, started, answers>>

(* BEGIN IMMEDIATE *)
BeginImmediate(c) ==
  /\ call[c].pc = "begin" /\ lock = "none"
  /\ lock' = c
  /\ call' = [call EXCEPT ![c].pc = "read"]
  /\ UNCHANGED <<ledger, attempts, left, started, answers>>

(* "database is locked" after timeout=5.0. *)
Busy(c) ==
  /\ call[c].pc = "begin" /\ lock # "none"
  /\ call' = [call EXCEPT ![c] = NoCall]
  /\ UNCHANGED <<ledger, attempts, lock, left, started, answers>>

(* SELECT replay_status *)
ReadStatus(c) ==
  /\ call[c].pc = "read"
  /\ call' = [call EXCEPT ![c].pc = "write", ![c].read = Status(call[c].id)]
  /\ UNCHANGED <<ledger, attempts, lock, left, started, answers>>

Release(c) ==
  /\ lock' = IF lock = c THEN "none" ELSE lock
  /\ call' = [call EXCEPT ![c] = NoCall]

(* The ledger with the row of the request of c. *)
WithRow(c) ==
  [i \in DOMAIN ledger \cup {call[c].id} |->
     IF i = call[c].id THEN [status |-> "REQUESTED", request |-> call[c].req] ELSE ledger[i]]

Attempt(c, status) == [id |-> call[c].id, req |-> call[c].req, status |-> status]

(* An identity that is in the ledger: the attempt is recorded and refused. *)
Suppress(c) ==
  /\ call[c].pc = "write" /\ call[c].kind = "reserve" /\ call[c].read # "absent"
  /\ attempts' = Append(attempts, Attempt(c, "SUPPRESSED_DUPLICATE"))
  /\ answers' = answers \cup {<<call[c].req, "suppressed">>}
  /\ Release(c)
  /\ UNCHANGED <<ledger, left, started>>

(* A new identity: row and attempt in one commit.  replay_identity and       *)
(* replay_request_id are unique, or everything is rolled back.               *)
Insert(c) ==
  /\ call[c].pc = "write" /\ call[c].kind = "reserve" /\ call[c].read = "absent"
  /\ \/ /\ call[c].id \notin DOMAIN ledger
        /\ \A i \in DOMAIN ledger : IdOf[ledger[i].request] # IdOf[call[c].req]
        /\ ledger' = WithRow(c)
        /\ attempts' = Append(attempts, Attempt(c, "REQUESTED"))
        /\ answers' = answers \cup {<<call[c].req, "reserved">>}
     \/ /\ \/ call[c].id \in DOMAIN ledger
           \/ \E i \in DOMAIN ledger : IdOf[ledger[i].request] = IdOf[call[c].req]
        /\ answers' = answers \cup {<<call[c].req, "suppressed">>}
        /\ UNCHANGED <<ledger, attempts>>
  /\ Release(c)
  /\ UNCHANGED <<left, started>>

(* transition: KeyError, ValueError, or the new status is committed. *)
Update(c) ==
  /\ call[c].pc = "write" /\ call[c].kind = "transition"
  /\ \/ /\ call[c].read # "absent" /\ call[c].to \in Allowed(call[c].read)
        /\ ledger' = [ledger EXCEPT ![call[c].id].status = call[c].to]
        /\ started' = [started EXCEPT ![call[c].id] = IF call[c].to = "IN_PROGRESS" THEN @ + 1 ELSE @]
     \/ /\ call[c].read = "absent" \/ call[c].to \notin Allowed(call[c].read)
        /\ UNCHANGED <<ledger, started>>
  /\ Release(c)
  /\ UNCHANGED <<attempts, left, answers>>

(* The process dies: SQLite rolls the open transaction back. *)
Crash(c) ==
  /\ call[c].pc # "idle"
  /\ Release(c)
  /\ UNCHANGED <<ledger, attempts, left, started, answers>>

LedgerStep(c) == BeginImmediate(c) \/ Busy(c) \/ ReadStatus(c) \/ Suppress(c) \/ Insert(c) \/ Update(c)

LedgerNext ==
  \E c \in Clients :
    \/ \E r \in Requests : Reserve(c, r)
    \/ \E id \in Identities, to \in Targets : TransitionTo(c, id, to)
    \/ LedgerStep(c) \/ Crash(c)

LedgerSpec == LedgerInit /\ [][LedgerNext]_lvars

LedgerFairness == \A c \in Clients : WF_lvars(LedgerStep(c))

-----------------------------------------------------------------------------
(* Types; the lock is held by exactly the client between BEGIN and COMMIT. *)
LedgerTypeOK ==
  /\ DOMAIN ledger \subseteq Identities
  /\ \A i \in DOMAIN ledger : ledger[i].status \in Statuses /\ ledger[i].request \in Requests
  /\ \A c \in Clients : call[c].pc \in {"read", "write"} <=> lock = c

RecordedAs(id, status) == {k \in DOMAIN attempts : attempts[k].id = id /\ attempts[k].status = status}

(* reserve: every identity in the ledger has exactly one attempt RESERVED,   *)
(* which is the first of its attempts and names the request in the ledger;   *)
(* only requests of the same identity were suppressed after it.              *)
ReservedOnce ==
  \A i \in Identities :
    /\ Cardinality(RecordedAs(i, "REQUESTED")) = IF i \in DOMAIN ledger THEN 1 ELSE 0
    /\ \A k \in RecordedAs(i, "REQUESTED") :
         /\ attempts[k].req = ledger[i].request
         /\ \A j \in RecordedAs(i, "SUPPRESSED_DUPLICATE") : j > k

(* Of the processes that try to start a replay one at most succeeds, for     *)
(* ever: transition has no way back from what follows IN_PROGRESS.           *)
StartedOnce == \A i \in Identities : started[i] <= 1

(* A request that was answered with an identity is the one in the ledger;    *)
(* nothing unapproved ever gets in.                                          *)
AnswersTrue ==
  /\ \A r \in Requests : <<r, "reserved">> \in answers =>
       IdentityOf[r] \in DOMAIN ledger /\ ledger[IdentityOf[r]].request = r
  /\ \A i \in DOMAIN ledger : ledger[i].request \notin Refused

(* replay_ledger: whatever processes race or die, an identity is reserved    *)
(* once and started once, and the answers agree with the rows.               *)
LedgerOnce == LedgerTypeOK /\ ReservedOnce /\ StartedOnce /\ AnswersTrue
=============================================================================
