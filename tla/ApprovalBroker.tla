--------------------------- MODULE ApprovalBroker ---------------------------
(* The approval broker: internal/approval over the tables of                 *)
(* approval_store.go. Tools and runners call evaluate concurrently, each     *)
(* call being several statements on the database; operators approve, deny,   *)
(* cancel and expire requests and edit the allowlist meanwhile.              *)
(*                                                                           *)
(* A subject is a canonical subject hash. The subjects here differ only in   *)
(* what an allowlist matcher leaves out (session, sandbox, environment), so  *)
(* one fingerprint, and at most one enabled allowlist row, covers them all.  *)
(* A transaction of the store is one step; failures of the database are left *)
(* out.                                                                      *)
EXTENDS Naturals

CONSTANTS
  Callers,      \* calls of evaluate
  Operators,    \* calls of DenyRequest or CancelRequest
  Subjects,
  LowRisk,      \* the subjects that autopilot approves by itself
  MaxRequests,  \* bound on rows of approval_requests
  MaxNow,       \* bound on the clock
  PendingTTL, TokenTTL

ASSUME BrokerAssumption ==
  /\ LowRisk \subseteq Subjects
  /\ MaxRequests \in Nat /\ MaxNow \in Nat
  /\ PendingTTL \in Nat /\ TokenTTL \in Nat

VARIABLES
  now,    \* the broker's clock
  mode,   \* Config.Exec.Mode
  req,    \* approval_requests
  tok,    \* approval_tokens; an approval issues one, with the request's id
  allow,  \* the enabled allowlist row, if any; expires_at is 0 for never
  call,   \* the calls of evaluate
  oper    \* the calls of DenyRequest and CancelRequest

vars == <<now, mode, req, tok, allow, call, oper>>

Requests == 1..MaxRequests
Modes == {"ask", "allowlist", "trusted", "deny"}
Resolved == {"approved", "denied", "canceled", "expired"}
NoRow == "no row"
None == 0

Init ==
  /\ now = 0
  /\ mode \in Modes
  /\ req = [r \in Requests |-> [st |-> "none", subject |-> NoRow, expires |-> 0]]
  /\ tok = [r \in Requests |-> [st |-> "none", expires |-> 0]]
  /\ allow = [on |-> FALSE, expires |-> 0]
  /\ call \in [Callers -> {[pc |-> "idle", subject |-> s, id |-> None,
                            result |-> "none"] : s \in Subjects}]
  /\ oper = [o \in Operators |-> [pc |-> "idle", id |-> None]]

-----------------------------------------------------------------------------
(* evaluateWithMode.                                                         *)

\* The decision of a call, with the request or token it is about.
Decide(c, result, id) ==
  call' = [call EXCEPT ![c].pc = "done", ![c].result = result, ![c].id = id]

\* A call starts, with one of the tokens issued so far or with none. A call
\* that was told to wait for approval is made again.
Evaluate(c) ==
  /\ call[c].pc = "idle" \/ call[c].result = "required"
  /\ \/ \E r \in Requests :
          /\ tok[r].st # "none"
          /\ call' = [call EXCEPT ![c].pc = "verify", ![c].id = r,
                                  ![c].result = "none"]
     \/ call' = [call EXCEPT ![c].pc = "policy", ![c].result = "none"]
  /\ UNCHANGED <<now, mode, req, tok, allow, oper>>

\* (Mutant: the subject of the request is not compared.)
MutVerifyApprovalToken(c) ==
  LET r == call[c].id IN
  /\ call[c].pc = "verify"
  /\ call' = [call EXCEPT ![c].pc =
       IF tok[r].st = "live" /\ tok[r].expires >= now THEN "consume" ELSE "policy"]
  /\ UNCHANGED <<now, mode, req, tok, allow, oper>>

\* VerifyApprovalTokenClaims up to the write. A token that is refused is as
\* good as none.
VerifyApprovalToken(c) ==
  LET r == call[c].id IN
  /\ call[c].pc = "verify"
  /\ call' = [call EXCEPT ![c].pc =
       IF /\ tok[r].st = "live" /\ tok[r].expires >= now
          /\ req[r].subject = call[c].subject
       THEN "consume" ELSE "policy"]
  /\ UNCHANGED <<now, mode, req, tok, allow, oper>>

\* (Mutant: the token is revoked whatever its state by now.)
MutConsumeApprovalToken(c) ==
  /\ call[c].pc = "consume"
  /\ tok' = [tok EXCEPT ![call[c].id].st = "used"]
  /\ Decide(c, "token", call[c].id)
  /\ UNCHANGED <<now, mode, req, allow, oper>>

\* The write is conditional on revoked_at=0.
ConsumeApprovalToken(c) ==
  LET r == call[c].id IN
  /\ call[c].pc = "consume"
  /\ IF tok[r].st = "live"
     THEN tok' = [tok EXCEPT ![r].st = "used"] /\ Decide(c, "token", r)
     ELSE call' = [call EXCEPT ![c].pc = "policy"] /\ UNCHANGED tok
  /\ UNCHANGED <<now, mode, req, allow, oper>>

AllowlistMatches == allow.on /\ (allow.expires = 0 \/ allow.expires > now)

\* checkPolicyMode, checkAllowlist and the moderator of runner permissions.
CheckPolicy(c) ==
  /\ call[c].pc = "policy"
  /\ CASE mode \in {"trusted", "deny"} -> Decide(c, mode, None)
       [] mode = "allowlist" /\ AllowlistMatches -> Decide(c, "allowlist", None)
       [] OTHER -> \/ /\ call[c].subject \in LowRisk
                      /\ Decide(c, "moderator", None)
                   \/ call' = [call EXCEPT ![c].pc = "require"]
  /\ UNCHANGED <<now, mode, req, tok, allow, oper>>

Pending(s) == {r \in Requests : req[r].st = "pending" /\ req[r].subject = s}

\* The next free row.
IsNext(r) ==
  req[r].st = "none" /\ \A q \in Requests : req[q].st = "none" => r <= q

\* (Mutant: every call inserts a request of its own.)
MutRequireApproval(c) ==
  LET s == call[c].subject IN
  /\ call[c].pc = "require"
  /\ \E r \in Requests :
       /\ IsNext(r)
       /\ req' = [req EXCEPT ![r] = [st |-> "pending", subject |-> s,
                                     expires |-> now + PendingTTL]]
       /\ Decide(c, "required", r)
  /\ UNCHANGED <<now, mode, tok, allow, oper>>

\* CreateOrGetPendingApprovalRequest: reuses a pending request that has not
\* expired, else inserts one. The unique index on pending subjects refuses
\* the insert while an expired request is still marked pending: nothing is
\* found to reuse then either, and the call ends with the constraint error.
RequireApproval(c) ==
  LET s == call[c].subject IN
  /\ call[c].pc = "require"
  /\ \/ \E r \in Pending(s) :
          /\ req[r].expires > now
          /\ Decide(c, "required", r)
          /\ UNCHANGED req
     \/ \E r \in Pending(s) :
          /\ req[r].expires <= now
          /\ Decide(c, "error", None)
          /\ UNCHANGED req
     \/ \E r \in Requests :
          /\ Pending(s) = {} /\ IsNext(r)
          /\ req' = [req EXCEPT ![r] = [st |-> "pending", subject |-> s,
                                        expires |-> now + PendingTTL]]
          /\ Decide(c, "required", r)
  /\ UNCHANGED <<now, mode, tok, allow, oper>>

-----------------------------------------------------------------------------
(* The operators.                                                            *)

\* Create-or-get: an enabled row is kept, expired or not.
AllowWith(expires) ==
  allow' = IF allow.on THEN allow ELSE [on |-> TRUE, expires |-> expires]

\* One transaction: the request, its token and, on "always", the allowlist.
ApproveRequest(r) ==
  /\ req[r].st = "pending" /\ req[r].expires >= now
  /\ req' = [req EXCEPT ![r].st = "approved"]
  /\ tok' = [tok EXCEPT ![r] = [st |-> "live", expires |-> now + TokenTTL]]
  /\ AllowWith(0) \/ UNCHANGED allow
  /\ UNCHANGED <<now, mode, call, oper>>

\* resolveRequest reads the row, then writes; expiry is not looked at.
ResolveRead(o) ==
  /\ oper[o].pc = "idle"
  /\ \E r \in Requests :
       /\ req[r].st = "pending"
       /\ oper' = [oper EXCEPT ![o] = [pc |-> "write", id |-> r]]
  /\ UNCHANGED <<now, mode, req, tok, allow, call>>

\* (Mutant: the write is not conditional.)
MutResolveApprovalRequest(o) ==
  /\ oper[o].pc = "write"
  /\ \E st \in {"denied", "canceled"} :
       req' = [req EXCEPT ![oper[o].id].st = st]
  /\ oper' = [oper EXCEPT ![o].pc = "done"]
  /\ UNCHANGED <<now, mode, tok, allow, call>>

\* The write is conditional on the status that was read.
ResolveApprovalRequest(o) ==
  /\ oper[o].pc = "write"
  /\ \E st \in {"denied", "canceled"} :
       req' = [req EXCEPT ![oper[o].id].st = IF @ = "pending" THEN st ELSE @]
  /\ oper' = [oper EXCEPT ![o].pc = "done"]
  /\ UNCHANGED <<now, mode, tok, allow, call>>

\* (Mutant: the sweep writes a status of its own.)
MutExpirePendingRequests ==
  /\ \E r \in Requests : req[r].st = "pending" /\ req[r].expires <= now
  /\ req' = [r \in Requests |->
       IF req[r].st = "pending" /\ req[r].expires <= now
       THEN [req[r] EXCEPT !.st = "timed_out"] ELSE req[r]]
  /\ UNCHANGED <<now, mode, tok, allow, call, oper>>

\* Only an operator's command runs this sweep.
ExpirePendingRequests ==
  /\ \E r \in Requests : req[r].st = "pending" /\ req[r].expires <= now
  /\ req' = [r \in Requests |->
       IF req[r].st = "pending" /\ req[r].expires <= now
       THEN [req[r] EXCEPT !.st = "expired"] ELSE req[r]]
  /\ UNCHANGED <<now, mode, tok, allow, call, oper>>

AddAllowlist ==
  /\ ~allow.on
  /\ \E expires \in {0, now + 1} : AllowWith(expires)
  /\ UNCHANGED <<now, mode, req, tok, call, oper>>

RemoveAllowlist ==
  /\ allow.on
  /\ allow' = [on |-> FALSE, expires |-> 0]
  /\ UNCHANGED <<now, mode, req, tok, call, oper>>

Tick ==
  /\ now < MaxNow
  /\ now' = now + 1
  /\ UNCHANGED <<mode, req, tok, allow, call, oper>>

Next ==
  \/ \E c \in Callers :
       \/ Evaluate(c) \/ VerifyApprovalToken(c) \/ ConsumeApprovalToken(c)
       \/ CheckPolicy(c) \/ RequireApproval(c)
  \/ \E r \in Requests : ApproveRequest(r)
  \/ \E o \in Operators : ResolveRead(o) \/ ResolveApprovalRequest(o)
  \/ ExpirePendingRequests \/ AddAllowlist \/ RemoveAllowlist \/ Tick

Spec == Init /\ [][Next]_vars

-----------------------------------------------------------------------------
(* Properties.                                                               *)

Results == {"none", "token", "trusted", "deny", "allowlist", "moderator",
            "required", "error"}

\* The types of rows and calls.
TypeOK ==
  /\ now \in 0..MaxNow
  /\ mode \in Modes
  /\ req \in [Requests -> [st : {"none", "pending"} \cup Resolved,
                           subject : Subjects \cup {NoRow}, expires : Nat]]
  /\ tok \in [Requests -> [st : {"none", "live", "used"}, expires : Nat]]
  /\ allow \in [on : BOOLEAN, expires : Nat]
  /\ call \in [Callers -> [pc : {"idle", "verify", "consume", "policy",
                                 "require", "done"},
                           subject : Subjects, id : {None} \cup Requests,
                           result : Results]]
  /\ oper \in [Operators -> [pc : {"idle", "write", "done"},
                             id : {None} \cup Requests]]

\* One approval admits one execution: two calls that verified the same token
\* at the same time are never both allowed by it.
TokenOnce ==
  \A c, d \in Callers :
    c # d /\ call[c].result = "token" /\ call[d].result = "token"
      => call[c].id # call[d].id

\* An execution that a token allowed was approved, for this very subject, and
\* no denial, cancellation or sweep that raced the approval replaces it.
TokenBacked ==
  \A c \in Callers :
    call[c].result = "token" =>
      /\ req[call[c].id].st = "approved"
      /\ req[call[c].id].subject = call[c].subject

\* A request that a further call of its subject is given.
Live(r) == req[r].st = "pending" /\ req[r].expires > now

\* Calls that wait for approval of one subject wait for one live request, so
\* that one decision answers them all, whichever call came first and whatever
\* was decided, swept or allowed in between.
SharedRequest ==
  \A c, d \in Callers :
    /\ call[c].result = "required" /\ call[d].result = "required"
    /\ call[c].subject = call[d].subject
    /\ Live(call[c].id) /\ Live(call[d].id)
    => call[c].id = call[d].id

\* "After expiry, the next execution attempt creates a fresh request": no
\* attempt that needs approval ends in an error instead. The code does not keep
\* this promise.
ExpiredIsReplaced ==
  \A c \in Callers : call[c].pc = "done" => call[c].result # "error"

\* A request is resolved once: of a denial, a cancellation, an approval and a
\* sweep under way together, the first one stands.
ResolvedOnce ==
  [][\A r \in Requests : req[r].st \in Resolved => req'[r] = req[r]]_vars
=============================================================================
