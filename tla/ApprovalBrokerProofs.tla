------------------------ MODULE ApprovalBrokerProofs ------------------------
(***************************************************************************)
(* Proofs about ApprovalBroker, for every set of callers, operators and    *)
(* subjects, every bound and every lifetime of requests and tokens.        *)
(***************************************************************************)
EXTENDS ApprovalBroker, TLAPS

-----------------------------------------------------------------------------
(* The inductive invariant. What a conditional write finds depends on what   *)
(* the other calls and operators wrote since the row was read.               *)

\* A token exists for approved requests only, and an approval is for good.
TokenInv == \A r \in Requests : tok[r].st # "none" => req[r].st = "approved"

\* The unique index: one pending request for a subject, expired or not.
PendingInv ==
  \A q, r \in Requests :
    /\ req[q].st = "pending" /\ req[r].st = "pending"
    /\ req[q].subject = req[r].subject
    => q = r

\* A call that presents a token was handed one, and has compared its subject
\* before it consumes it; the token that a call was let through by is used up,
\* and by no other call.
CallInv ==
  \A c \in Callers :
    LET k == call[c] IN
    /\ k.pc \in {"verify", "consume"} => k.id \in Requests /\ tok[k.id].st # "none"
    /\ k.pc = "consume" => req[k.id].subject = k.subject
    /\ k.result = "token" => /\ k.id \in Requests /\ tok[k.id].st = "used"
                             /\ req[k.id].subject = k.subject
                             /\ k.pc = "done"
    /\ k.result = "required" => /\ k.id \in Requests /\ req[k.id].st # "none"
                                /\ req[k.id].subject = k.subject
                                /\ k.pc = "done"

IInv == TypeOK /\ TokenInv /\ PendingInv /\ CallInv /\ TokenOnce

-----------------------------------------------------------------------------
(* Type correctness.                                                         *)

ReqRecs == [st : {"none", "pending"} \cup Resolved,
            subject : Subjects \cup {NoRow}, expires : Nat]
TokRecs == [st : {"none", "live", "used"}, expires : Nat]
CallRecs == [pc : {"idle", "verify", "consume", "policy", "require", "done"},
             subject : Subjects, id : {None} \cup Requests, result : Results]
OperRecs == [pc : {"idle", "write", "done"}, id : {None} \cup Requests]

\* The clock stays a natural number.
LEMMA ClockType == TypeOK => now \in Nat
  BY BrokerAssumption DEF TypeOK

\* The empty database and fresh calls are well typed.
LEMMA TypeInit == Init => TypeOK
<1> SUFFICES ASSUME Init PROVE TypeOK
  OBVIOUS
<1>1. now \in 0..MaxNow
  BY BrokerAssumption DEF Init
<1>2. req \in [Requests -> ReqRecs]
  BY DEF Init, ReqRecs
<1>3. tok \in [Requests -> TokRecs]
  BY DEF Init, TokRecs
<1>4. allow \in [on : BOOLEAN, expires : Nat]
  BY DEF Init
<1>5. call \in [Callers -> CallRecs]
  <2>1. \A s \in Subjects :
          [pc |-> "idle", subject |-> s, id |-> None, result |-> "none"] \in CallRecs
    BY DEF CallRecs, Results
  <2>2. {[pc |-> "idle", subject |-> s, id |-> None, result |-> "none"] :
           s \in Subjects} \subseteq CallRecs
    BY <2>1
  <2>3. call \in [Callers -> {[pc |-> "idle", subject |-> s, id |-> None,
                               result |-> "none"] : s \in Subjects}]
    BY DEF Init
  <2> QED
    BY <2>2, <2>3
<1>6. oper \in [Operators -> OperRecs]
  BY DEF Init, OperRecs
<1> QED
  BY <1>1, <1>2, <1>3, <1>4, <1>5, <1>6
  DEF Init, TypeOK, ReqRecs, TokRecs, CallRecs, OperRecs

\* A decision changes one call, and leaves its subject alone.
LEMMA DecideEffect ==
  ASSUME TypeOK, NEW c \in Callers, NEW res \in Results,
         NEW r \in {None} \cup Requests, Decide(c, res, r)
  PROVE  /\ call' \in [Callers -> CallRecs]
         /\ call'[c].pc = "done" /\ call'[c].result = res /\ call'[c].id = r
         /\ call'[c].subject = call[c].subject
         /\ \A d \in Callers \ {c} : call'[d] = call[d]
<1> DEFINE k == [call[c] EXCEPT !.pc = "done", !.result = res, !.id = r]
<1>1. call \in [Callers -> CallRecs] /\ call' = [call EXCEPT ![c] = k]
  BY DEF TypeOK, Decide, CallRecs
<1>2. /\ k \in CallRecs /\ k.pc = "done" /\ k.result = res /\ k.id = r
      /\ k.subject = call[c].subject
  BY <1>1 DEF CallRecs
<1> HIDE DEF k
<1> QED
  BY <1>1, <1>2

\* So does a move to another pc.
LEMMA MoveEffect ==
  ASSUME TypeOK, NEW c \in Callers, NEW pc \in {"consume", "policy", "require"},
         call' = [call EXCEPT ![c].pc = pc]
  PROVE  /\ call' \in [Callers -> CallRecs]
         /\ call'[c].pc = pc /\ call'[c].result = call[c].result
         /\ call'[c].id = call[c].id /\ call'[c].subject = call[c].subject
         /\ \A d \in Callers \ {c} : call'[d] = call[d]
  BY DEF TypeOK, CallRecs

\* Evaluate starts a call with a token that exists, or with none.
LEMMA EvaluateEffect ==
  ASSUME TypeOK, NEW c \in Callers, Evaluate(c)
  PROVE  /\ call' \in [Callers -> CallRecs]
         /\ call'[c].result = "none"
         /\ call'[c].subject = call[c].subject
         /\ \/ call'[c].pc = "policy"
            \/ /\ call'[c].pc = "verify" /\ call'[c].id \in Requests
               /\ tok[call'[c].id].st # "none"
         /\ \A d \in Callers \ {c} : call'[d] = call[d]
         /\ UNCHANGED <<now, mode, req, tok, allow, oper>>
<1>1. call \in [Callers -> CallRecs]
  BY DEF TypeOK, CallRecs
<1>2. UNCHANGED <<now, mode, req, tok, allow, oper>>
  BY DEF Evaluate
<1>3. CASE call' = [call EXCEPT ![c].pc = "policy", ![c].result = "none"]
  BY <1>1, <1>2, <1>3 DEF CallRecs, Results
<1>4. ASSUME NEW r \in Requests, tok[r].st # "none",
             call' = [call EXCEPT ![c].pc = "verify", ![c].id = r,
                                  ![c].result = "none"]
      PROVE  /\ call' \in [Callers -> CallRecs]
             /\ call'[c].result = "none"
             /\ call'[c].subject = call[c].subject
             /\ call'[c].pc = "verify" /\ call'[c].id = r
             /\ \A d \in Callers \ {c} : call'[d] = call[d]
  BY <1>1, <1>4 DEF CallRecs, Results
<1> QED
  BY <1>2, <1>3, <1>4 DEF Evaluate

\* The row that RequireApproval inserts.
LEMMA InsertEffect ==
  ASSUME TypeOK, NEW r \in Requests, NEW s \in Subjects,
         req' = [req EXCEPT ![r] = [st |-> "pending", subject |-> s,
                                    expires |-> now + PendingTTL]]
  PROVE  /\ req' \in [Requests -> ReqRecs]
         /\ req'[r].st = "pending" /\ req'[r].subject = s
         /\ \A q \in Requests \ {r} : req'[q] = req[q]
  BY ClockType, BrokerAssumption DEF TypeOK, ReqRecs

\* A row whose status changes keeps its subject.
LEMMA StatusEffect ==
  ASSUME TypeOK, NEW r \in Requests, NEW st \in {"none", "pending"} \cup Resolved,
         req' = [req EXCEPT ![r].st = st]
  PROVE  /\ req' \in [Requests -> ReqRecs]
         /\ req'[r].st = st /\ req'[r].subject = req[r].subject
         /\ \A q \in Requests \ {r} : req'[q] = req[q]
<1> DEFINE k == [req[r] EXCEPT !.st = st]
<1>1. req \in [Requests -> ReqRecs] /\ req' = [req EXCEPT ![r] = k]
  BY DEF TypeOK, ReqRecs
<1>2. k \in ReqRecs /\ k.st = st /\ k.subject = req[r].subject
  BY <1>1 DEF ReqRecs
<1> HIDE DEF k
<1> QED
  BY <1>1, <1>2

\* Always-allow and AddAllowlist write a well-typed row.
LEMMA AllowEffect ==
  ASSUME TypeOK, NEW e \in Nat, AllowWith(e)
  PROVE  allow' \in [on : BOOLEAN, expires : Nat]
<1>1. allow \in [on : BOOLEAN, expires : Nat]
  BY DEF TypeOK
<1>2. [on |-> TRUE, expires |-> e] \in [on : BOOLEAN, expires : Nat]
  OBVIOUS
<1>3. allow' = allow \/ allow' = [on |-> TRUE, expires |-> e]
  BY Zenon DEF AllowWith
<1> QED
  BY <1>1, <1>2, <1>3, Zenon

\* TypeOK of the next state, from the types of the variables.
LEMMA TypeNext ==
  ASSUME TypeOK,
         now' = now \/ now' \in 0..MaxNow, mode' = mode,
         req' = req \/ req' \in [Requests -> ReqRecs],
         tok' = tok \/ tok' \in [Requests -> TokRecs],
         allow' = allow \/ allow' \in [on : BOOLEAN, expires : Nat],
         call' = call \/ call' \in [Callers -> CallRecs],
         oper' = oper \/ oper' \in [Operators -> OperRecs]
  PROVE  TypeOK'
  BY DEF TypeOK, ReqRecs, TokRecs, CallRecs, OperRecs

-----------------------------------------------------------------------------
(* The steps of evaluate.                                                    *)

\* The parts of IInv that speak of the database alone survive a step of a
\* call that writes only the call, when CallInv holds of the new call.
LEMMA CallStep ==
  ASSUME IInv, NEW c \in Callers,
         UNCHANGED <<now, mode, req, tok, allow, oper>>,
         call' \in [Callers -> CallRecs],
         \A d \in Callers \ {c} : call'[d] = call[d],
         call'[c].subject = call[c].subject,
         call'[c].result # "token",
         call'[c].pc \in {"verify", "consume"} =>
           call'[c].id \in Requests /\ tok[call'[c].id].st # "none",
         call'[c].pc = "consume" => req[call'[c].id].subject = call[c].subject,
         call'[c].result = "required" =>
           /\ call'[c].id \in Requests /\ req[call'[c].id].st # "none"
           /\ req[call'[c].id].subject = call[c].subject
           /\ call'[c].pc = "done"
  PROVE  IInv'
<1>1. TypeOK'
  BY TypeNext DEF IInv
<1>2. TokenInv' /\ PendingInv'
  BY DEF IInv, TokenInv, PendingInv
<1>3. CallInv'
  <2> SUFFICES ASSUME NEW d \in Callers
               PROVE  LET k == call'[d] IN
                 /\ k.pc \in {"verify", "consume"} =>
                      k.id \in Requests /\ tok[k.id].st # "none"
                 /\ k.pc = "consume" => req[k.id].subject = k.subject
                 /\ k.result = "token" => /\ k.id \in Requests /\ tok[k.id].st = "used"
                                          /\ req[k.id].subject = k.subject
                                          /\ k.pc = "done"
                 /\ k.result = "required" =>
                      /\ k.id \in Requests /\ req[k.id].st # "none"
                      /\ req[k.id].subject = k.subject
                      /\ k.pc = "done"
    BY DEF CallInv
  <2>1. CASE d = c
    BY <2>1
  <2>2. CASE d # c
    BY <2>2 DEF IInv, CallInv
  <2> QED
    BY <2>1, <2>2
<1>4. TokenOnce'
  BY DEF IInv, TokenOnce
<1> QED
  BY <1>1, <1>2, <1>3, <1>4 DEF IInv

\* A call starts.
LEMMA EvaluateStep == ASSUME IInv, NEW c \in Callers, Evaluate(c) PROVE IInv'
<1>1. TypeOK
  BY DEF IInv
<1> QED
  BY <1>1, EvaluateEffect, CallStep

\* A call verifies its token.
LEMMA VerifyStep ==
  ASSUME IInv, NEW c \in Callers, VerifyApprovalToken(c) PROVE IInv'
<1>1. TypeOK
  BY DEF IInv
<1>2. PICK pc \in {"consume", "policy"} :
        /\ call' = [call EXCEPT ![c].pc = pc]
        /\ pc = "consume" => req[call[c].id].subject = call[c].subject
  BY DEF VerifyApprovalToken
<1>3. /\ call' \in [Callers -> CallRecs]
      /\ call'[c].pc = pc /\ call'[c].result = call[c].result
      /\ call'[c].id = call[c].id /\ call'[c].subject = call[c].subject
      /\ \A d \in Callers \ {c} : call'[d] = call[d]
  BY <1>1, <1>2, MoveEffect
<1>4. /\ call[c].id \in Requests /\ tok[call[c].id].st # "none"
      /\ call[c].result # "token" /\ call[c].result # "required"
  BY DEF VerifyApprovalToken, IInv, CallInv
<1> QED
  BY <1>2, <1>3, <1>4, CallStep DEF VerifyApprovalToken

\* A call goes on from the policy without a token.
LEMMA PolicyStep == ASSUME IInv, NEW c \in Callers, CheckPolicy(c) PROVE IInv'
<1>1. TypeOK
  BY DEF IInv
<1>2. call[c].result # "token" /\ call[c].result # "required"
  BY DEF CheckPolicy, IInv, CallInv
<1>3. UNCHANGED <<now, mode, req, tok, allow, oper>>
  BY DEF CheckPolicy
<1>4. CASE \E res \in Results \ {"token", "required"} : Decide(c, res, None)
  <2> PICK res \in Results \ {"token", "required"} : Decide(c, res, None)
    BY <1>4
  <2>1. /\ call' \in [Callers -> CallRecs]
        /\ call'[c].pc = "done" /\ call'[c].result = res
        /\ call'[c].subject = call[c].subject
        /\ \A d \in Callers \ {c} : call'[d] = call[d]
    BY <1>1, DecideEffect
  <2> QED
    BY <1>3, <2>1, CallStep
<1>5. CASE call' = [call EXCEPT ![c].pc = "require"]
  <2>1. /\ call' \in [Callers -> CallRecs]
        /\ call'[c].pc = "require" /\ call'[c].result = call[c].result
        /\ call'[c].subject = call[c].subject
        /\ \A d \in Callers \ {c} : call'[d] = call[d]
    BY <1>1, <1>5, MoveEffect
  <2> QED
    BY <1>2, <1>3, <2>1, CallStep
<1> QED
  <2>1. CASE mode \in {"trusted", "deny"}
    BY <1>4, <2>1 DEF CheckPolicy, Results
  <2>2. CASE mode = "allowlist" /\ AllowlistMatches
    BY <1>4, <2>2 DEF CheckPolicy, Results
  <2>3. CASE mode \notin {"trusted", "deny"} /\ ~(mode = "allowlist" /\ AllowlistMatches)
    BY <1>4, <1>5, <2>3 DEF CheckPolicy, Results
  <2> QED
    BY <2>1, <2>2, <2>3

\* The conditional write: the token was live until this call consumed it, so
\* that no other call was let through by it.
LEMMA ConsumeStep ==
  ASSUME IInv, NEW c \in Callers, ConsumeApprovalToken(c) PROVE IInv'
<1> DEFINE r == call[c].id
<1>1. TypeOK
  BY DEF IInv
<1>2. /\ r \in Requests /\ tok[r].st # "none"
      /\ req[r].subject = call[c].subject
      /\ call[c].result # "token" /\ call[c].result # "required"
  BY DEF ConsumeApprovalToken, IInv, CallInv
<1>3. CASE tok[r].st # "live"
  <2>1. call' = [call EXCEPT ![c].pc = "policy"]
    BY <1>3 DEF ConsumeApprovalToken
  <2>2. UNCHANGED <<now, mode, req, tok, allow, oper>>
    BY <1>3 DEF ConsumeApprovalToken
  <2>3. /\ call' \in [Callers -> CallRecs]
        /\ call'[c].pc = "policy" /\ call'[c].result = call[c].result
        /\ call'[c].subject = call[c].subject
        /\ \A d \in Callers \ {c} : call'[d] = call[d]
    BY <1>1, <2>1, MoveEffect
  <2> QED
    BY <1>2, <2>2, <2>3, CallStep
<1>4. CASE tok[r].st = "live"
  <2>1. /\ tok' = [tok EXCEPT ![r].st = "used"]
        /\ Decide(c, "token", r)
        /\ UNCHANGED <<now, mode, req, allow, oper>>
    BY <1>4 DEF ConsumeApprovalToken
  <2>2. /\ call' \in [Callers -> CallRecs]
        /\ call'[c].pc = "done" /\ call'[c].result = "token" /\ call'[c].id = r
        /\ call'[c].subject = call[c].subject
        /\ \A d \in Callers \ {c} : call'[d] = call[d]
    BY <1>1, <1>2, <2>1, DecideEffect DEF Results
  <2>3. /\ tok' \in [Requests -> TokRecs]
        /\ tok'[r].st = "used"
        /\ \A q \in Requests \ {r} : tok'[q] = tok[q]
    BY <1>1, <1>2, <2>1 DEF TypeOK, TokRecs
  <2>4. TypeOK'
    BY <1>1, <2>1, <2>2, <2>3, TypeNext
  <2>5. TokenInv' /\ PendingInv'
    BY <1>2, <2>1, <2>3 DEF IInv, TokenInv, PendingInv
  <2>6. \A d \in Callers : call[d].result = "token" => call[d].id # r
    BY <1>4 DEF IInv, CallInv
  <2>7. CallInv'
    <3> SUFFICES ASSUME NEW d \in Callers
                 PROVE  LET k == call'[d] IN
                   /\ k.pc \in {"verify", "consume"} =>
                        k.id \in Requests /\ tok'[k.id].st # "none"
                   /\ k.pc = "consume" => req[k.id].subject = k.subject
                   /\ k.result = "token" => /\ k.id \in Requests /\ tok'[k.id].st = "used"
                                            /\ req[k.id].subject = k.subject
                                            /\ k.pc = "done"
                   /\ k.result = "required" =>
                        /\ k.id \in Requests /\ req[k.id].st # "none"
                        /\ req[k.id].subject = k.subject
                        /\ k.pc = "done"
      BY <2>1 DEF CallInv
    <3>1. CASE d = c
      BY <3>1, <1>2, <2>2, <2>3
    <3>2. CASE d # c
      BY <3>2, <2>2, <2>3, <2>6 DEF IInv, CallInv
    <3> QED
      BY <3>1, <3>2
  <2>8. TokenOnce'
    BY <2>2, <2>6 DEF IInv, TokenOnce
  <2> QED
    BY <2>4, <2>5, <2>7, <2>8 DEF IInv
<1> QED
  BY <1>3, <1>4

\* What a write of the requests must keep for the calls: the rows that exist
\* keep their subject and exist.
RowsKept ==
  \A q \in Requests : req[q].st # "none" =>
    req'[q].st # "none" /\ req'[q].subject = req[q].subject

\* A step that leaves the calls and the used tokens alone keeps CallInv.
LEMMA CallsKept ==
  ASSUME IInv, RowsKept, UNCHANGED call,
         \A q \in Requests : /\ tok[q].st # "none" => tok'[q].st # "none"
                             /\ tok[q].st = "used" => tok'[q].st = "used"
  PROVE  CallInv' /\ TokenOnce'
<1>1. CallInv'
  <2> SUFFICES ASSUME NEW d \in Callers
               PROVE  LET k == call[d] IN
                 /\ k.pc \in {"verify", "consume"} =>
                      k.id \in Requests /\ tok'[k.id].st # "none"
                 /\ k.pc = "consume" => req'[k.id].subject = k.subject
                 /\ k.result = "token" => /\ k.id \in Requests /\ tok'[k.id].st = "used"
                                          /\ req'[k.id].subject = k.subject
                                          /\ k.pc = "done"
                 /\ k.result = "required" =>
                      /\ k.id \in Requests /\ req'[k.id].st # "none"
                      /\ req'[k.id].subject = k.subject
                      /\ k.pc = "done"
    BY DEF CallInv
  <2>1. \A q \in Requests : tok[q].st # "none" => req[q].st # "none"
    BY DEF IInv, TokenInv
  <2> QED
    BY <2>1 DEF IInv, CallInv, RowsKept
<1>2. TokenOnce'
  BY DEF IInv, TokenOnce
<1> QED
  BY <1>1, <1>2

\* A request is inserted only while none is pending for its subject, in a row
\* that no call and no token refers to.
LEMMA RequireStep ==
  ASSUME IInv, NEW c \in Callers, RequireApproval(c) PROVE IInv'
<1> DEFINE s == call[c].subject
<1>1. TypeOK
  BY DEF IInv
<1>2. s \in Subjects
  BY <1>1 DEF TypeOK
<1>3. UNCHANGED <<now, mode, tok, allow, oper>>
  BY DEF RequireApproval
<1>4. ASSUME NEW r \in Pending(s), Decide(c, "required", r), UNCHANGED req
      PROVE  IInv'
  <2>1. r \in Requests /\ req[r].st = "pending" /\ req[r].subject = s
    BY <1>4 DEF Pending
  <2>2. /\ call' \in [Callers -> CallRecs]
        /\ call'[c].pc = "done" /\ call'[c].result = "required" /\ call'[c].id = r
        /\ call'[c].subject = s
        /\ \A d \in Callers \ {c} : call'[d] = call[d]
    BY <1>1, <1>4, <2>1, DecideEffect DEF Results
  <2> QED
    BY <1>3, <1>4, <2>1, <2>2, CallStep
<1>5. ASSUME Decide(c, "error", None), UNCHANGED req
      PROVE  IInv'
  <2>1. /\ call' \in [Callers -> CallRecs]
        /\ call'[c].pc = "done" /\ call'[c].result = "error"
        /\ call'[c].subject = s
        /\ \A d \in Callers \ {c} : call'[d] = call[d]
    BY <1>1, <1>5, DecideEffect DEF Results
  <2> QED
    BY <1>3, <1>5, <2>1, CallStep
<1>6. ASSUME NEW r \in Requests, Pending(s) = {}, IsNext(r),
             req' = [req EXCEPT ![r] = [st |-> "pending", subject |-> s,
                                        expires |-> now + PendingTTL]],
             Decide(c, "required", r)
      PROVE  IInv'
  <2>1. /\ req' \in [Requests -> ReqRecs]
        /\ req'[r].st = "pending" /\ req'[r].subject = s
        /\ \A q \in Requests \ {r} : req'[q] = req[q]
    BY <1>1, <1>2, <1>6, InsertEffect
  <2>2. /\ call' \in [Callers -> CallRecs]
        /\ call'[c].pc = "done" /\ call'[c].result = "required" /\ call'[c].id = r
        /\ call'[c].subject = s
        /\ \A d \in Callers \ {c} : call'[d] = call[d]
    BY <1>1, <1>6, DecideEffect DEF Results
  <2>3. req[r].st = "none" /\ tok[r].st = "none"
    BY <1>6 DEF IsNext, IInv, TokenInv
  <2>4. \A q \in Requests : ~(req[q].st = "pending" /\ req[q].subject = s)
    BY <1>6 DEF Pending
  <2>5. TypeOK'
    BY <1>1, <1>3, <2>1, <2>2, TypeNext
  <2>6. TokenInv'
    BY <1>3, <2>1, <2>3 DEF IInv, TokenInv
  <2>7. PendingInv'
    BY <2>1, <2>4 DEF IInv, PendingInv
  <2>8. CallInv'
    <3> SUFFICES ASSUME NEW d \in Callers
                 PROVE  LET k == call'[d] IN
                   /\ k.pc \in {"verify", "consume"} =>
                        k.id \in Requests /\ tok[k.id].st # "none"
                   /\ k.pc = "consume" => req'[k.id].subject = k.subject
                   /\ k.result = "token" => /\ k.id \in Requests /\ tok[k.id].st = "used"
                                            /\ req'[k.id].subject = k.subject
                                            /\ k.pc = "done"
                   /\ k.result = "required" =>
                        /\ k.id \in Requests /\ req'[k.id].st # "none"
                        /\ req'[k.id].subject = k.subject
                        /\ k.pc = "done"
      BY <1>3 DEF CallInv
    <3>1. CASE d = c
      BY <3>1, <2>1, <2>2
    <3>2. CASE d # c
      BY <3>2, <2>1, <2>2, <2>3 DEF IInv, CallInv
    <3> QED
      BY <3>1, <3>2
  <2>9. TokenOnce'
    BY <2>2 DEF IInv, TokenOnce
  <2> QED
    BY <2>5, <2>6, <2>7, <2>8, <2>9 DEF IInv
<1> QED
  BY <1>4, <1>5, <1>6 DEF RequireApproval

-----------------------------------------------------------------------------
(* The steps of operators.                                                   *)

\* An approval resolves a pending request and issues its token.
LEMMA ApproveStep ==
  ASSUME IInv, NEW r \in Requests, ApproveRequest(r) PROVE IInv'
<1>1. TypeOK
  BY DEF IInv
<1>2. /\ req' \in [Requests -> ReqRecs]
      /\ req'[r].st = "approved" /\ req'[r].subject = req[r].subject
      /\ \A q \in Requests \ {r} : req'[q] = req[q]
  BY <1>1, StatusEffect DEF ApproveRequest, Resolved
<1>3. /\ tok' \in [Requests -> TokRecs]
      /\ tok'[r].st = "live"
      /\ \A q \in Requests \ {r} : tok'[q] = tok[q]
  BY <1>1, ClockType, BrokerAssumption DEF ApproveRequest, TypeOK, TokRecs
<1>4. allow' \in [on : BOOLEAN, expires : Nat]
  <2>1. CASE AllowWith(0)
    BY <1>1, <2>1, AllowEffect
  <2>2. CASE UNCHANGED allow
    BY <1>1, <2>2 DEF TypeOK
  <2> QED
    BY <2>1, <2>2 DEF ApproveRequest
<1>5. req[r].st = "pending" /\ tok[r].st = "none"
  BY DEF ApproveRequest, IInv, TokenInv
<1>6. UNCHANGED <<now, mode, call, oper>>
  BY DEF ApproveRequest
<1>7. TypeOK'
  BY <1>1, <1>2, <1>3, <1>4, <1>6, TypeNext
<1>8. TokenInv' /\ PendingInv'
  BY <1>2, <1>3 DEF IInv, TokenInv, PendingInv
<1>9. CallInv' /\ TokenOnce'
  BY <1>2, <1>3, <1>5, <1>6, CallsKept DEF RowsKept
<1> QED
  BY <1>7, <1>8, <1>9 DEF IInv

\* A write that touches pending requests only, and resolves those it touches.
LEMMA ResolveStep ==
  ASSUME IInv, req' \in [Requests -> ReqRecs],
         UNCHANGED <<now, mode, tok, allow, call>>,
         oper' = oper \/ oper' \in [Operators -> OperRecs],
         \A q \in Requests :
           \/ req'[q] = req[q]
           \/ /\ req[q].st = "pending" /\ req'[q].st \in Resolved
              /\ req'[q].subject = req[q].subject
  PROVE  IInv'
<1>1. TypeOK'
  BY TypeNext DEF IInv
<1>2. TokenInv' /\ PendingInv'
  BY DEF IInv, TokenInv, PendingInv, Resolved
<1>3. CallInv' /\ TokenOnce'
  BY CallsKept DEF RowsKept, Resolved
<1> QED
  BY <1>1, <1>2, <1>3 DEF IInv

\* What the conditional write of a denial or cancellation does to the rows.
LEMMA ResolveEffect ==
  ASSUME TypeOK, NEW o \in Operators, ResolveApprovalRequest(o)
  PROVE  /\ req' \in [Requests -> ReqRecs]
         /\ \A q \in Requests :
              \/ req'[q] = req[q]
              \/ /\ req[q].st = "pending" /\ req'[q].st \in Resolved
                 /\ req'[q].subject = req[q].subject
<1>1. req \in [Requests -> ReqRecs]
  BY DEF TypeOK, ReqRecs
<1>2. PICK st \in {"denied", "canceled"} :
        req' = [req EXCEPT ![oper[o].id].st = IF @ = "pending" THEN st ELSE @]
  BY DEF ResolveApprovalRequest
<1> DEFINE i == oper[o].id
           new == IF req[i].st = "pending" THEN st ELSE req[i].st
<1>3. req' = [req EXCEPT ![i] = [req[i] EXCEPT !.st = new]]
  BY <1>1, <1>2
<1>4. ASSUME i \in Requests
      PROVE  /\ [req[i] EXCEPT !.st = new] \in ReqRecs
             /\ [req[i] EXCEPT !.st = new].subject = req[i].subject
             /\ [req[i] EXCEPT !.st = new].st = new
             /\ new = req[i].st => [req[i] EXCEPT !.st = new] = req[i]
  BY <1>1, <1>4 DEF ReqRecs, Resolved
<1> QED
  BY <1>1, <1>3, <1>4 DEF Resolved

\* What the sweep does to the rows.
LEMMA ExpireEffect ==
  ASSUME TypeOK, ExpirePendingRequests
  PROVE  /\ req' \in [Requests -> ReqRecs]
         /\ \A q \in Requests :
              \/ req'[q] = req[q]
              \/ /\ req[q].st = "pending" /\ req'[q].st \in Resolved
                 /\ req'[q].subject = req[q].subject
<1>1. req \in [Requests -> ReqRecs]
  BY DEF TypeOK, ReqRecs
<1>2. \A q \in Requests :
        /\ [req[q] EXCEPT !.st = "expired"] \in ReqRecs
        /\ [req[q] EXCEPT !.st = "expired"].subject = req[q].subject
        /\ [req[q] EXCEPT !.st = "expired"].st \in Resolved
  BY <1>1 DEF ReqRecs, Resolved
<1> QED
  BY <1>1, <1>2 DEF ExpirePendingRequests

-----------------------------------------------------------------------------
(* The invariant and the theorems.                                           *)

\* The empty database satisfies the invariant.
LEMMA InvInit == Init => IInv
<1> SUFFICES ASSUME Init PROVE IInv
  OBVIOUS
<1>1. TypeOK
  BY TypeInit
<1>2. \A c \in Callers : call[c].pc = "idle" /\ call[c].result = "none"
  BY DEF Init
<1>3. \A r \in Requests : req[r].st = "none" /\ tok[r].st = "none"
  BY DEF Init
<1> QED
  BY <1>1, <1>2, <1>3 DEF IInv, TokenInv, PendingInv, CallInv, TokenOnce

\* Every step keeps the invariant.
LEMMA InvNext == IInv /\ [Next]_vars => IInv'
<1> SUFFICES ASSUME IInv, [Next]_vars PROVE IInv'
  OBVIOUS
<1>0. TypeOK
  BY DEF IInv
<1>1. ASSUME NEW c \in Callers, Evaluate(c) PROVE IInv'
  BY <1>1, EvaluateStep
<1>2. ASSUME NEW c \in Callers, VerifyApprovalToken(c) PROVE IInv'
  BY <1>2, VerifyStep
<1>3. ASSUME NEW c \in Callers, ConsumeApprovalToken(c) PROVE IInv'
  BY <1>3, ConsumeStep
<1>4. ASSUME NEW c \in Callers, CheckPolicy(c) PROVE IInv'
  BY <1>4, PolicyStep
<1>5. ASSUME NEW c \in Callers, RequireApproval(c) PROVE IInv'
  BY <1>5, RequireStep
<1>6. ASSUME NEW r \in Requests, ApproveRequest(r) PROVE IInv'
  BY <1>6, ApproveStep
<1>7. ASSUME NEW o \in Operators, ResolveRead(o) PROVE IInv'
  <2>1. oper' \in [Operators -> OperRecs]
    BY <1>0, <1>7 DEF ResolveRead, TypeOK, OperRecs
  <2>2. req' \in [Requests -> ReqRecs]
    BY <1>0, <1>7 DEF ResolveRead, TypeOK, ReqRecs
  <2> QED
    BY <1>7, <2>1, <2>2, ResolveStep DEF ResolveRead
<1>8. ASSUME NEW o \in Operators, ResolveApprovalRequest(o) PROVE IInv'
  <2>1. oper' \in [Operators -> OperRecs]
    BY <1>0, <1>8 DEF ResolveApprovalRequest, TypeOK, OperRecs
  <2> QED
    BY <1>0, <1>8, <2>1, ResolveEffect, ResolveStep DEF ResolveApprovalRequest
<1>9. CASE ExpirePendingRequests
  BY <1>0, <1>9, ExpireEffect, ResolveStep DEF ExpirePendingRequests
<1>10. CASE AddAllowlist \/ RemoveAllowlist \/ Tick \/ UNCHANGED vars
  <2>1. UNCHANGED <<mode, req, tok, call, oper>>
    BY <1>10 DEF AddAllowlist, RemoveAllowlist, Tick, vars
  <2>2. now' \in 0..MaxNow
    BY <1>0, <1>10, BrokerAssumption
    DEF AddAllowlist, RemoveAllowlist, Tick, vars, TypeOK
  <2>3. allow' \in [on : BOOLEAN, expires : Nat]
    <3>1. CASE AddAllowlist
      <4>1. now \in Nat
        BY <1>0, ClockType
      <4>2. PICK e \in {0, now + 1} : AllowWith(e)
        BY <3>1 DEF AddAllowlist
      <4>3. e \in Nat
        BY <4>1
      <4> QED
        BY <1>0, <4>2, <4>3, AllowEffect
    <3>2. CASE RemoveAllowlist
      BY <3>2 DEF RemoveAllowlist
    <3>3. CASE Tick \/ UNCHANGED vars
      BY <1>0, <3>3 DEF Tick, vars, TypeOK
    <3> QED
      BY <1>10, <3>1, <3>2, <3>3
  <2>4. TypeOK'
    BY <1>0, <2>1, <2>2, <2>3, TypeNext
  <2> QED
    BY <2>1, <2>4 DEF IInv, TokenInv, PendingInv, CallInv, TokenOnce
<1> QED
  BY <1>1, <1>2, <1>3, <1>4, <1>5, <1>6, <1>7, <1>8, <1>9, <1>10 DEF Next

\* The invariant holds throughout.
THEOREM Invariant == Spec => []IInv
  BY InvInit, InvNext, PTL DEF Spec

\* Rows, tokens, calls and operators are well typed, whatever the order of
\* the broker's statements.
THEOREM TypeCorrect == Spec => []TypeOK
<1>1. IInv => TypeOK
  BY DEF IInv
<1> QED
  BY <1>1, Invariant, PTL

\* ConsumeApprovalToken's conditional write lets one call through for a token:
\* any number of calls that verified it beforehand are refused.
THEOREM TokenAdmitsOne == Spec => []TokenOnce
<1>1. IInv => TokenOnce
  BY DEF IInv
<1> QED
  BY <1>1, Invariant, PTL

\* What a token allowed was approved for that subject, and stays approved.
THEOREM TokensBacked == Spec => []TokenBacked
<1>1. IInv => TokenBacked
  BY DEF IInv, TokenInv, CallInv, TokenBacked
<1> QED
  BY <1>1, Invariant, PTL

\* Calls that wait for one subject wait for one live request.
THEOREM RequestsShared == Spec => []SharedRequest
<1>1. IInv => SharedRequest
  BY DEF IInv, PendingInv, CallInv, Live, SharedRequest
<1> QED
  BY <1>1, Invariant, PTL

\* A denial, cancellation or sweep that read a pending row never overwrites
\* the decision that came first, and nothing reopens a resolved request.
THEOREM DecisionsStand == Spec => ResolvedOnce
<1> DEFINE Stands == \A r \in Requests : req[r].st \in Resolved => req'[r] = req[r]
<1>1. IInv /\ [Next]_vars => [Stands]_vars
  <2> SUFFICES ASSUME IInv, Next PROVE Stands
    OBVIOUS
  <2>0. TypeOK
    BY DEF IInv
  <2>1. CASE UNCHANGED req
    BY <2>1
  <2>2. ASSUME NEW c \in Callers, RequireApproval(c) PROVE Stands
    <3>1. ASSUME NEW r \in Requests, IsNext(r),
                 req' = [req EXCEPT ![r] = [st |-> "pending",
                           subject |-> call[c].subject, expires |-> now + PendingTTL]]
          PROVE  Stands
      <4>1. req[r].st = "none"
        BY <3>1 DEF IsNext
      <4> QED
        BY <2>0, <3>1, <4>1 DEF TypeOK, Resolved
    <3> QED
      BY <2>1, <2>2, <3>1 DEF RequireApproval
  <2>3. ASSUME NEW r \in Requests, ApproveRequest(r) PROVE Stands
    BY <2>0, <2>3 DEF ApproveRequest, TypeOK, Resolved
  <2>4. ASSUME NEW o \in Operators, ResolveApprovalRequest(o) PROVE Stands
    BY <2>0, <2>4, ResolveEffect DEF Resolved
  <2>5. CASE ExpirePendingRequests
    BY <2>0, <2>5, ExpireEffect DEF Resolved
  <2>6. CASE AddAllowlist \/ RemoveAllowlist \/ Tick
    BY <2>1, <2>6 DEF AddAllowlist, RemoveAllowlist, Tick
  <2>7. ASSUME NEW c \in Callers,
               \/ Evaluate(c) \/ VerifyApprovalToken(c) \/ ConsumeApprovalToken(c)
               \/ CheckPolicy(c)
        PROVE  Stands
    BY <2>1, <2>7
    DEF Evaluate, VerifyApprovalToken, ConsumeApprovalToken, CheckPolicy
  <2>8. ASSUME NEW o \in Operators, ResolveRead(o) PROVE Stands
    BY <2>1, <2>8 DEF ResolveRead
  <2> QED
    BY <2>2, <2>3, <2>4, <2>5, <2>6, <2>7, <2>8 DEF Next
<1> QED
  BY <1>1, Invariant, PTL DEF Spec, ResolvedOnce
=============================================================================
