-------------------------- MODULE RevokeRouteProofs --------------------------
(***************************************************************************)
(* Theorems about RevokeRoute for every set of revocations and requests    *)
(* and every number of validation slots.                                   *)
(***************************************************************************)
EXTENDS RevokeRoute, TLAPS

\* What validation finds valid is authorised.
OutcomeInv ==
    \A r \in Request, c \in Cause : outcome[r][c] = "valid" => c \in Authorised

\* No goroutine outlives the wait for them, and no error precedes an answer.
StageInv ==
    \A r \in Request :
        /\ pc[r] # "validating" => running[r] = {}
        /\ pc[r] # "answered" => error[r] = "none"

\* Receipts at each stage: none before the outcomes are sorted; failures for
\* revocations found invalid only; successes for valid ones, once all of those
\* are in the store.
ReceiptInv ==
    \A r \in Request :
        /\ pc[r] \in {"idle", "validating"} =>
              \A c \in Cause : receipt[r][c] = "none"
        /\ pc[r] \in {"sorting", "storing", "committed"} =>
              \A c \in Cause : receipt[r][c] # "success"
        /\ pc[r] \in {"sorting", "storing", "committed", "succeeding"} =>
              \A c \in Valid(r) : receipt[r][c] # "failure"
        /\ pc[r] \in {"storing", "committed", "succeeding"} =>
              Unanswered(r) \subseteq Valid(r)
        /\ pc[r] \in {"committed", "succeeding"} => Valid(r) \subseteq stored
        /\ pc[r] = "succeeding" =>
              \A c \in Cause : receipt[r][c] = "success" => c \in Valid(r)

IInv ==
    /\ TypeOK
    /\ OutcomeInv
    /\ StageInv
    /\ ReceiptInv
    /\ SuccessIsStored
    /\ StoredIsAuthorised
    /\ OwnReceipt
    /\ PublishedIsStored

LEMMA InitIInv == Init => IInv
  <1> SUFFICES ASSUME Init PROVE IInv
    OBVIOUS
  <1> USE DEF Init, AllNone
  <1>1. TypeOK
    BY DEF TypeOK, Outcomes, Receipts
  <1>2. OutcomeInv /\ StageInv /\ ReceiptInv
    BY DEF OutcomeInv, StageInv, ReceiptInv
  <1>3. SuccessIsStored /\ StoredIsAuthorised /\ OwnReceipt /\ PublishedIsStored
    BY DEF SuccessIsStored, StoredIsAuthorised, OwnReceipt, PublishedIsStored
  <1> QED
    BY <1>1, <1>2, <1>3 DEF IInv

-----------------------------------------------------------------------------
(***************************************************************************)
(* One lemma per action: what it does to its own request, and that it      *)
(* leaves the others and the store's earlier revocations alone.            *)
(***************************************************************************)
LEMMA ReceiveStep ==
    ASSUME IInv, NEW r \in Request, NEW batch \in SUBSET Cause, Receive(r, batch)
    PROVE  IInv'
  <1> USE DEF IInv, TypeOK, Receive, AllNone
  <1>1. TypeOK'
    BY DEF StageInv, Outcomes, Receipts
  <1>2. OutcomeInv'
    BY DEF OutcomeInv, Outcomes
  <1>3. StageInv'
    BY DEF StageInv
  <1>4. ReceiptInv'
    BY DEF ReceiptInv, Valid, Unanswered
  <1>5. SuccessIsStored' /\ StoredIsAuthorised' /\ PublishedIsStored'
    BY DEF OutcomeInv, ReceiptInv, Valid, Unanswered, SuccessIsStored, StoredIsAuthorised, PublishedIsStored
  <1>6. OwnReceipt'
    BY DEF OwnReceipt, StageInv, ReceiptInv, Valid, Unanswered
  <1> QED
    BY <1>1, <1>2, <1>3, <1>4, <1>5, <1>6

LEMMA StartValidationStep ==
    ASSUME IInv, NEW r \in Request, NEW c \in items[r], StartValidation(r, c)
    PROVE  IInv'
  <1> USE DEF IInv, TypeOK, StartValidation
  <1>1. TypeOK'
    BY DEF StageInv, Outcomes, Receipts
  <1>2. OutcomeInv'
    BY DEF OutcomeInv, Outcomes
  <1>3. StageInv'
    BY DEF StageInv
  <1>4. ReceiptInv'
    BY DEF ReceiptInv, Valid, Unanswered
  <1>5. SuccessIsStored' /\ StoredIsAuthorised' /\ PublishedIsStored'
    BY DEF OutcomeInv, ReceiptInv, Valid, Unanswered, SuccessIsStored, StoredIsAuthorised, PublishedIsStored
  <1>6. OwnReceipt'
    BY DEF OwnReceipt, StageInv, ReceiptInv, Valid, Unanswered
  <1> QED
    BY <1>1, <1>2, <1>3, <1>4, <1>5, <1>6

LEMMA FinishValidationStep ==
    ASSUME IInv, NEW r \in Request, NEW c \in items[r], FinishValidation(r, c)
    PROVE  IInv'
  <1> USE DEF IInv, TypeOK, FinishValidation, Findings, Recovered
  <1>0. pc[r] = "validating"
    BY DEF StageInv
  <1>1. TypeOK'
    BY DEF StageInv, Outcomes, Receipts
  <1>2. OutcomeInv'
    BY DEF OutcomeInv, Outcomes
  <1>3. StageInv'
    BY DEF StageInv
  <1>4. ReceiptInv'
    BY <1>0 DEF ReceiptInv, Valid, Unanswered
  <1>5. SuccessIsStored' /\ StoredIsAuthorised' /\ PublishedIsStored'
    BY DEF OutcomeInv, ReceiptInv, Valid, Unanswered, SuccessIsStored, StoredIsAuthorised, PublishedIsStored
  <1>6. OwnReceipt'
    <2> SUFFICES ASSUME NEW q \in Request, pc'[q] = "answered"
                 PROVE  /\ Unanswered(q)' = {}
                        /\ error'[q] = "none" => {d \in items[q] : receipt[q][d] = "success"} = Valid(q)'
                        /\ error'[q] = "write" => {d \in items[q] : receipt[q][d] = "success"} = {}
                        /\ error'[q] = "receipt" => {d \in items[q] : receipt[q][d] = "success"} \subseteq Valid(q)'
      BY DEF OwnReceipt
    <2>1. q # r /\ pc[q] = "answered"
      BY <1>0
    <2>2. outcome'[q] = outcome[q]
      BY <2>1
    <2>3. Valid(q)' = Valid(q) /\ Unanswered(q)' = Unanswered(q)
      BY <2>2 DEF Valid, Unanswered
    <2> QED
      BY <2>1, <2>3 DEF OwnReceipt
  <1> QED
    BY <1>1, <1>2, <1>3, <1>4, <1>5, <1>6

LEMMA RefuseInvalidStep ==
    ASSUME IInv, NEW r \in Request, NEW c \in items[r], RefuseInvalid(r, c)
    PROVE  IInv'
  <1> USE DEF IInv, TypeOK, RefuseInvalid
  <1>1. TypeOK'
    BY DEF StageInv, Outcomes, Receipts
  <1>2. OutcomeInv'
    BY DEF OutcomeInv, Outcomes
  <1>3. StageInv'
    BY DEF StageInv
  <1>4. ReceiptInv'
    BY DEF ReceiptInv, Valid, Unanswered
  <1>5. SuccessIsStored' /\ StoredIsAuthorised' /\ PublishedIsStored'
    BY DEF OutcomeInv, ReceiptInv, Valid, Unanswered, SuccessIsStored, StoredIsAuthorised, PublishedIsStored
  <1>6. OwnReceipt'
    BY DEF OwnReceipt, StageInv, ReceiptInv, Valid, Unanswered
  <1> QED
    BY <1>1, <1>2, <1>3, <1>4, <1>5, <1>6

LEMMA SetSuccessStep ==
    ASSUME IInv, NEW r \in Request, NEW c \in items[r], SetSuccess(r, c)
    PROVE  IInv'
  <1> USE DEF IInv, TypeOK, SetSuccess
  <1>1. TypeOK'
    BY DEF StageInv, Outcomes, Receipts
  <1>2. OutcomeInv'
    BY DEF OutcomeInv, Outcomes
  <1>3. StageInv'
    BY DEF StageInv
  <1>4. ReceiptInv'
    BY DEF ReceiptInv, Valid, Unanswered
  <1>5. SuccessIsStored' /\ StoredIsAuthorised' /\ PublishedIsStored'
    BY DEF OutcomeInv, ReceiptInv, Valid, Unanswered, SuccessIsStored, StoredIsAuthorised, PublishedIsStored
  <1>6. OwnReceipt'
    BY DEF OwnReceipt, StageInv, ReceiptInv, Valid, Unanswered
  <1> QED
    BY <1>1, <1>2, <1>3, <1>4, <1>5, <1>6

LEMMA AllValidatedStep ==
    ASSUME IInv, NEW r \in Request, AllValidated(r)
    PROVE  IInv'
  <1> USE DEF IInv, TypeOK, AllValidated
  <1>1. TypeOK'
    BY DEF StageInv, Outcomes, Receipts
  <1>2. OutcomeInv'
    BY DEF OutcomeInv, Outcomes
  <1>3. StageInv'
    BY DEF StageInv
  <1>4. ReceiptInv'
    BY DEF ReceiptInv, Valid, Unanswered
  <1>5. SuccessIsStored' /\ StoredIsAuthorised' /\ PublishedIsStored'
    BY DEF OutcomeInv, ReceiptInv, Valid, Unanswered, SuccessIsStored, StoredIsAuthorised, PublishedIsStored
  <1>6. OwnReceipt'
    BY DEF OwnReceipt, StageInv, ReceiptInv, Valid, Unanswered
  <1> QED
    BY <1>1, <1>2, <1>3, <1>4, <1>5, <1>6

LEMMA WriteStep ==
    ASSUME IInv, NEW r \in Request, Write(r)
    PROVE  IInv'
  <1> USE DEF IInv, TypeOK, Write
  <1>1. TypeOK'
    BY DEF StageInv, Outcomes, Receipts
  <1>2. OutcomeInv'
    BY DEF OutcomeInv, Outcomes
  <1>3. StageInv'
    BY DEF StageInv
  <1>4. ReceiptInv'
    BY DEF ReceiptInv, Valid, Unanswered
  <1>5. SuccessIsStored' /\ StoredIsAuthorised' /\ PublishedIsStored'
    BY DEF OutcomeInv, ReceiptInv, Valid, Unanswered, SuccessIsStored, StoredIsAuthorised, PublishedIsStored
  <1>6. OwnReceipt'
    BY DEF OwnReceipt, StageInv, ReceiptInv, Valid, Unanswered
  <1> QED
    BY <1>1, <1>2, <1>3, <1>4, <1>5, <1>6

LEMMA CommitStep ==
    ASSUME IInv, NEW r \in Request, Commit(r)
    PROVE  IInv'
  <1> USE DEF IInv, TypeOK, Commit
  <1>1. TypeOK'
    BY DEF StageInv, Valid
  <1>2. OutcomeInv'
    BY DEF OutcomeInv, Outcomes
  <1>3. StageInv'
    BY DEF StageInv
  <1>4. ReceiptInv'
    BY DEF ReceiptInv, Valid, Unanswered
  <1>5. SuccessIsStored' /\ StoredIsAuthorised' /\ PublishedIsStored'
    BY DEF OutcomeInv, ReceiptInv, Valid, Unanswered, SuccessIsStored, StoredIsAuthorised, PublishedIsStored
  <1>6. OwnReceipt'
    BY DEF OwnReceipt, StageInv, ReceiptInv, Valid, Unanswered
  <1> QED
    BY <1>1, <1>2, <1>3, <1>4, <1>5, <1>6

LEMMA WriteReturnsStep ==
    ASSUME IInv, NEW r \in Request, WriteReturns(r)
    PROVE  IInv'
  <1> USE DEF IInv, TypeOK, WriteReturns
  <1>1. TypeOK'
    BY DEF StageInv, Outcomes, Receipts
  <1>2. OutcomeInv'
    BY DEF OutcomeInv, Outcomes
  <1>3. StageInv'
    BY DEF StageInv
  <1>4. ReceiptInv'
    BY DEF ReceiptInv, Valid, Unanswered
  <1>5. SuccessIsStored' /\ StoredIsAuthorised' /\ PublishedIsStored'
    BY DEF OutcomeInv, ReceiptInv, Valid, Unanswered, SuccessIsStored, StoredIsAuthorised, PublishedIsStored
  <1>6. OwnReceipt'
    BY DEF OwnReceipt, StageInv, ReceiptInv, Valid, Unanswered
  <1> QED
    BY <1>1, <1>2, <1>3, <1>4, <1>5, <1>6

LEMMA WriteFailsStep ==
    ASSUME IInv, NEW r \in Request, WriteFails(r)
    PROVE  IInv'
  <1> USE DEF IInv, TypeOK, WriteFails, FailUnanswered
  <1>1. TypeOK'
    BY DEF StageInv, Outcomes, Receipts
  <1>2. OutcomeInv'
    BY DEF OutcomeInv, Outcomes
  <1>3. StageInv'
    BY DEF StageInv
  <1>4. ReceiptInv'
    BY DEF ReceiptInv, Valid, Unanswered
  <1>5. SuccessIsStored' /\ StoredIsAuthorised' /\ PublishedIsStored'
    BY DEF OutcomeInv, ReceiptInv, Valid, Unanswered, SuccessIsStored, StoredIsAuthorised, PublishedIsStored
  <1>6. OwnReceipt'
    BY DEF OwnReceipt, StageInv, ReceiptInv, Valid, Unanswered
  <1> QED
    BY <1>1, <1>2, <1>3, <1>4, <1>5, <1>6

LEMMA ReceiptFailsStep ==
    ASSUME IInv, NEW r \in Request, ReceiptFails(r)
    PROVE  IInv'
  <1> USE DEF IInv, TypeOK, ReceiptFails, FailUnanswered
  <1>1. TypeOK'
    BY DEF StageInv, Outcomes, Receipts
  <1>2. OutcomeInv'
    BY DEF OutcomeInv, Outcomes
  <1>3. StageInv'
    BY DEF StageInv
  <1>4. ReceiptInv'
    BY DEF ReceiptInv, Valid, Unanswered
  <1>5. SuccessIsStored' /\ StoredIsAuthorised' /\ PublishedIsStored'
    BY DEF OutcomeInv, ReceiptInv, Valid, Unanswered, SuccessIsStored, StoredIsAuthorised, PublishedIsStored
  <1>6. OwnReceipt'
    BY DEF OwnReceipt, StageInv, ReceiptInv, Valid, Unanswered
  <1> QED
    BY <1>1, <1>2, <1>3, <1>4, <1>5, <1>6

LEMMA AnswerStep ==
    ASSUME IInv, NEW r \in Request, Answer(r)
    PROVE  IInv'
  <1> USE DEF IInv, TypeOK, Answer
  <1>1. TypeOK'
    BY DEF StageInv, Outcomes, Receipts
  <1>2. OutcomeInv'
    BY DEF OutcomeInv, Outcomes
  <1>3. StageInv'
    BY DEF StageInv
  <1>4. ReceiptInv'
    BY DEF ReceiptInv, Valid, Unanswered
  <1>5. SuccessIsStored' /\ StoredIsAuthorised' /\ PublishedIsStored'
    BY DEF OutcomeInv, ReceiptInv, Valid, Unanswered, SuccessIsStored, StoredIsAuthorised, PublishedIsStored
  <1>6. OwnReceipt'
    <2>1. \A c \in items[r] : receipt[r][c] = "success" <=> c \in Valid(r)
      BY DEF ReceiptInv, Valid, Unanswered, Receipts
    <2>2. error[r] = "none"
      BY DEF StageInv
    <2> QED
      BY <2>1, <2>2 DEF OwnReceipt, Valid, Unanswered
  <1> QED
    BY <1>1, <1>2, <1>3, <1>4, <1>5, <1>6

LEMMA CrashStep ==
    ASSUME IInv, Crash
    PROVE  IInv'
  <1> USE DEF IInv, TypeOK, Crash, InFlight, AllNone
  <1>1. TypeOK'
    BY DEF StageInv, Outcomes, Receipts
  <1>2. OutcomeInv'
    BY DEF OutcomeInv
  <1>3. StageInv'
    BY DEF StageInv
  <1>4. ReceiptInv'
    BY DEF ReceiptInv, Valid, Unanswered
  <1>5. SuccessIsStored' /\ StoredIsAuthorised' /\ PublishedIsStored'
    BY DEF SuccessIsStored, StoredIsAuthorised, PublishedIsStored
  <1>6. OwnReceipt'
    BY DEF OwnReceipt, Valid, Unanswered
  <1> QED
    BY <1>1, <1>2, <1>3, <1>4, <1>5, <1>6

\* The client's call may return anything but an unearned nil.
LEMMA CallReturnsStep ==
    ASSUME IInv, NEW r \in Request, NEW result \in {"nil", "error"},
           CallReturns(r, result),
           result = "nil" => \A c \in items[r] : receipt[r][c] = "success"
    PROVE  IInv'
  <1> USE DEF IInv, TypeOK, CallReturns, AllNone
  <1>1. TypeOK'
    BY DEF StageInv, Outcomes, Receipts
  <1>2. OutcomeInv'
    BY DEF OutcomeInv
  <1>3. StageInv'
    BY DEF StageInv
  <1>4. ReceiptInv'
    BY DEF ReceiptInv, Valid, Unanswered
  <1>5. SuccessIsStored' /\ StoredIsAuthorised' /\ PublishedIsStored'
    BY DEF SuccessIsStored, StoredIsAuthorised, PublishedIsStored
  <1>6. OwnReceipt'
    BY DEF OwnReceipt, Valid, Unanswered
  <1> QED
    BY <1>1, <1>2, <1>3, <1>4, <1>5, <1>6

LEMMA IInvStep == IInv /\ [Next]_vars => IInv'
  <1> SUFFICES ASSUME IInv, [Next]_vars PROVE IInv'
    OBVIOUS
  <1>1. ASSUME NEW r \in Request, Handle(r) PROVE IInv'
    BY <1>1, StartValidationStep, FinishValidationStep, RefuseInvalidStep,
       SetSuccessStep, AllValidatedStep, WriteStep, CommitStep,
       WriteReturnsStep, WriteFailsStep, ReceiptFailsStep, AnswerStep
    DEF Handle
  <1>2. ASSUME NEW r \in Request, Publish(r) \/ ResponseLost(r) PROVE IInv'
    BY <1>2, CallReturnsStep DEF Publish, ResponseLost
  <1>3. CASE UNCHANGED vars
    BY <1>3 DEF vars, IInv, TypeOK, OutcomeInv, StageInv, ReceiptInv,
       SuccessIsStored, StoredIsAuthorised, OwnReceipt, PublishedIsStored,
       Valid, Unanswered
  <1> QED
    BY <1>1, <1>2, <1>3, ReceiveStep, CrashStep DEF Next

\* The inductive invariant holds in every reachable state.
THEOREM Invariance == Spec => []IInv
  BY InitIInv, IInvStep, PTL DEF Spec

\* Every variable keeps its type, and goroutines run for items only, once each.
THEOREM TypeCorrect == Spec => []TypeOK
  BY Invariance, PTL DEF IInv

\* A success receipt is never ahead of the store (app.go:195-202).
THEOREM SuccessStored == Spec => []SuccessIsStored
  BY Invariance, PTL DEF IInv

\* Only revocations whose issuer has authority reach the store, whatever else
\* their requests contain (app.go:176-191).
THEOREM OnlyAuthorisedStored == Spec => []StoredIsAuthorised
  BY Invariance, PTL DEF IInv

\* Each revocation of an answered request has its own answer
\* (app.go:167-202).
THEOREM OwnAnswer == Spec => []OwnReceipt
  BY Invariance, PTL DEF IInv

\* PublishBatch returns nil only for revocations that are stored, and they stay
\* so (client.go:123-167).
THEOREM PublishedStored == Spec => []PublishedIsStored
  BY Invariance, PTL DEF IInv
=============================================================================
