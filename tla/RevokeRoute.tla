----------------------------- MODULE RevokeRoute -----------------------------
(***************************************************************************)
(* The batch handler of /ucan/revoke (pkg/fx/app.go, revokeRoute): each    *)
(* request validates its revocations concurrently on at most               *)
(* MaxValidations goroutines, waits for all of them, gives the invalid     *)
(* ones failure receipts, stores the valid ones with one write, and only   *)
(* then gives those success receipts.                                      *)
(*                                                                         *)
(* A request is one call of the client's PublishBatch (Publish is a batch  *)
(* of one), which returns nil when every receipt is a success. Clients     *)
(* repeat requests, or parts of them, whenever they like; the process may  *)
(* crash between any two steps.                                            *)
(***************************************************************************)
EXTENDS Integers, FiniteSets

CONSTANTS
    Cause,          \* revocations, by the CID of their invocation
    Authorised,     \* those whose path gives their issuer authority
    Request,        \* requests in flight
    MaxValidations  \* maxConcurrentValidations

ASSUME AuthorisedAssumption == Authorised \subseteq Cause
ASSUME ValidationsAssumption == MaxValidations \in Nat \ {0}

VARIABLES
    stored,     \* revocations in the store, which keeps the first of repeats
    pc,         \* where each request is
    items,      \* its revocations
    started,    \* those a validation goroutine was started for
    running,    \* those whose goroutine holds a slot
    outcome,    \* what validation found
    receipt,    \* the receipts set so far
    error,      \* the error the handler returned, if any
    published   \* what the client's call returned

vars == <<stored, pc, items, started, running, outcome, receipt, error, published>>

Outcomes == {"none", "valid", "invalid"}
Receipts == {"none", "success", "failure"}

\* Goroutines are started for items only, and run only once started.
TypeOK ==
    /\ stored \subseteq Cause
    /\ pc \in [Request -> {"idle", "validating", "sorting", "storing", "committed",
                           "succeeding", "answered"}]
    /\ items \in [Request -> SUBSET Cause]
    /\ outcome \in [Request -> [Cause -> Outcomes]]
    /\ receipt \in [Request -> [Cause -> Receipts]]
    /\ error \in [Request -> {"none", "write", "receipt"}]
    /\ published \in [Request -> {"none", "nil", "error"}]
    /\ started \in [Request -> SUBSET Cause]
    /\ running \in [Request -> SUBSET Cause]
    /\ \A r \in Request : running[r] \subseteq started[r] /\ started[r] \subseteq items[r]

AllNone == [c \in Cause |-> "none"]

Init ==
    /\ stored = {}
    /\ pc = [r \in Request |-> "idle"]
    /\ items = [r \in Request |-> {}]
    /\ started = [r \in Request |-> {}]
    /\ running = [r \in Request |-> {}]
    /\ outcome = [r \in Request |-> AllNone]
    /\ receipt = [r \in Request |-> AllNone]
    /\ error = [r \in Request |-> "none"]
    /\ published = [r \in Request |-> "none"]

Valid(r) == {c \in items[r] : outcome[r][c] = "valid"}
Unanswered(r) == {c \in items[r] : receipt[r][c] = "none"}

\* A new request, or a repeat of revocations already sent.
Receive(r, batch) ==
    /\ pc[r] = "idle"
    /\ batch # {}
    /\ pc' = [pc EXCEPT ![r] = "validating"]
    /\ items' = [items EXCEPT ![r] = batch]
    /\ started' = [started EXCEPT ![r] = {}]
    /\ outcome' = [outcome EXCEPT ![r] = AllNone]
    /\ receipt' = [receipt EXCEPT ![r] = AllNone]
    /\ error' = [error EXCEPT ![r] = "none"]
    /\ published' = [published EXCEPT ![r] = "none"]
    /\ UNCHANGED <<stored, running>>

-----------------------------------------------------------------------------
(***************************************************************************)
(* revocationPaths.                                                        *)
(***************************************************************************)

\* Mutant of StartValidation: the loop does not move on to the next item.
StartAgain(r, c) ==
    /\ pc[r] = "validating"
    /\ c \in items[r] \ started[r]
    /\ Cardinality(running[r]) < MaxValidations
    /\ running' = [running EXCEPT ![r] = @ \cup {c}]
    /\ UNCHANGED <<stored, pc, items, started, outcome, receipt, error, published>>

\* The loop waits for a slot before it starts each goroutine.
StartValidation(r, c) ==
    /\ pc[r] = "validating"
    /\ c \in items[r] \ started[r]
    /\ Cardinality(running[r]) < MaxValidations
    /\ started' = [started EXCEPT ![r] = @ \cup {c}]
    /\ running' = [running EXCEPT ![r] = @ \cup {c}]
    /\ UNCHANGED <<stored, pc, items, outcome, receipt, error, published>>

\* What revocationPath may do: a DID may fail to resolve or the resolver
\* panic whatever the revocation; an unauthorised one is never valid.
Findings(c) ==
    {"invalid", "panicked"} \cup (IF c \in Authorised THEN {"valid"} ELSE {})

\* A panic is turned into an error of that revocation alone.
Recovered(finding) == IF finding = "panicked" THEN "invalid" ELSE finding

\* Mutant of FinishValidation: a panic skips the release of the slot.
FinishLeakingSlot(r, c) ==
    /\ c \in running[r]
    /\ outcome[r][c] = "none"
    /\ \E finding \in Findings(c) :
          /\ outcome' = [outcome EXCEPT ![r][c] = Recovered(finding)]
          /\ running' = [running EXCEPT ![r] = IF finding = "panicked" THEN @ ELSE @ \ {c}]
    /\ UNCHANGED <<stored, pc, items, started, receipt, error, published>>

\* recoverRevocationPath returns, panic or not, and the slot is released.
FinishValidation(r, c) ==
    /\ c \in running[r]
    /\ \E finding \in Findings(c) :
          outcome' = [outcome EXCEPT ![r][c] = Recovered(finding)]
    /\ running' = [running EXCEPT ![r] = @ \ {c}]
    /\ UNCHANGED <<stored, pc, items, started, receipt, error, published>>

\* wg.Wait returns.
AllValidated(r) ==
    /\ pc[r] = "validating"
    /\ started[r] = items[r]
    /\ running[r] = {}
    /\ pc' = [pc EXCEPT ![r] = "sorting"]
    /\ UNCHANGED <<stored, items, started, running, outcome, receipt, error, published>>

-----------------------------------------------------------------------------
(***************************************************************************)
(* Receipts and the write.                                                 *)
(***************************************************************************)
\* Mutant of RefuseInvalid: one invalid revocation fails them all.
RefuseAll(r, c) ==
    /\ pc[r] = "sorting"
    /\ c \in Unanswered(r)
    /\ Valid(r) # items[r]
    /\ receipt' = [receipt EXCEPT ![r][c] = "failure"]
    /\ UNCHANGED <<stored, pc, items, started, running, outcome, error, published>>

RefuseInvalid(r, c) ==
    /\ pc[r] = "sorting"
    /\ c \in Unanswered(r) \ Valid(r)
    /\ receipt' = [receipt EXCEPT ![r][c] = "failure"]
    /\ UNCHANGED <<stored, pc, items, started, running, outcome, error, published>>

\* Mutant of Write: receipts do not wait for the store.
WriteBehind(r) ==
    /\ pc[r] = "sorting"
    /\ Unanswered(r) \subseteq Valid(r)
    /\ pc' = [pc EXCEPT ![r] = IF Valid(r) = {} THEN "answered" ELSE "succeeding"]
    /\ UNCHANGED <<stored, items, started, running, outcome, receipt, error, published>>

\* AddBatch is called, unless no revocation is valid.
Write(r) ==
    /\ pc[r] = "sorting"
    /\ Unanswered(r) \subseteq Valid(r)
    /\ pc' = [pc EXCEPT ![r] = IF Valid(r) = {} THEN "answered" ELSE "storing"]
    /\ UNCHANGED <<stored, items, started, running, outcome, receipt, error, published>>

\* Mutant of Commit: the loop does not skip an invalid revocation after its
\* failure receipt, and it joins the batch.
CommitAll(r) ==
    /\ pc[r] = "storing"
    /\ stored' = stored \cup items[r]
    /\ pc' = [pc EXCEPT ![r] = "committed"]
    /\ UNCHANGED <<items, started, running, outcome, receipt, error, published>>

Commit(r) ==
    /\ pc[r] = "storing"
    /\ stored' = stored \cup Valid(r)
    /\ pc' = [pc EXCEPT ![r] = "committed"]
    /\ UNCHANGED <<items, started, running, outcome, receipt, error, published>>

WriteReturns(r) ==
    /\ pc[r] = "committed"
    /\ pc' = [pc EXCEPT ![r] = "succeeding"]
    /\ UNCHANGED <<stored, items, started, running, outcome, receipt, error, published>>

\* The handler returns an error: the dispatcher gives every revocation that
\* has no receipt yet a short-lived failure.
FailUnanswered(r) ==
    receipt' = [receipt EXCEPT ![r] =
                   [c \in Cause |-> IF c \in Unanswered(r) THEN "failure" ELSE @[c]]]

\* AddBatch returns an error: nothing was written, or the write committed and
\* its acknowledgement was lost.
WriteFails(r) ==
    /\ pc[r] \in {"storing", "committed"}
    /\ FailUnanswered(r)
    /\ error' = [error EXCEPT ![r] = "write"]
    /\ pc' = [pc EXCEPT ![r] = "answered"]
    /\ UNCHANGED <<stored, items, started, running, outcome, published>>

SetSuccess(r, c) ==
    /\ pc[r] = "succeeding"
    /\ c \in Unanswered(r)
    /\ receipt' = [receipt EXCEPT ![r][c] = "success"]
    /\ UNCHANGED <<stored, pc, items, started, running, outcome, error, published>>

\* Issuing a receipt fails: the handler returns at once, before the write or in
\* the middle of the successes.
ReceiptFails(r) ==
    /\ \/ pc[r] = "sorting" /\ ~(Unanswered(r) \subseteq Valid(r))
       \/ pc[r] = "succeeding" /\ Unanswered(r) # {}
    /\ FailUnanswered(r)
    /\ error' = [error EXCEPT ![r] = "receipt"]
    /\ pc' = [pc EXCEPT ![r] = "answered"]
    /\ UNCHANGED <<stored, items, started, running, outcome, published>>

Answer(r) ==
    /\ pc[r] = "succeeding"
    /\ Unanswered(r) = {}
    /\ pc' = [pc EXCEPT ![r] = "answered"]
    /\ UNCHANGED <<stored, items, started, running, outcome, receipt, error, published>>

\* The process dies: requests in flight are lost with their goroutines; the
\* store remains.
InFlight(r) == pc[r] \notin {"idle", "answered"}
Crash ==
    /\ \E r \in Request : InFlight(r)
    /\ pc' = [r \in Request |-> IF InFlight(r) THEN "idle" ELSE pc[r]]
    /\ items' = [r \in Request |-> IF InFlight(r) THEN {} ELSE items[r]]
    /\ started' = [r \in Request |-> IF InFlight(r) THEN {} ELSE started[r]]
    /\ running' = [r \in Request |-> {}]
    /\ outcome' = [r \in Request |-> IF InFlight(r) THEN AllNone ELSE outcome[r]]
    /\ receipt' = [r \in Request |-> IF InFlight(r) THEN AllNone ELSE receipt[r]]
    /\ error' = [r \in Request |-> IF InFlight(r) THEN "none" ELSE error[r]]
    /\ published' = [r \in Request |-> IF InFlight(r) THEN "error" ELSE published[r]]
    /\ UNCHANGED stored

-----------------------------------------------------------------------------
(***************************************************************************)
(* The client.                                                             *)
(***************************************************************************)
\* Its call returns; of the handler's work nothing but the store remains.
CallReturns(r, result) ==
    /\ pc[r] = "answered"
    /\ pc' = [pc EXCEPT ![r] = "idle"]
    /\ published' = [published EXCEPT ![r] = result]
    /\ started' = [started EXCEPT ![r] = {}]
    /\ outcome' = [outcome EXCEPT ![r] = AllNone]
    /\ receipt' = [receipt EXCEPT ![r] = AllNone]
    /\ error' = [error EXCEPT ![r] = "none"]
    /\ UNCHANGED <<stored, items, running>>

\* Mutant of Publish: the receipt of one revocation decides.
PublishByAnyReceipt(r) ==
    CallReturns(r, IF \E c \in items[r] : receipt[r][c] = "success" THEN "nil" ELSE "error")

\* Every invocation must have a receipt, and a success.
Publish(r) ==
    CallReturns(r, IF \A c \in items[r] : receipt[r][c] = "success" THEN "nil" ELSE "error")

\* The response is lost, or the caller's context is canceled before it comes.
ResponseLost(r) == CallReturns(r, "error")

-----------------------------------------------------------------------------
\* What the handler does by itself, once it has a request.
Handle(r) ==
    \/ \E c \in items[r] :
          \/ StartValidation(r, c)
          \/ FinishValidation(r, c)
          \/ RefuseInvalid(r, c)
          \/ SetSuccess(r, c)
    \/ AllValidated(r)
    \/ Write(r)
    \/ Commit(r)
    \/ WriteReturns(r)
    \/ WriteFails(r)
    \/ ReceiptFails(r)
    \/ Answer(r)

Next ==
    \/ \E r \in Request :
          \/ \E batch \in SUBSET Cause : Receive(r, batch)
          \/ Handle(r)
          \/ Publish(r)
          \/ ResponseLost(r)
    \/ Crash

Spec == Init /\ [][Next]_vars

\* Goroutines run, validations and writes return (the request context and the
\* resolvers' HTTP clients bound them); no request is owed and no crash.
FairSpec == Spec /\ \A r \in Request : WF_vars(Handle(r))

-----------------------------------------------------------------------------
(***************************************************************************)
(* Properties.                                                             *)
(***************************************************************************)

\* A success receipt is never ahead of the store, through failed receipts,
\* failed writes, crashes and repeats (app.go:195-202).
SuccessIsStored ==
    \A r \in Request, c \in Cause : receipt[r][c] = "success" => c \in stored

\* No unauthorised revocation reaches the store, whether its validation refuses
\* it, panics or has not returned (app.go:176-191, 238-255).
StoredIsAuthorised == stored \subseteq Authorised

\* "Each one is validated on its own and gets its own receipt": an answered
\* request has a success for exactly its valid revocations. When the write
\* fails they all have failures, so the caller retries; when a receipt cannot
\* be issued the successes already set stand (README.md, POST /; app.go:167-202).
OwnReceipt ==
    \A r \in Request : pc[r] = "answered" =>
        LET successes == {c \in items[r] : receipt[r][c] = "success"} IN
            /\ Unanswered(r) = {}
            /\ error[r] = "none" => successes = Valid(r)
            /\ error[r] = "write" => successes = {}
            /\ error[r] = "receipt" => successes \subseteq Valid(r)

\* When PublishBatch returns nil every revocation of the call is stored, and
\* stays so, through partly refused batches,
\* failed receipts and crashes (client.go:123-167).
PublishedIsStored == \A r \in Request : published[r] = "nil" => items[r] \subseteq stored

\* A request is always answered, or gone with the process: no slot is leaked
\* and no validation that panics leaves the others waiting (app.go:213-227).
AlwaysAnswered == \A r \in Request : InFlight(r) ~> ~InFlight(r)
=============================================================================
