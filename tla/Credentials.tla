----------------------------- MODULE Credentials -----------------------------
(***************************************************************************)
(* Completion of a course (CoursesService.completeCourse) and issuance of  *)
(* its credential (BlockchainService.issueCredential): two handlers that   *)
(* write the same enrollment row, the table of credentials, the mail that  *)
(* follows a completion, and the Stellar network behind Horizon.           *)
(*                                                                         *)
(* A learner is a user together with one course.  A request is a process   *)
(* as in Courses; the transaction it builds, that transaction's hash and   *)
(* the credentials it saves are named after it.                            *)
(***************************************************************************)
EXTENDS Naturals

CONSTANTS Requests,   \* the requests of one behaviour (bounds the run)
          Learners,   \* pairs of a user and a course
          MayFail,    \* may awaited calls reject, or processes die?
          None        \* null

VARIABLES
    enrollment,   \* table enrollments, by learner; None where there is no row
    credentials,  \* table credentials
    pc,           \* the step a request is at, or its answer
    learner,      \* the learner it is about
    found,        \* completeCourse: the entity its handler holds
    selected,     \* completeCourse: the row its save selected
    seq,          \* issueCredential: the account sequence number it loaded
    sequence,     \* the issuer account's sequence number
    mempool,      \* transactions submitted and not yet decided
    ledger,       \* transactions applied
    mails,        \* completion mails sent: the request and the hash in it
    struck        \* history: requests that met a failure

tables  == <<enrollment, credentials>>
locals  == <<learner, found, selected, seq, struck>>
network == <<sequence, mempool, ledger>>
vars    == <<tables, pc, locals, network, mails>>

TxHash  == Requests \cup {None}
Row     == [isCompleted: BOOLEAN, credentialTxHash: TxHash]
Steps   == {"save", "update", "load", "submit", "submitted", "saveVerified",
            "updateEnrollment", "catch"}
Answers == {"completed", "issued", "notFound", "error"}

ASSUME CredentialsAssumption ==
    /\ MayFail \in BOOLEAN
    /\ None \notin Requests \cup Learners
    /\ None \notin Row

TypeOK ==
    /\ enrollment \in [Learners -> Row \cup {None}]
    /\ credentials \subseteq [id: Requests, learner: Learners, txHash: TxHash,
                              isVerified: BOOLEAN]
    /\ pc \in [Requests -> {"idle"} \cup Steps \cup Answers]
    /\ learner \in [Requests -> Learners \cup {None}]
    /\ found \in [Requests -> Row \cup {None}]
    /\ selected \in [Requests -> Row \cup {None}]
    /\ seq \in [Requests -> Nat]
    /\ sequence \in Nat
    /\ mempool \subseteq Requests
    /\ ledger \subseteq Requests
    /\ mails \subseteq [id: Requests, txHash: TxHash]
    /\ struck \subseteq Requests

Init ==
    /\ enrollment \in [Learners ->
                         {None, [isCompleted |-> FALSE, credentialTxHash |-> None]}]
    /\ credentials = {}
    /\ pc = [r \in Requests |-> "idle"]
    /\ learner = [r \in Requests |-> None]
    /\ found = [r \in Requests |-> None]
    /\ selected = [r \in Requests |-> None]
    /\ seq = [r \in Requests |-> 0]
    /\ sequence = 0
    /\ mempool = {} /\ ledger = {} /\ mails = {} /\ struck = {}

Step(r, from, to) == pc[r] = from /\ pc' = [pc EXCEPT ![r] = to]

----------------------------------------------------------------------------
(* completeCourse *)

\* findOne the enrollment; 404 without one; isCompleted = true
Complete(r, l) ==
    /\ Step(r, "idle", IF enrollment[l] = None THEN "notFound" ELSE "save")
    /\ learner' = [learner EXCEPT ![r] = l]
    /\ found' = [found EXCEPT ![r] =
                   IF enrollment[l] = None THEN None
                   ELSE [isCompleted |-> TRUE,
                         credentialTxHash |-> enrollment[l].credentialTxHash]]
    /\ UNCHANGED <<tables, selected, seq, struck, network, mails>>

\* save selects the row: enrollments are never deleted
Select(r) ==
    /\ Step(r, "save", "update")
    /\ selected' = [selected EXCEPT ![r] = enrollment[learner[r]]]
    /\ UNCHANGED <<tables, learner, found, seq, struck, network, mails>>

Changed(new, was, now) == IF new # was THEN new ELSE now

\* ... and writes the columns in which the entity differs from it
Written(f, s, row) ==
    [isCompleted |-> Changed(f.isCompleted, s.isCompleted, row.isCompleted),
     credentialTxHash |-> Changed(f.credentialTxHash, s.credentialTxHash,
                                  row.credentialTxHash)]

SaveCompletion(r) ==
    /\ Step(r, "update", "completed")
    /\ enrollment' = [enrollment EXCEPT ![learner[r]] =
                        Written(found[r], selected[r], @)]
    /\ UNCHANGED <<credentials, locals, network, mails>>

\* A variant with a bug: the mail does not wait for the save
SendUnsaved(r) ==
    /\ pc[r] \in {"update", "completed"}
    /\ \A m \in mails : m.id # r
    /\ mails' = mails \cup {[id |-> r, txHash |-> found[r].credentialTxHash]}
    /\ UNCHANGED <<tables, pc, locals, network>>

\* Fire and forget: both lookups succeed and the mail leaves, if ever
SendCourseCompletion(r) ==
    /\ pc[r] = "completed"
    /\ \A m \in mails : m.id # r
    /\ mails' = mails \cup {[id |-> r, txHash |-> found[r].credentialTxHash]}
    /\ UNCHANGED <<tables, pc, locals, network>>

----------------------------------------------------------------------------
(* issueCredential *)

Issue(r, l) ==
    /\ Step(r, "idle", "load")
    /\ learner' = [learner EXCEPT ![r] = l]
    /\ UNCHANGED <<tables, found, selected, seq, struck, network, mails>>

\* A variant with a bug: the number is incremented before the builder does it
LoadAccountAhead(r) ==
    /\ Step(r, "load", "submit")
    /\ seq' = [seq EXCEPT ![r] = sequence + 1]
    /\ UNCHANGED <<tables, learner, found, selected, struck, network, mails>>

\* server.loadAccount
LoadAccount(r) ==
    /\ Step(r, "load", "submit")
    /\ seq' = [seq EXCEPT ![r] = sequence]
    /\ UNCHANGED <<tables, learner, found, selected, struck, network, mails>>

\* server.submitTransaction: the transaction numbered seq[r] + 1 is sent
Submit(r) ==
    /\ Step(r, "submit", "submitted")
    /\ mempool' = mempool \cup {r}
    /\ UNCHANGED <<tables, locals, sequence, ledger, mails>>

\* A variant with a bug: a submission that is not decided counts as a success
Accepted(r) == r \in ledger \cup mempool

Applied(r) == r \in ledger

\* result.hash: the transaction is on the ledger
Submitted(r) ==
    /\ Step(r, "submitted", "saveVerified")
    /\ Applied(r)
    /\ UNCHANGED <<tables, locals, network, mails>>

\* Horizon reports that the transaction was not applied
Refused(r) ==
    /\ Step(r, "submitted", "catch")
    /\ r \notin ledger \cup mempool
    /\ UNCHANGED <<tables, locals, network, mails>>

\* Variants with a bug: a column is left out of the entity
FlagLeftOut(r, hash, verified) ==
    credentials' = credentials \cup
        {[id |-> r, learner |-> learner[r], txHash |-> hash, isVerified |-> None]}
HashLeftOut(r, hash, verified) ==
    credentials' = credentials \cup
        {[id |-> r, learner |-> learner[r], txHash |-> None,
          isVerified |-> verified]}

Saved(r, hash, verified) ==
    credentials' = credentials \cup
        {[id |-> r, learner |-> learner[r], txHash |-> hash,
          isVerified |-> verified]}

SaveVerified(r) ==
    /\ Step(r, "saveVerified", "updateEnrollment")
    /\ Saved(r, r, TRUE)
    /\ UNCHANGED <<enrollment, locals, network, mails>>

\* enrollmentRepo.update({ courseId, userId }, { credentialTxHash })
UpdateEnrollment(r) ==
    LET l == learner[r]
    IN  /\ Step(r, "updateEnrollment", "issued")
        /\ enrollment' = IF enrollment[l] = None THEN enrollment
                         ELSE [enrollment EXCEPT ![l].credentialTxHash = r]
        /\ UNCHANGED <<credentials, locals, network, mails>>

\* A variant with a bug: a failure is answered and not recorded
CatchForgets(r) ==
    /\ Step(r, "catch", "issued")
    /\ UNCHANGED <<tables, locals, network, mails>>

\* catch: an unverified credential without a hash, answered like the others
Catch(r) ==
    /\ Step(r, "catch", "issued")
    /\ Saved(r, None, FALSE)
    /\ UNCHANGED <<enrollment, locals, network, mails>>

----------------------------------------------------------------------------
(* Failures: inside the try block they lead to the catch block, elsewhere   *)
(* and when the process dies to an error                                    *)

Throw(r) ==
    /\ MayFail
    /\ \E s \in {"load", "submit", "submitted", "saveVerified", "updateEnrollment"} :
         Step(r, s, "catch")
    /\ struck' = struck \cup {r}
    /\ UNCHANGED <<tables, learner, found, selected, seq, network, mails>>

Fail(r) ==
    /\ MayFail
    /\ \E s \in Steps : Step(r, s, "error")
    /\ struck' = struck \cup {r}
    /\ UNCHANGED <<tables, learner, found, selected, seq, network, mails>>

----------------------------------------------------------------------------
(* The Stellar network: a transaction is applied if its number is the next *)
(* one of the account, refused if that number is taken; whoever submitted  *)
(* it may have given up by then                                            *)

Apply(r) ==
    /\ r \in mempool /\ seq[r] = sequence
    /\ sequence' = sequence + 1
    /\ ledger' = ledger \cup {r}
    /\ mempool' = mempool \ {r}
    /\ UNCHANGED <<tables, pc, locals, mails>>

Drop(r) ==
    /\ r \in mempool
    /\ \/ seq[r] # sequence /\ UNCHANGED struck
       \/ MayFail /\ struck' = struck \cup {r}
    /\ mempool' = mempool \ {r}
    /\ UNCHANGED <<tables, pc, learner, found, selected, seq, sequence, ledger,
                   mails>>

Serve(r) ==
    \/ Select(r) \/ SaveCompletion(r) \/ SendCourseCompletion(r)
    \/ LoadAccount(r) \/ Submit(r) \/ Submitted(r) \/ Refused(r)
    \/ SaveVerified(r) \/ UpdateEnrollment(r) \/ Catch(r)

Next ==
    \E r \in Requests :
        \/ \E l \in Learners : Complete(r, l) \/ Issue(r, l)
        \/ Serve(r) \/ Throw(r) \/ Fail(r)
        \/ Apply(r) \/ Drop(r)

Spec == Init /\ [][Next]_vars

----------------------------------------------------------------------------
(* What the two handlers keep *)

\* Every verified credential, and every hash in an enrollment row, is the hash
\* of a transaction on the ledger, issued for that very learner, through every
\* timeout of a submission and every failure after it
VerifiedOnLedger ==
    /\ \A n \in credentials :
         n.isVerified => n.txHash \in ledger /\ learner[n.txHash] = n.learner
    /\ \A l \in Learners :
         enrollment[l] # None /\ enrollment[l].credentialTxHash # None =>
             /\ enrollment[l].credentialTxHash \in ledger
             /\ \E n \in credentials : /\ n.isVerified /\ n.learner = l
                                       /\ n.txHash = enrollment[l].credentialTxHash

\* Whatever failed, an issuance that was answered left a credential behind, and
\* a completion that was answered left its row completed
AnsweredIsRecorded ==
    \A r \in Requests :
        /\ pc[r] = "issued" => \E n \in credentials : n.id = r
        /\ pc[r] = "completed" => enrollment[learner[r]].isCompleted

\* A completion mail tells of a completed enrollment, and a hash in it is that
\* of a transaction on the ledger for the learner it is sent to
MailIsTrue ==
    \A m \in mails :
        /\ enrollment[learner[m.id]].isCompleted
        /\ m.txHash # None =>
             m.txHash \in ledger /\ learner[m.txHash] = learner[m.id]

\* A credential is left unverified only if its request met a failure, or
\* another issuance had loaded the same sequence number and was applied first
RefusedOnlyByOverlap ==
    \A n \in credentials : ~n.isVerified =>
        \/ n.id \in struck
        \/ \E q \in ledger : q # n.id /\ seq[q] = seq[n.id]

\* Nothing on the ledger is forgotten: an applied transaction whose request was
\* answered without meeting a failure has its verified credential
AppliedIsRecorded ==
    \A r \in ledger \ struck : pc[r] \in Answers =>
        \E n \in credentials : n.isVerified /\ n.txHash = r

----------------------------------------------------------------------------
(* What the README says, and the code does not keep *)

\* README "Enrollment ... tracks completion and credential tx hash": once an
\* enrollment has the hash of its credential it does not lose it
HashIsKept ==
    [][\A l \in Learners :
         enrollment[l] # None /\ enrollment[l].credentialTxHash # None =>
             enrollment'[l].credentialTxHash # None]_vars
=============================================================================
