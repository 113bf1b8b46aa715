-------------------------- MODULE CredentialsProofs --------------------------
(***************************************************************************)
(* Proofs about Credentials.tla, for any number of requests and learners,  *)
(* with and without failures.                                              *)
(*                                                                         *)
(* The invariants are not inductive: what a handler holds between two of   *)
(* its calls must be stated too.  Rows are never deleted, a completed row  *)
(* stays completed, and credentials and ledger only grow (Growth), so what *)
(* was true of them when a handler read them still is when it writes.      *)
(***************************************************************************)
EXTENDS Credentials, TLAPS

USE CredentialsAssumption

IsIssued(l, hash) ==
    hash # None =>
      /\ hash \in ledger
      /\ \E n \in credentials : n.isVerified /\ n.learner = l /\ n.txHash = hash

\* What the handler of r holds
Holds(r) ==
    /\ pc[r] # "idle" => learner[r] \in Learners
    /\ pc[r] \in {"save", "update", "completed"} =>
         /\ found[r] \in Row /\ enrollment[learner[r]] \in Row
         /\ found[r].isCompleted
         /\ IsIssued(learner[r], found[r].credentialTxHash)
    /\ pc[r] = "update" =>
         /\ selected[r] \in Row
         /\ selected[r].isCompleted => enrollment[learner[r]].isCompleted
    /\ pc[r] = "completed" => enrollment[learner[r]].isCompleted
    /\ pc[r] \in {"saveVerified", "updateEnrollment"} => r \in ledger
    /\ pc[r] = "updateEnrollment" => IsIssued(learner[r], r)
    /\ pc[r] \in {"updateEnrollment", "issued"} => \E n \in credentials : n.id = r
    /\ r \in ledger \cup mempool => pc[r] # "idle"

IInv ==
    /\ TypeOK
    /\ \A r \in Requests : Holds(r)
    /\ \A n \in credentials :
         n.isVerified => n.txHash \in ledger /\ learner[n.txHash] = n.learner
    /\ \A l \in Learners :
         enrollment[l] # None => IsIssued(l, enrollment[l].credentialTxHash)
    /\ \A m \in mails :
         pc[m.id] = "completed" /\ m.txHash = found[m.id].credentialTxHash

LEMMA RecordType ==
    /\ \A h \in TxHash : [isCompleted |-> TRUE, credentialTxHash |-> h] \in Row
    /\ \A row \in Row : row.credentialTxHash \in TxHash
BY DEF Row

LEMMA SavedType ==
    ASSUME TypeOK, NEW r \in Requests, NEW h \in TxHash, NEW b \in BOOLEAN,
           learner[r] \in Learners, Saved(r, h, b)
    PROVE  credentials' \subseteq [id: Requests, learner: Learners, txHash: TxHash,
                                  isVerified: BOOLEAN]
<1>1. [id |-> r, learner |-> learner[r], txHash |-> h, isVerified |-> b]
        \in [id: Requests, learner: Learners, txHash: TxHash, isVerified: BOOLEAN]
  OBVIOUS
<1>2. credentials' = credentials \cup
        {[id |-> r, learner |-> learner[r], txHash |-> h, isVerified |-> b]}
  BY DEF Saved
<1> DEFINE n == [id |-> r, learner |-> learner[r], txHash |-> h, isVerified |-> b]
           S == [id: Requests, learner: Learners, txHash: TxHash, isVerified: BOOLEAN]
<1>3. credentials \subseteq S
  BY DEF TypeOK
<1> HIDE DEF n, S
<1>4. credentials \cup {n} \subseteq S
  BY <1>1, <1>3 DEF n, S
<1>5. QED BY <1>2, <1>4 DEF n, S

LEMMA WrittenType ==
    ASSUME NEW f \in Row, NEW s \in Row, NEW row \in Row
    PROVE  /\ Written(f, s, row) \in Row
           /\ f.isCompleted /\ (s.isCompleted => row.isCompleted) =>
                Written(f, s, row).isCompleted
           /\ Written(f, s, row).credentialTxHash
                \in {f.credentialTxHash, row.credentialTxHash}
BY DEF Written, Changed, Row

\* Nothing that was recorded is taken back
LEMMA Growth ==
    ASSUME IInv, [Next]_vars
    PROVE  /\ ledger \subseteq ledger' /\ credentials \subseteq credentials'
           /\ \A r \in Requests : pc[r] # "idle" =>
                /\ pc'[r] # "idle"
                /\ learner'[r] = learner[r] /\ found'[r] = found[r]
           /\ \A l \in Learners : enrollment[l] \in Row =>
                /\ enrollment'[l] \in Row
                /\ enrollment[l].isCompleted => enrollment'[l].isCompleted
<1> USE DEF IInv, TypeOK, Holds
<1>1. ASSUME NEW r \in Requests, NEW l \in Learners, Complete(r, l) \/ Issue(r, l)
      PROVE  /\ UNCHANGED <<ledger, credentials, enrollment>> /\ pc[r] = "idle"
             /\ pc'[r] # "idle"
             /\ \A x \in Requests \ {r} : /\ pc'[x] = pc[x] /\ found'[x] = found[x]
                                          /\ learner'[x] = learner[x]
  BY <1>1 DEF Complete, Issue, Step, tables, network
<1>2. ASSUME NEW r \in Requests, Serve(r) \/ Throw(r) \/ Fail(r) \/ Apply(r) \/ Drop(r)
      PROVE  /\ ledger \subseteq ledger' /\ credentials \subseteq credentials'
             /\ \A x \in Requests : pc[x] # "idle" => pc'[x] # "idle"
             /\ UNCHANGED <<learner, found>>
  BY <1>2 DEF Serve, Select, SaveCompletion, SendCourseCompletion, LoadAccount,
              Submit, Submitted, Refused, SaveVerified, UpdateEnrollment, Catch,
              Saved, Throw, Fail, Apply, Drop, Step, tables, network, locals
<1>3. ASSUME NEW r \in Requests, SaveCompletion(r), NEW l \in Learners,
             enrollment[l] \in Row
      PROVE  /\ enrollment'[l] \in Row
             /\ enrollment[l].isCompleted => enrollment'[l].isCompleted
  <2>1. /\ found[r] \in Row /\ selected[r] \in Row /\ found[r].isCompleted
    BY <1>3 DEF SaveCompletion, Step
  <2>2. enrollment' = [enrollment EXCEPT ![learner[r]] =
                         Written(found[r], selected[r], enrollment[learner[r]])]
    BY <1>3 DEF SaveCompletion
  <2>3. QED BY <1>3, <2>1, <2>2, WrittenType
<1>4. ASSUME NEW r \in Requests, UpdateEnrollment(r), NEW l \in Learners,
             enrollment[l] \in Row
      PROVE  /\ enrollment'[l] \in Row
             /\ enrollment[l].isCompleted => enrollment'[l].isCompleted
  BY <1>4 DEF UpdateEnrollment, Row, TxHash
<1>5. ASSUME NEW r \in Requests,
             Serve(r) \/ Throw(r) \/ Fail(r) \/ Apply(r) \/ Drop(r),
             ~SaveCompletion(r), ~UpdateEnrollment(r)
      PROVE  UNCHANGED enrollment
  BY <1>5 DEF Serve, Select, SendCourseCompletion, LoadAccount, Submit, Submitted,
              Refused, SaveVerified, Catch, Throw, Fail, Apply, Drop, tables
<1>6. CASE UNCHANGED vars
  BY <1>6 DEF vars, tables, locals, network
<1>7. CASE Next
  BY <1>1, <1>2, <1>3, <1>4, <1>5, <1>7 DEF Next
<1>8. QED BY <1>6, <1>7

LEMMA CredentialsInit == Init => IInv
<1> SUFFICES ASSUME Init PROVE IInv
  OBVIOUS
<1>1. [isCompleted |-> FALSE, credentialTxHash |-> None] \in Row
  BY DEF Row, TxHash
<1>2. TypeOK
  BY <1>1 DEF Init, TypeOK
<1>3. \A r \in Requests : Holds(r)
  BY DEF Init, Holds
<1>4. \A l \in Learners : enrollment[l] # None =>
        IsIssued(l, enrollment[l].credentialTxHash)
  BY DEF Init, IsIssued
<1>5. QED BY <1>2, <1>3, <1>4 DEF Init, IInv

\* What an actor holds stays true while others act
LEMMA HoldsFrame ==
    ASSUME IInv, [Next]_vars, NEW r \in Requests, pc'[r] = pc[r],
           selected'[r] = selected[r], pc[r] = "idle" => r \notin ledger' \cup mempool'
    PROVE  Holds(r)'
<1>1. \A l, h : IsIssued(l, h) => IsIssued(l, h)'
  BY Growth DEF IsIssued
<1>2. QED BY <1>1, Growth DEF IInv, Holds

LEMMA CredentialsTypeStep ==
    ASSUME IInv, [Next]_vars
    PROVE  TypeOK'
<1> USE DEF TypeOK, Step
<1>1. enrollment' \in [Learners -> Row \cup {None}]
  <2>1. ASSUME NEW r \in Requests, SaveCompletion(r)
        PROVE  enrollment' \in [Learners -> Row \cup {None}]
    <3>1. /\ found[r] \in Row /\ selected[r] \in Row
          /\ enrollment[learner[r]] \in Row
      BY <2>1 DEF SaveCompletion, IInv, Holds
    <3>2. enrollment' = [enrollment EXCEPT ![learner[r]] =
                           Written(found[r], selected[r], enrollment[learner[r]])]
      BY <2>1 DEF SaveCompletion
    <3>3. QED BY <3>1, <3>2, WrittenType DEF IInv
  <2>2. ASSUME NEW r \in Requests, UpdateEnrollment(r)
        PROVE  enrollment' \in [Learners -> Row \cup {None}]
    <3>1. enrollment[learner[r]] # None =>
            [enrollment[learner[r]] EXCEPT !.credentialTxHash = r] \in Row
      <4>1. learner[r] \in Learners
        BY <2>2 DEF UpdateEnrollment, IInv, Holds
      <4>2. QED BY <4>1 DEF IInv, Row, TxHash
    <3>2. QED BY <2>2, <3>1 DEF UpdateEnrollment, IInv
  <2>3. ASSUME NEW r \in Requests,
               Serve(r) \/ Throw(r) \/ Fail(r) \/ Apply(r) \/ Drop(r),
               ~SaveCompletion(r), ~UpdateEnrollment(r)
        PROVE  UNCHANGED enrollment
    BY <2>3 DEF Serve, Select, SendCourseCompletion, LoadAccount, Submit, Submitted,
                Refused, SaveVerified, Catch, Throw, Fail, Apply, Drop, tables
  <2>4. ASSUME NEW r \in Requests, NEW l \in Learners, Complete(r, l) \/ Issue(r, l)
        PROVE  UNCHANGED enrollment
    BY <2>4 DEF Complete, Issue, tables
  <2>5. QED BY <2>1, <2>2, <2>3, <2>4 DEF Next, vars, tables, IInv
<1>2. ASSUME NEW r \in Requests, NEW l \in Learners, Complete(r, l) \/ Issue(r, l)
      PROVE  TypeOK'
  <2>1. enrollment[l] # None =>
          [isCompleted |-> TRUE,
           credentialTxHash |-> enrollment[l].credentialTxHash] \in Row
    BY RecordType DEF IInv
  <2>2. /\ learner' = [learner EXCEPT ![r] = l]
        /\ found' \in [Requests -> Row \cup {None}]
        /\ pc' \in [Requests -> {"idle"} \cup Steps \cup Answers]
        /\ UNCHANGED <<credentials, selected, seq, struck, network, mails>>
    <3>1. CASE Complete(r, l)
      <4>1. found' = [found EXCEPT ![r] =
                        IF enrollment[l] = None THEN None
                        ELSE [isCompleted |-> TRUE,
                              credentialTxHash |-> enrollment[l].credentialTxHash]]
        BY <3>1 DEF Complete
      <4>2. found' \in [Requests -> Row \cup {None}]
        BY <2>1, <4>1 DEF IInv
      <4>3. QED BY <3>1, <4>2 DEF Complete, tables, IInv, Steps, Answers
    <3>2. CASE Issue(r, l)
      BY <3>2 DEF Issue, tables, IInv, Steps
    <3>3. QED BY <1>2, <3>1, <3>2
  <2>3. QED BY <1>1, <2>2 DEF network, IInv
<1>3. ASSUME NEW r \in Requests,
             Select(r) \/ SaveCompletion(r) \/ SendCourseCompletion(r)
      PROVE  TypeOK'
  <2>1. /\ pc[r] \in {"save", "update", "completed"}
        /\ found[r] \in Row /\ enrollment[learner[r]] \in Row
    BY <1>3 DEF Select, SaveCompletion, SendCourseCompletion, IInv, Holds
  <2>2. CASE Select(r)
    BY <1>1, <2>1, <2>2 DEF Select, tables, network, IInv, Steps
  <2>3. CASE SaveCompletion(r)
    BY <1>1, <2>1, <2>3 DEF SaveCompletion, locals, network, IInv, Answers
  <2>4. CASE SendCourseCompletion(r)
    BY <1>1, <2>1, <2>4 DEF SendCourseCompletion, tables, locals, network, IInv, Row
  <2>5. QED BY <1>3, <2>2, <2>3, <2>4
<1>4. ASSUME NEW r \in Requests,
             LoadAccount(r) \/ Submit(r) \/ Submitted(r) \/ Refused(r)
      PROVE  TypeOK'
  BY <1>1, <1>4 DEF LoadAccount, Submit, Submitted, Refused, tables, locals,
                    network, IInv, Steps
<1>5. ASSUME NEW r \in Requests,
             SaveVerified(r) \/ UpdateEnrollment(r) \/ Catch(r)
      PROVE  TypeOK'
  <2>1. learner[r] \in Learners
    BY <1>5 DEF SaveVerified, UpdateEnrollment, Catch, IInv, Holds
  <2>2. credentials' \subseteq [id: Requests, learner: Learners, txHash: TxHash,
                                isVerified: BOOLEAN]
    <3>1. CASE SaveVerified(r)
      BY <2>1, <3>1, SavedType DEF SaveVerified, IInv, TxHash
    <3>2. CASE UpdateEnrollment(r)
      BY <3>2 DEF UpdateEnrollment, IInv
    <3>3. CASE Catch(r)
      BY <2>1, <3>3, SavedType DEF Catch, IInv, TxHash
    <3>4. QED BY <1>5, <3>1, <3>2, <3>3
  <2>3. /\ pc' \in [Requests -> {"idle"} \cup Steps \cup Answers]
        /\ UNCHANGED <<locals, network, mails>>
    BY <1>5 DEF SaveVerified, UpdateEnrollment, Catch, IInv, Steps, Answers
  <2>4. QED BY <1>1, <2>2, <2>3 DEF locals, network, IInv
<1>6. ASSUME NEW r \in Requests, Throw(r) \/ Fail(r) \/ Apply(r) \/ Drop(r)
      PROVE  TypeOK'
  <2>1. CASE Throw(r) \/ Fail(r)
    <3>1. /\ pc' \in [Requests -> {"idle"} \cup Steps \cup Answers]
          /\ struck' = struck \cup {r}
      BY <2>1 DEF Throw, Fail, IInv, Steps, Answers
    <3>2. UNCHANGED <<tables, learner, found, selected, seq, network, mails>>
      BY <2>1 DEF Throw, Fail
    <3>3. QED BY <1>1, <3>1, <3>2 DEF tables, network, IInv
  <2>2. CASE Apply(r)
    BY <1>1, <2>2 DEF Apply, tables, locals, IInv
  <2>3. CASE Drop(r)
    BY <1>1, <2>3 DEF Drop, tables, IInv
  <2>4. QED BY <1>6, <2>1, <2>2, <2>3
<1>7. CASE UNCHANGED vars
  BY <1>7 DEF vars, tables, locals, network, IInv
<1>8. QED BY <1>2, <1>3, <1>4, <1>5, <1>6, <1>7 DEF Next, Serve

LEMMA HoldsStep ==
    ASSUME IInv, [Next]_vars, NEW r \in Requests
    PROVE  Holds(r)'
<1> USE DEF Step
<1>0. \A l, h : IsIssued(l, h) => IsIssued(l, h)'
  BY Growth DEF IsIssued
<1>1. ASSUME NEW l \in Learners, Complete(r, l)
      PROVE  Holds(r)'
  <2>1. /\ pc'[r] \in {"notFound", "save"} /\ learner'[r] = l
        /\ UNCHANGED <<enrollment, ledger, mempool, credentials>>
        /\ pc'[r] = "save" =>
             /\ enrollment[l] \in Row
             /\ found'[r] = [isCompleted |-> TRUE,
                              credentialTxHash |-> enrollment[l].credentialTxHash]
    BY <1>1 DEF Complete, IInv, TypeOK, tables, network
  <2>2. pc'[r] = "save" =>
          /\ found'[r] \in Row /\ found'[r].isCompleted
          /\ found'[r].credentialTxHash = enrollment[l].credentialTxHash
    BY <2>1, RecordType
  <2>3. pc'[r] = "save" => IsIssued(l, found[r].credentialTxHash)'
    BY <2>1, <2>2 DEF IInv, IsIssued
  <2>4. QED BY <2>1, <2>2, <2>3 DEF Holds
<1>2. ASSUME NEW l \in Learners, Issue(r, l)
      PROVE  Holds(r)'
  BY <1>2 DEF Issue, IInv, TypeOK, Holds
<1>3. CASE Select(r)
  BY <1>3, <1>0, Growth DEF Select, IInv, TypeOK, Holds, tables, network
<1>4. CASE SaveCompletion(r)
  <2>1. /\ pc[r] = "update" /\ pc'[r] = "completed"
        /\ found[r] \in Row /\ selected[r] \in Row
        /\ learner[r] \in Learners /\ enrollment[learner[r]] \in Row
        /\ found[r].isCompleted
        /\ selected[r].isCompleted => enrollment[learner[r]].isCompleted
    BY <1>4 DEF SaveCompletion, IInv, TypeOK, Holds
  <2>2. enrollment'[learner[r]] =
          Written(found[r], selected[r], enrollment[learner[r]])
    BY <1>4, <2>1 DEF SaveCompletion, IInv, TypeOK
  <2>3. enrollment'[learner[r]].isCompleted
    BY <2>1, <2>2, WrittenType
  <2>4. QED BY <1>4, <1>0, <2>1, <2>3, Growth
            DEF SaveCompletion, IInv, TypeOK, Holds, locals, network
<1>5. CASE LoadAccount(r) \/ Submit(r) \/ Submitted(r) \/ Refused(r)
  BY <1>5, <1>0, Growth DEF LoadAccount, Submit, Submitted, Applied, Refused, IInv,
                            TypeOK, Holds, locals, tables, network
<1>6. CASE SaveVerified(r)
  <2>1. /\ pc[r] = "saveVerified" /\ pc'[r] = "updateEnrollment"
        /\ r \in ledger /\ UNCHANGED <<learner, ledger, mempool>>
        /\ [id |-> r, learner |-> learner[r], txHash |-> r, isVerified |-> TRUE]
             \in credentials'
    BY <1>6 DEF SaveVerified, Saved, IInv, TypeOK, Holds, locals, network
  <2>2. IsIssued(learner[r], r)'
    BY <2>1 DEF IsIssued
  <2>3. QED BY <2>1, <2>2, Growth DEF IInv, Holds
<1>7. CASE UpdateEnrollment(r)
  BY <1>7, Growth DEF UpdateEnrollment, IInv, TypeOK, Holds, locals, network
<1>8. CASE Catch(r)
  <2>1. /\ pc[r] = "catch" /\ pc'[r] = "issued"
        /\ UNCHANGED <<learner, ledger, mempool>>
        /\ [id |-> r, learner |-> learner[r], txHash |-> None, isVerified |-> FALSE]
             \in credentials'
    BY <1>8 DEF Catch, Saved, IInv, TypeOK, locals, network
  <2>2. QED BY <2>1, Growth DEF IInv, Holds
<1>9. CASE Throw(r) \/ Fail(r)
  BY <1>9, Growth DEF Throw, Fail, IInv, TypeOK, Holds, Steps, locals, network
<1>10. CASE SendCourseCompletion(r) \/ Apply(r) \/ Drop(r)
  BY <1>10, HoldsFrame DEF SendCourseCompletion, Apply, Drop, IInv, TypeOK, Holds,
                           locals, tables, network
<1>11. ASSUME NEW x \in Requests \ {r}, NEW l \in Learners,
              Complete(x, l) \/ Issue(x, l)
       PROVE  Holds(r)'
  BY <1>11, HoldsFrame DEF Complete, Issue, IInv, TypeOK, Holds, network
<1>12. ASSUME NEW x \in Requests \ {r},
              Serve(x) \/ Throw(x) \/ Fail(x) \/ Apply(x) \/ Drop(x)
       PROVE  Holds(r)'
  <2>1. /\ pc'[r] = pc[r] /\ selected'[r] = selected[r]
        /\ ledger' \cup mempool' \subseteq ledger \cup mempool \cup {x}
    BY <1>12 DEF Serve, Select, SaveCompletion, SendCourseCompletion, LoadAccount,
                 Submit, Submitted, Refused, SaveVerified, UpdateEnrollment, Catch,
                 Throw, Fail, Apply, Drop, network, locals, IInv, TypeOK
  <2>2. QED BY <2>1, HoldsFrame DEF IInv, Holds
<1>13. CASE UNCHANGED vars
  BY <1>13, HoldsFrame DEF vars, locals, network, IInv, Holds
<1>14. QED
  BY <1>1, <1>2, <1>3, <1>4, <1>5, <1>6, <1>7, <1>8, <1>9, <1>10, <1>11, <1>12,
     <1>13 DEF Next, Serve

\* Each verified credential names an applied transaction of its own learner
LEMMA VerifiedStep ==
    ASSUME IInv, [Next]_vars, NEW n \in credentials', n.isVerified
    PROVE  n.txHash \in ledger' /\ learner'[n.txHash] = n.learner
<1>1. CASE n \in credentials
  <2>1. n.txHash \in ledger /\ learner[n.txHash] = n.learner
    BY <1>1 DEF IInv
  <2>2. n.txHash \in Requests /\ pc[n.txHash] # "idle"
    BY <2>1 DEF IInv, TypeOK, Holds
  <2>3. QED BY <2>1, <2>2, Growth
<1>2. CASE n \notin credentials
  <2>1. ASSUME NEW r \in Requests, SaveVerified(r)
        PROVE  n.txHash \in ledger' /\ learner'[n.txHash] = n.learner
    <3>1. n = [id |-> r, learner |-> learner[r], txHash |-> r, isVerified |-> TRUE]
      BY <1>2, <2>1 DEF SaveVerified, Saved
    <3>2. r \in ledger /\ UNCHANGED <<ledger, learner>>
      BY <2>1 DEF SaveVerified, Step, IInv, Holds, locals, network
    <3>3. QED BY <3>1, <3>2
  <2>2. ASSUME NEW r \in Requests, Catch(r)
        PROVE  FALSE
    <3>1. n = [id |-> r, learner |-> learner[r], txHash |-> None, isVerified |-> FALSE]
      BY <1>2, <2>2 DEF Catch, Saved
    <3>2. QED BY <3>1
  <2>3. ASSUME NEW r \in Requests,
               Serve(r) \/ Throw(r) \/ Fail(r) \/ Apply(r) \/ Drop(r),
               ~SaveVerified(r), ~Catch(r)
        PROVE  FALSE
    BY <1>2, <2>3 DEF Serve, Select, SaveCompletion, SendCourseCompletion,
                      LoadAccount, Submit, Submitted, Refused, UpdateEnrollment,
                      Throw, Fail, Apply, Drop, tables
  <2>4. ASSUME NEW r \in Requests, NEW l \in Learners, Complete(r, l) \/ Issue(r, l)
        PROVE  FALSE
    BY <1>2, <2>4 DEF Complete, Issue, tables
  <2>5. QED BY <1>2, <2>1, <2>2, <2>3, <2>4 DEF Next, vars, tables
<1>3. QED BY <1>1, <1>2

\* The hash in an enrollment row is that of a credential of its learner:
\* a completion that saves late writes back a hash it read, never another
LEMMA HashStep ==
    ASSUME IInv, [Next]_vars, NEW l \in Learners, enrollment'[l] # None
    PROVE  IsIssued(l, enrollment[l].credentialTxHash)'
<1>0. \A h : IsIssued(l, h) => IsIssued(l, h)'
  BY Growth DEF IsIssued
<1>1. CASE enrollment'[l] = enrollment[l]
  BY <1>0, <1>1 DEF IInv
<1>2. CASE enrollment'[l] # enrollment[l]
  <2>1. ASSUME NEW r \in Requests, SaveCompletion(r)
        PROVE  IsIssued(l, enrollment[l].credentialTxHash)'
    <3>1. /\ found[r] \in Row /\ selected[r] \in Row
          /\ enrollment[learner[r]] \in Row
          /\ IsIssued(learner[r], found[r].credentialTxHash)
      BY <2>1 DEF SaveCompletion, Step, IInv, Holds
    <3>2. enrollment' = [enrollment EXCEPT ![learner[r]] =
                           Written(found[r], selected[r], enrollment[learner[r]])]
      BY <2>1 DEF SaveCompletion
    <3>3. l = learner[r]
          /\ enrollment'[l] = Written(found[r], selected[r], enrollment[l])
      BY <1>2, <3>2 DEF IInv, TypeOK
    <3>4. enrollment'[l].credentialTxHash
            \in {found[r].credentialTxHash, enrollment[l].credentialTxHash}
      BY <3>1, <3>3, WrittenType
    <3>5. IsIssued(l, enrollment[l].credentialTxHash)
      BY <3>1, <3>3 DEF IInv
    <3>6. QED BY <1>0, <3>1, <3>3, <3>4, <3>5
  <2>2. ASSUME NEW r \in Requests, UpdateEnrollment(r)
        PROVE  IsIssued(l, enrollment[l].credentialTxHash)'
    <3>1. IsIssued(learner[r], r)
      BY <2>2 DEF UpdateEnrollment, Step, IInv, Holds
    <3>2. l = learner[r] /\ enrollment[l] # None
          /\ enrollment' = [enrollment EXCEPT ![l].credentialTxHash = r]
      BY <1>2, <2>2 DEF UpdateEnrollment, IInv, TypeOK
    <3>3. enrollment[l] \in Row
      BY <3>2 DEF IInv, TypeOK
    <3>4. enrollment'[l].credentialTxHash = r
      BY <3>2, <3>3 DEF IInv, TypeOK, Row
    <3>5. QED BY <1>0, <3>1, <3>2, <3>4
  <2>3. ASSUME NEW r \in Requests,
               Serve(r) \/ Throw(r) \/ Fail(r) \/ Apply(r) \/ Drop(r),
               ~SaveCompletion(r), ~UpdateEnrollment(r)
        PROVE  FALSE
    BY <1>2, <2>3 DEF Serve, Select, SendCourseCompletion, LoadAccount, Submit,
                      Submitted, Refused, SaveVerified, Catch, Throw, Fail, Apply,
                      Drop, tables
  <2>4. ASSUME NEW r \in Requests, NEW m \in Learners, Complete(r, m) \/ Issue(r, m)
        PROVE  FALSE
    BY <1>2, <2>4 DEF Complete, Issue, tables
  <2>5. QED BY <1>2, <2>1, <2>2, <2>3, <2>4 DEF Next, vars, tables
<1>3. QED BY <1>1, <1>2

\* A mail was sent by a completion that stays completed
LEMMA MailStep ==
    ASSUME IInv, [Next]_vars, NEW m \in mails'
    PROVE  pc'[m.id] = "completed" /\ m.txHash = found'[m.id].credentialTxHash
<1> USE DEF Step
<1>1. ASSUME NEW r \in Requests, SendCourseCompletion(r)
      PROVE  /\ pc[m.id] = "completed" /\ m.txHash = found[m.id].credentialTxHash
             /\ UNCHANGED <<pc, found>>
  BY <1>1 DEF SendCourseCompletion, locals, IInv
<1>2. ASSUME NEW r \in Requests, Serve(r) \/ Throw(r) \/ Fail(r) \/ Apply(r) \/ Drop(r),
             ~SendCourseCompletion(r)
      PROVE  /\ UNCHANGED <<mails, found>>
             /\ \A x \in Requests : pc[x] = "completed" => pc'[x] = "completed"
  BY <1>2 DEF Serve, Select, SaveCompletion, LoadAccount, Submit, Submitted, Refused,
              SaveVerified, UpdateEnrollment, Catch, Throw, Fail, Apply, Drop, Steps,
              locals, IInv, TypeOK
<1>3. ASSUME NEW r \in Requests, NEW l \in Learners, Complete(r, l) \/ Issue(r, l)
      PROVE  /\ UNCHANGED mails
             /\ \A x \in Requests : pc[x] = "completed" =>
                  pc'[x] = "completed" /\ found'[x] = found[x]
  BY <1>3 DEF Complete, Issue, IInv, TypeOK
<1>4. m \in mails => m.id \in Requests
  BY DEF IInv, TypeOK
<1>5. CASE UNCHANGED vars
  BY <1>5 DEF vars, locals, IInv
<1>6. QED BY <1>1, <1>2, <1>3, <1>4, <1>5 DEF Next, Serve, IInv

LEMMA CredentialsStep == IInv /\ [Next]_vars => IInv'
<1> SUFFICES ASSUME IInv, [Next]_vars PROVE IInv'
  OBVIOUS
<1>1. \A r \in Requests : Holds(r)'
  BY HoldsStep
<1>2. \A n \in credentials' : n.isVerified =>
        n.txHash \in ledger' /\ learner'[n.txHash] = n.learner
  BY VerifiedStep
<1>3. \A l \in Learners : enrollment'[l] # None =>
        IsIssued(l, enrollment[l].credentialTxHash)'
  BY HashStep
<1>4. \A m \in mails' :
        pc'[m.id] = "completed" /\ m.txHash = found'[m.id].credentialTxHash
  BY MailStep
<1>5. QED BY CredentialsTypeStep, <1>1, <1>2, <1>3, <1>4 DEF IInv

LEMMA CredentialsInductive == Spec => []IInv
BY CredentialsInit, CredentialsStep, PTL DEF Spec

\* Tables, handlers and network hold values of their types
THEOREM CredentialsType == Spec => []TypeOK
<1>1. IInv => TypeOK
  BY DEF IInv
<1>2. QED BY <1>1, CredentialsInductive, PTL

\* Through every timeout, refusal, failure and overlap of issuances and
\* completions, verified credentials and enrollment hashes are those of applied
\* transactions of the same learner
THEOREM OnLedger == Spec => []VerifiedOnLedger
<1>1. IInv => VerifiedOnLedger
  BY DEF IInv, IsIssued, VerifiedOnLedger
<1>2. QED BY <1>1, CredentialsInductive, PTL

\* A completion mail tells the truth, in whatever order issuances, completions
\* and failures surround it
THEOREM MailTrue == Spec => []MailIsTrue
<1>1. IInv => MailIsTrue
  <2> SUFFICES ASSUME IInv, NEW m \in mails
               PROVE  /\ enrollment[learner[m.id]].isCompleted
                      /\ m.txHash # None =>
                           m.txHash \in ledger /\ learner[m.txHash] = learner[m.id]
    BY DEF MailIsTrue
  <2>1. m.id \in Requests /\ pc[m.id] = "completed"
    BY DEF IInv, TypeOK
  <2>2. enrollment[learner[m.id]].isCompleted /\ IsIssued(learner[m.id], m.txHash)
    BY <2>1 DEF IInv, Holds
  <2>3. QED BY <2>2 DEF IInv, IsIssued
<1>2. QED BY <1>1, CredentialsInductive, PTL

\* An answered issuance left a credential behind, and an answered completion
\* left its row completed
THEOREM Recorded == Spec => []AnsweredIsRecorded
<1>1. IInv => AnsweredIsRecorded
  BY DEF IInv, Holds, AnsweredIsRecorded
<1>2. QED BY <1>1, CredentialsInductive, PTL
----------------------------------------------------------------------------
(* Sequence numbers and what becomes of a transaction *)

\* The places of a request that has submitted nothing
Before == {"idle", "save", "update", "completed", "notFound", "load", "submit"}

\* Another request loaded the same number and was applied
Beaten(r) == \E q \in ledger : q # r /\ seq[q] = seq[r]

\* Every number below the account's was used by an applied transaction
Numbers ==
    /\ ledger \cap mempool = {}
    /\ \A r \in ledger \cup mempool : pc[r] \notin Before
    /\ \A n \in credentials : pc[n.id] \notin Before
    /\ \A r \in Requests : pc[r] = "submit" \/ r \in mempool => seq[r] <= sequence
    /\ \A s \in Nat : s < sequence => \E q \in ledger : seq[q] = s

\* What became of the transaction of a request without failures
Fate(r) ==
    /\ pc[r] \in {"submitted", "catch"} /\ r \notin ledger \cup mempool => Beaten(r)
    /\ pc[r] = "catch" => r \notin ledger \cup mempool
    /\ pc[r] = "issued" => r \notin mempool
    /\ pc[r] # "error"
    /\ pc[r] \in {"updateEnrollment", "issued"} /\ r \in ledger =>
         \E n \in credentials : n.isVerified /\ n.txHash = r

FInv == /\ IInv /\ Numbers
        /\ \A r \in Requests \ struck : Fate(r)
        /\ RefusedOnlyByOverlap

\* How one step moves a request and its transaction
LEMMA Course ==
    ASSUME FInv, [Next]_vars, NEW r \in Requests
    PROVE  /\ pc[r] \notin Before => pc'[r] \notin Before /\ seq'[r] = seq[r]
           /\ struck \subseteq struck'
           /\ r \in mempool' \ mempool => pc[r] = "submit" /\ pc'[r] = "submitted"
           /\ r \in ledger' \ ledger => r \in mempool /\ r \notin mempool'
           /\ r \in mempool \ mempool' => pc'[r] = pc[r] /\ seq'[r] = seq[r]
           /\ pc[r] = "submit" => seq'[r] = seq[r]
           /\ pc'[r] = "submit" => pc[r] = "submit" \/ LoadAccount(r)
           /\ \A n \in credentials' \ credentials :
                n.id = r => /\ pc[r] \in {"saveVerified", "catch"}
                            /\ pc'[r] \in {"updateEnrollment", "issued"}
<1> USE DEF Step, network, tables, locals, Before, FInv, IInv, TypeOK
<1> DEFINE Goal ==
      /\ pc[r] \notin Before => pc'[r] \notin Before /\ seq'[r] = seq[r]
      /\ struck \subseteq struck'
      /\ r \in mempool' \ mempool => pc[r] = "submit" /\ pc'[r] = "submitted"
      /\ r \in ledger' \ ledger => r \in mempool /\ r \notin mempool'
      /\ r \in mempool \ mempool' => pc'[r] = pc[r] /\ seq'[r] = seq[r]
      /\ pc[r] = "submit" => seq'[r] = seq[r]
      /\ pc'[r] = "submit" => pc[r] = "submit" \/ LoadAccount(r)
      /\ \A n \in credentials' \ credentials :
           n.id = r => /\ pc[r] \in {"saveVerified", "catch"}
                       /\ pc'[r] \in {"updateEnrollment", "issued"}
<1>1. ASSUME NEW x \in Requests, NEW l \in Learners, Complete(x, l) \/ Issue(x, l)
      PROVE  Goal
  BY <1>1 DEF Complete, Issue
<1>2. ASSUME NEW x \in Requests, Select(x) \/ SaveCompletion(x)
                                 \/ SendCourseCompletion(x)
      PROVE  Goal
  BY <1>2 DEF Select, SaveCompletion, SendCourseCompletion
<1>3. ASSUME NEW x \in Requests, LoadAccount(x) \/ Submit(x) \/ Submitted(x)
                                 \/ Refused(x)
      PROVE  Goal
  BY <1>3 DEF LoadAccount, Submit, Submitted, Refused
<1>4. ASSUME NEW x \in Requests, SaveVerified(x) \/ UpdateEnrollment(x) \/ Catch(x)
      PROVE  Goal
  BY <1>4 DEF SaveVerified, UpdateEnrollment, Catch, Saved
<1>5. ASSUME NEW x \in Requests, Throw(x) \/ Fail(x)
      PROVE  Goal
  <2>1. PICK s \in Steps, t \in {"catch", "error"} : Step(x, s, t)
    BY <1>5 DEF Throw, Fail, Steps
  <2>2. UNCHANGED <<network, credentials, seq>> /\ struck \subseteq struck'
    BY <1>5 DEF Throw, Fail
  <2>3. QED BY <2>1, <2>2
<1>6. ASSUME NEW x \in Requests, Apply(x) \/ Drop(x)
      PROVE  Goal
  BY <1>6 DEF Apply, Drop
<1>7. CASE UNCHANGED vars
  BY <1>7 DEF vars
<1>8. QED BY <1>1, <1>2, <1>3, <1>4, <1>5, <1>6, <1>7 DEF Next, Serve

LEMMA NumbersStep ==
    ASSUME FInv, [Next]_vars
    PROVE  Numbers'
<1>0. TypeOK /\ TypeOK'
  BY CredentialsTypeStep DEF FInv, IInv
<1>1. (ledger \cap mempool = {})'
  <2>1. ASSUME NEW r \in ledger' \cap mempool' PROVE FALSE
    <3>1. r \in Requests
      BY <1>0 DEF TypeOK
    <3>2. CASE r \in ledger
      <4>1. pc[r] \notin Before /\ r \notin mempool
        BY <3>2 DEF FInv, Numbers
      <4>2. QED BY <2>1, <3>1, <4>1, Course DEF Before
    <3>3. CASE r \notin ledger
      BY <2>1, <3>1, <3>3, Course
    <3>4. QED BY <3>2, <3>3
  <2>2. QED BY <2>1
<1>2. ASSUME NEW r \in ledger' \cup mempool' PROVE pc'[r] \notin Before
  <2>1. r \in Requests
    BY <1>0 DEF TypeOK
  <2>2. CASE r \in ledger \cup mempool
    BY <2>1, <2>2, Course DEF FInv, Numbers
  <2>3. CASE r \notin ledger \cup mempool
    BY <2>1, <2>3, Course DEF Before
  <2>4. QED BY <2>2, <2>3
<1>3. ASSUME NEW n \in credentials' PROVE pc'[n.id] \notin Before
  <2>1. n.id \in Requests
    BY <1>0 DEF TypeOK
  <2>2. CASE n \in credentials
    BY <2>1, <2>2, Course DEF FInv, Numbers
  <2>3. CASE n \notin credentials
    BY <2>1, <2>3, Course DEF Before
  <2>4. QED BY <2>2, <2>3
<1>4. sequence' \in Nat /\ sequence <= sequence'
      /\ \/ sequence' = sequence
         \/ \E r \in Requests : Apply(r)
  <2> USE <1>0 DEF TypeOK
  <2>1. ASSUME NEW r \in Requests, Apply(r)
        PROVE  sequence' = sequence + 1
    BY <2>1 DEF Apply
  <2>2. ASSUME ~ \E r \in Requests : Apply(r)
        PROVE  sequence' = sequence
    BY <2>2 DEF Next, Serve, Complete, Issue, Select, SaveCompletion,
                SendCourseCompletion, LoadAccount, Submit, Submitted, Refused,
                SaveVerified, UpdateEnrollment, Catch, Throw, Fail, Drop,
                network, vars
  <2>3. QED BY <2>1, <2>2
<1>5. ASSUME NEW r \in Requests, pc'[r] = "submit" \/ r \in mempool'
      PROVE  seq'[r] <= sequence'
  <2>1. CASE LoadAccount(r)
    BY <1>0, <2>1 DEF LoadAccount, Step, network, TypeOK
  <2>2. CASE ~LoadAccount(r)
    <3>1. /\ pc[r] = "submit" \/ r \in mempool
          /\ seq'[r] = seq[r]
      <4>1. CASE r \in mempool' /\ r \notin mempool
        <5>1. pc[r] = "submit" /\ pc'[r] = "submitted"
          BY <4>1, Course
        <5>2. seq'[r] = seq[r]
          BY <5>1, Course
        <5>3. QED BY <5>1, <5>2
      <4>2. CASE r \in mempool
        BY <4>2, Course DEF FInv, Numbers
      <4>3. CASE pc'[r] = "submit"
        <5>1. pc[r] = "submit" /\ seq'[r] = seq[r]
          BY <2>2, <4>3, Course
        <5>2. QED BY <5>1
      <4>4. QED BY <1>5, <4>1, <4>2, <4>3
    <3>2. seq[r] <= sequence
      BY <3>1 DEF FInv, Numbers
    <3>3. QED BY <1>0, <1>4, <3>1, <3>2 DEF TypeOK
  <2>3. QED BY <2>1, <2>2
<1>6. ASSUME NEW s \in Nat, s < sequence'
      PROVE  \E q \in ledger' : seq'[q] = s
  <2>1. CASE s < sequence
    <3>1. PICK q \in ledger : seq[q] = s
      BY <2>1 DEF FInv, Numbers
    <3>2. q \in Requests /\ pc[q] \notin Before
      BY <1>0 DEF TypeOK, FInv, Numbers
    <3>3. q \in ledger' /\ seq'[q] = seq[q]
      BY <3>2, Course, Growth DEF FInv
    <3>4. QED BY <3>1, <3>3
  <2>2. CASE ~(s < sequence)
    <3>1. sequence' # sequence
      BY <1>6, <2>2
    <3>2. PICK r \in Requests : Apply(r)
      BY <1>4, <3>1
    <3>3. /\ seq[r] = sequence /\ sequence' = sequence + 1
          /\ r \in ledger' /\ seq'[r] = seq[r]
      BY <1>0, <3>2 DEF Apply, locals
    <3>4. s = sequence
      BY <1>0, <1>6, <2>2, <3>3 DEF TypeOK
    <3>5. QED BY <3>3, <3>4
  <2>3. QED BY <2>1, <2>2
<1>7. QED BY <1>1, <1>2, <1>3, <1>5, <1>6 DEF Numbers
\* Who was beaten stays beaten
LEMMA BeatenStays ==
    ASSUME FInv, [Next]_vars, NEW r \in Requests, Beaten(r), seq'[r] = seq[r]
    PROVE  Beaten(r)'
<1>1. PICK q \in ledger : q # r /\ seq[q] = seq[r]
  BY DEF Beaten
<1>2. q \in Requests /\ pc[q] \notin Before
  BY DEF FInv, IInv, TypeOK, Numbers
<1>3. q \in ledger' /\ seq'[q] = seq[q]
  BY <1>2, Course, Growth DEF FInv
<1>4. QED BY <1>1, <1>3 DEF Beaten

LEMMA FateStep ==
    ASSUME FInv, [Next]_vars, NEW r \in Requests, r \notin struck'
    PROVE  Fate(r)'
<1> USE DEF Step
<1>1. Fate(r)
  BY Course DEF FInv
<1>2. credentials \subseteq credentials' /\ TypeOK /\ ledger \cap mempool = {}
  BY Growth DEF FInv, IInv, Numbers
<1>3. ASSUME pc'[r] = pc[r], r \in mempool' <=> r \in mempool,
             r \in ledger' <=> r \in ledger
      PROVE  Fate(r)'
  <2>1. CASE pc[r] \in Before
    BY <1>3, <2>1 DEF Fate, Before
  <2>2. CASE pc[r] \notin Before
    <3>1. seq'[r] = seq[r]
      BY <2>2, Course
    <3>2. Beaten(r) => Beaten(r)'
      BY <3>1, BeatenStays
    <3>3. QED BY <1>1, <1>2, <1>3, <3>2 DEF Fate
  <2>3. QED BY <2>1, <2>2
<1>4. ASSUME NEW l \in Learners, Complete(r, l) \/ Issue(r, l)
      PROVE  Fate(r)'
  <2>1. pc'[r] \in {"save", "notFound", "load"}
    BY <1>2, <1>4 DEF Complete, Issue, TypeOK
  <2>2. QED BY <2>1 DEF Fate
<1>5. CASE Select(r) \/ SaveCompletion(r) \/ LoadAccount(r) \/ Submitted(r)
  <2>1. pc'[r] \in {"update", "completed", "submit", "saveVerified"}
    BY <1>2, <1>5 DEF Select, SaveCompletion, LoadAccount, Submitted, TypeOK
  <2>2. QED BY <2>1 DEF Fate
<1>6. CASE SendCourseCompletion(r)
  BY <1>3, <1>6 DEF SendCourseCompletion, network
<1>7. CASE Submit(r)
  <2>1. pc'[r] = "submitted" /\ r \in mempool'
    BY <1>2, <1>7 DEF Submit, TypeOK
  <2>2. QED BY <2>1 DEF Fate
<1>8. CASE Refused(r)
  <2>1. /\ pc[r] = "submitted" /\ pc'[r] = "catch"
        /\ r \notin ledger \cup mempool /\ UNCHANGED <<ledger, mempool, seq>>
    BY <1>2, <1>8 DEF Refused, TypeOK, network, locals
  <2>2. Beaten(r)'
    BY <1>1, <2>1, BeatenStays DEF Fate
  <2>3. QED BY <2>1, <2>2 DEF Fate
<1>9. CASE SaveVerified(r)
  <2>1. /\ pc'[r] = "updateEnrollment"
        /\ \E n \in credentials' : n.isVerified /\ n.txHash = r
    <3>1. pc'[r] = "updateEnrollment"
      BY <1>2, <1>9 DEF SaveVerified, TypeOK
    <3> DEFINE n == [id |-> r, learner |-> learner[r], txHash |-> r,
                     isVerified |-> TRUE]
    <3>2. n \in credentials'
      BY <1>9 DEF SaveVerified, Saved
    <3>3. n.isVerified /\ n.txHash = r
      OBVIOUS
    <3>4. QED BY <3>1, <3>2, <3>3
  <2>2. QED BY <2>1 DEF Fate
<1>10. CASE UpdateEnrollment(r)
  <2>1. /\ pc[r] = "updateEnrollment" /\ pc'[r] = "issued"
        /\ UNCHANGED <<ledger, mempool, credentials>>
    BY <1>2, <1>10 DEF UpdateEnrollment, TypeOK, network
  <2>2. r \in ledger
    BY <2>1 DEF FInv, IInv, Holds
  <2>3. QED BY <1>1, <1>2, <2>1, <2>2 DEF Fate
<1>11. CASE Catch(r)
  <2>1. /\ pc[r] = "catch" /\ pc'[r] = "issued" /\ UNCHANGED <<ledger, mempool>>
    BY <1>2, <1>11 DEF Catch, TypeOK, network
  <2>2. QED BY <1>1, <2>1 DEF Fate
<1>12. CASE Throw(r) \/ Fail(r)
  BY <1>12 DEF Throw, Fail
<1>13. CASE Apply(r) \/ Drop(r)
  <2>1. r \in mempool /\ pc'[r] = pc[r] /\ seq'[r] = seq[r] /\ credentials' = credentials
    BY <1>13 DEF Apply, Drop, locals, tables
  <2>2. pc[r] \notin {"catch", "issued", "updateEnrollment"}
    BY <1>1, <1>2, <2>1 DEF Fate, FInv, IInv, Holds
  <2>3. CASE Apply(r)
    BY <1>1, <2>1, <2>2, <2>3 DEF Fate, Apply
  <2>4. CASE Drop(r)
    <3>1. seq[r] # sequence
      BY <2>4 DEF Drop
    <3>2. seq[r] \in Nat /\ sequence \in Nat /\ seq[r] <= sequence
      BY <1>2, <2>1 DEF TypeOK, FInv, Numbers
    <3>3. seq[r] < sequence
      BY <3>1, <3>2
    <3>4. Beaten(r)
      BY <1>2, <2>1, <3>2, <3>3 DEF FInv, Numbers, Beaten
    <3>5. Beaten(r)'
      BY <2>1, <3>4, BeatenStays
    <3>6. QED BY <1>1, <2>1, <2>2, <3>5 DEF Fate
  <2>5. QED BY <1>13, <2>3, <2>4
<1>14. ASSUME NEW x \in Requests \ {r},
              \/ \E l \in Learners : Complete(x, l) \/ Issue(x, l)
              \/ Serve(x) \/ Throw(x) \/ Fail(x) \/ Apply(x) \/ Drop(x)
       PROVE  Fate(r)'
  <2>1. pc'[r] = pc[r]
    BY <1>2, <1>14
       DEF TypeOK, Serve, Complete, Issue, Select, SaveCompletion,
           SendCourseCompletion, LoadAccount, Submit, Submitted, Refused,
           SaveVerified, UpdateEnrollment, Catch, Throw, Fail, Apply, Drop
  <2>2. (r \in mempool' <=> r \in mempool) /\ (r \in ledger' <=> r \in ledger)
    BY <1>14
       DEF Serve, Complete, Issue, Select, SaveCompletion,
           SendCourseCompletion, LoadAccount, Submit, Submitted, Refused,
           SaveVerified, UpdateEnrollment, Catch, Throw, Fail, Apply, Drop, network
  <2>3. QED BY <1>3, <2>1, <2>2
<1>15. CASE UNCHANGED vars
  BY <1>3, <1>15 DEF vars, network
<1>16. QED
  BY <1>4, <1>5, <1>6, <1>7, <1>8, <1>9, <1>10, <1>11, <1>12, <1>13, <1>14, <1>15
     DEF Next, Serve

LEMMA RefusedStep ==
    ASSUME FInv, [Next]_vars
    PROVE  RefusedOnlyByOverlap'
<1> SUFFICES ASSUME NEW n \in credentials', ~n.isVerified, n.id \notin struck'
             PROVE  Beaten(n.id)'
  BY DEF RefusedOnlyByOverlap, Beaten
<1>1. n.id \in Requests /\ n.id \notin struck
  BY CredentialsTypeStep, Course DEF FInv, TypeOK
<1>2. CASE n \in credentials
  <2>1. Beaten(n.id)
    BY <1>1, <1>2 DEF FInv, RefusedOnlyByOverlap, Beaten
  <2>2. pc[n.id] \notin Before
    BY <1>2 DEF FInv, Numbers
  <2>3. QED BY <1>1, <2>1, <2>2, Course, BeatenStays
<1>3. CASE n \notin credentials
  <2>1. PICK r \in Requests : Catch(r)
    <3>1. ASSUME NEW r \in Requests, SaveVerified(r) PROVE FALSE
      BY <1>3, <3>1 DEF SaveVerified, Saved
    <3>2. credentials' # credentials
      BY <1>3
    <3>3. QED
      BY <3>1, <3>2
         DEF Next, Serve, Complete, Issue, Select, SaveCompletion,
             SendCourseCompletion, LoadAccount, Submit, Submitted, Refused,
             UpdateEnrollment, Throw, Fail, Apply, Drop, tables, vars
  <2>2. n.id = r /\ pc[r] = "catch" /\ UNCHANGED <<ledger, seq>>
    BY <1>3, <2>1 DEF Catch, Saved, Step, network, locals
  <2>3. Fate(r)
    BY <1>1, <2>2 DEF FInv
  <2>4. QED BY <2>2, <2>3, BeatenStays DEF Fate
<1>4. QED BY <1>2, <1>3

LEMMA FateInductive == Spec => []FInv
<1>1. Init => FInv
  BY CredentialsInit DEF Init, FInv, Numbers, Fate, RefusedOnlyByOverlap
<1>2. FInv /\ [Next]_vars => FInv'
  <2> SUFFICES ASSUME FInv, [Next]_vars PROVE FInv'
    OBVIOUS
  <2>1. IInv'
    BY CredentialsStep DEF FInv
  <2>2. \A r \in Requests \ struck' : Fate(r)'
    BY FateStep
  <2>3. QED BY <2>1, <2>2, NumbersStep, RefusedStep DEF FInv
<1>3. QED BY <1>1, <1>2, PTL DEF Spec

\* Without a failure of its own, an issuance ends unverified only because
\* another one that had loaded the same sequence number was applied
THEOREM OnlyByOverlap == Spec => []RefusedOnlyByOverlap
<1>1. FInv => RefusedOnlyByOverlap
  BY DEF FInv
<1>2. QED BY <1>1, FateInductive, PTL

\* What is on the ledger is in the table too, once its request was answered,
\* unless that request met a failure
THEOREM AppliedRecorded == Spec => []AppliedIsRecorded
<1>1. FInv => AppliedIsRecorded
  <2> SUFFICES ASSUME FInv, NEW r \in ledger \ struck, pc[r] \in Answers
               PROVE  \E n \in credentials : n.isVerified /\ n.txHash = r
    BY DEF AppliedIsRecorded
  <2>1. r \in Requests /\ pc[r] \notin Before
    BY DEF FInv, IInv, TypeOK, Numbers
  <2>2. QED BY <2>1 DEF FInv, Fate, Before, Answers
<1>2. QED BY <1>1, FateInductive, PTL
=============================================================================
