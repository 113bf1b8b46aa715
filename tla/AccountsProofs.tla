--------------------------- MODULE AccountsProofs ---------------------------
(***************************************************************************)
(* Proofs about Accounts, for any requests, addresses and workload, with   *)
(* and without failures and overlap.                                       *)
(***************************************************************************)
EXTENDS Accounts, TLAPS, FiniteSetTheorems

USE AccountsAssumption

----------------------------------------------------------------------------
(* Patches and rows *)

\* What an operation patches: never the address
Fits(r, p) ==
    /\ DOMAIN p \subseteq Columns \ {"email"}
    /\ \A c \in DOMAIN p : /\ p[c] \in Domain(c)
                           /\ c \in Secrets => p[c] \in {r, None}
    /\ "password" \in DOMAIN p => p.password = r

LEMMA PatchShape ==
    ASSUME NEW r \in Requests, req[r].op \in SaveOps \cup SetOps
    PROVE  Fits(r, Patch(r)) /\ Writes(r) = DOMAIN Patch(r)
  <1> DEFINE p == Patch(r)
  <1>a. r \in Names
      BY DEF Names, Ids
  <1>0. Writes(r) = DOMAIN p
      BY DEF Writes
  <1>1. ASSUME req[r].op = "update" PROVE Fits(r, p)
      <2>1. p = [firstName |-> r]
          BY <1>1 DEF Patch
      <2>2. DOMAIN p = {"firstName"}
          BY <2>1
      <2>3. p.firstName = r
          BY <2>1
      <2> QED BY <2>2, <2>3, <1>a DEF Fits, Columns, Secrets, Flags, Domain
  <1>2. ASSUME req[r].op = "changePassword" PROVE Fits(r, p)
      <2>1. p = [password |-> r]
          BY <1>2 DEF Patch
      <2>2. DOMAIN p = {"password"}
          BY <2>1
      <2>3. p.password = r
          BY <2>1
      <2> QED BY <2>2, <2>3, <1>a DEF Fits, Columns, Secrets, Flags, Domain
  <1>3. ASSUME req[r].op = "generateMfa" PROVE Fits(r, p)
      <2>1. p = [mfaSecret |-> r]
          BY <1>3 DEF Patch
      <2>2. DOMAIN p = {"mfaSecret"}
          BY <2>1
      <2>3. p.mfaSecret = r
          BY <2>1
      <2> QED BY <2>2, <2>3, <1>a DEF Fits, Columns, Secrets, Flags, Domain
  <1>4. ASSUME req[r].op = "enableMfa" PROVE Fits(r, p)
      <2>1. p = [isMfaEnabled |-> TRUE]
          BY <1>4 DEF Patch
      <2>2. DOMAIN p = {"isMfaEnabled"}
          BY <2>1
      <2>3. p.isMfaEnabled = TRUE
          BY <2>1
      <2> QED BY <2>2, <2>3, <1>a DEF Fits, Columns, Secrets, Flags, Domain
  <1>5. ASSUME req[r].op = "disableMfa" PROVE Fits(r, p)
      <2>1. p = [isMfaEnabled |-> FALSE, mfaSecret |-> None]
          BY <1>5 DEF Patch
      <2>2. DOMAIN p = {"isMfaEnabled", "mfaSecret"}
          BY <2>1
      <2>3. p.isMfaEnabled = FALSE /\ p.mfaSecret = None
          BY <2>1
      <2> QED BY <2>2, <2>3, <1>a DEF Fits, Columns, Secrets, Flags, Domain
  <1>6. ASSUME req[r].op = "forgotPassword" PROVE Fits(r, p)
      <2>1. p = [passwordResetToken |-> r]
          BY <1>6 DEF Patch
      <2>2. DOMAIN p = {"passwordResetToken"}
          BY <2>1
      <2>3. p.passwordResetToken = r
          BY <2>1
      <2> QED BY <2>2, <2>3, <1>a DEF Fits, Columns, Secrets, Flags, Domain
  <1>7. ASSUME req[r].op = "resetPassword" PROVE Fits(r, p)
      <2>1. p = [password |-> r, passwordResetToken |-> None]
          BY <1>7 DEF Patch
      <2>2. DOMAIN p = {"password", "passwordResetToken"}
          BY <2>1
      <2>3. p.password = r /\ p.passwordResetToken = None
          BY <2>1
      <2> QED BY <2>2, <2>3, <1>a DEF Fits, Columns, Secrets, Flags, Domain
  <1>8. ASSUME req[r].op = "verifyEmail" PROVE Fits(r, p)
      <2>1. p = [isEmailVerified |-> TRUE, emailVerificationToken |-> None]
          BY <1>8 DEF Patch
      <2>2. DOMAIN p = {"isEmailVerified", "emailVerificationToken"}
          BY <2>1
      <2>3. p.isEmailVerified = TRUE /\ p.emailVerificationToken = None
          BY <2>1
      <2> QED BY <2>2, <2>3, <1>a DEF Fits, Columns, Secrets, Flags, Domain
  <1>9. Fits(r, p)
      BY <1>1, <1>2, <1>3, <1>4, <1>5, <1>6, <1>7, <1>8 DEF SaveOps, SetOps
  <1> QED BY <1>0, <1>9

LEMMA DomainValue ==
    ASSUME NEW c \in Columns, NEW v \in Domain(c)
    PROVE  v \in Emails \cup BOOLEAN \cup Names \cup {None}
  BY DEF Domain

LEMMA AssignType ==
    ASSUME NEW r \in Requests, req[r].op \in SaveOps \cup SetOps, NEW row \in Row
    PROVE  Assign(row, Patch(r)) \in Row
  <1> DEFINE e == Assign(row, Patch(r))
  <1>1. \A c \in Columns : e[c] \in Domain(c)
      BY PatchShape DEF Assign, Row, Fits
  <1>2. e \in [Columns -> Emails \cup BOOLEAN \cup Names \cup {None}]
      BY <1>1, DomainValue DEF Assign
  <1> QED BY <1>1, <1>2 DEF Row

LEMMA NewUserType ==
    ASSUME NEW r \in Requests, req[r].email \in Emails
    PROVE  NewUser(r) \in Row
  <1> DEFINE e == NewUser(r)
  <1>1. \A c \in Columns : e[c] \in Domain(c)
      BY DEF NewUser, Domain, Columns, Flags, Secrets, Names, Ids
  <1>2. e \in [Columns -> Emails \cup BOOLEAN \cup Names \cup {None}]
      BY <1>1, DomainValue DEF NewUser
  <1> QED BY <1>1, <1>2 DEF Row

\* The row an UPDATE leaves
Updated(r) ==
    [c \in Columns |-> Changed(Assign(user[r], Patch(r))[c], old[r][c],
                               users[req[r].id][c])]

LEMMA UpdatedType ==
    ASSUME NEW r \in Requests, req[r].op \in SaveOps \cup SetOps,
           user[r] \in Row, users[req[r].id] \in Row
    PROVE  Updated(r) \in Row
  <1> DEFINE e == Updated(r)
  <1>1. Assign(user[r], Patch(r)) \in Row
      BY AssignType
  <1>2. \A c \in Columns : e[c] \in Domain(c)
      BY <1>1 DEF Updated, Changed, Row
  <1>3. e \in [Columns -> Emails \cup BOOLEAN \cup Names \cup {None}]
      BY <1>2, DomainValue DEF Updated
  <1> QED BY <1>2, <1>3 DEF Row

----------------------------------------------------------------------------
(* What each arrival leads to *)

LEMMA FindOneShape ==
    ASSUME NEW c, NEW v, NEW u \in FindOne(c, v)
    PROVE  \/ u = None
           \/ u \in Ids /\ users[u] # None /\ (v = None \/ users[u][c] = v)
  BY DEF FindOne

\* An arrival in one formula: what it looked up and where it goes
Arrived(r, op, u, e, g, next) ==
    /\ Arrive(r, op, u, e, g, next)
    /\ op \in Ops
    /\ u \in Ids \cup {None}
    /\ e \in Emails \cup {None}
    /\ g \in Names \cup {None}
    /\ next \in (Steps \ {"save"}) \cup Answers
    /\ next \in Steps => u \in Ids
    /\ next = "insert" => op = "register"
    /\ op = "register" => u = r /\ e \in Emails /\ next \in {"insert", "conflict"}
    /\ next = "set" => op \in SetOps /\ users[u] # None
    /\ op = "resetPassword" => g \in Names
    /\ op = "resetPassword" /\ u # None =>
         users[u] # None /\ users[u].passwordResetToken = g
    /\ op = "verifyEmail" /\ u # None =>
         users[u] # None /\ (g = None \/ users[u].emailVerificationToken = g)
    /\ next = "reload" => /\ op \in SaveOps /\ u \in Holders /\ users[u] # None
                          /\ op = "changePassword" => users[u].password = g
                          /\ op = "enableMfa" => users[u].mfaSecret = g
    /\ op \in {"changePassword", "enableMfa"} => g \in Names
    /\ op = "remove" => u \in Holders
    /\ next = "delete" => op = "remove"
    /\ next = "readAgain" => op = "verifyMfa"
    /\ op = "login" => /\ u = None => next = "unauthorized"
                       /\ u # None => /\ users[u] # None
                                      /\ (users[u].password # g) <=> (next = "unauthorized")
    /\ op = "verifyMfa" /\ users[u] # None =>
         (users[u].isMfaEnabled /\ users[u].mfaSecret = g => next = "readAgain")
    /\ next = "ok" => \/ op \in {"login", "refresh"}
                      \/ op = "forgotPassword" /\ u = None

LEMMA ArrivalShape ==
    ASSUME TypeOK, NEW r \in Requests, Arrival(r)
    PROVE  \E op, u, e, g, next : Arrived(r, op, u, e, g, next)
  <1> USE DEF Ops, SaveOps, SetOps, Steps, Answers
  <1>0. Holders \subseteq Ids
      BY DEF Holders, Ids
  <1>1. CASE Register(r)
      <2>1. PICK e \in Emails :
              Arrive(r, "register", r, e, None,
                     IF FindOne("email", e) = {None} THEN "insert" ELSE "conflict")
          BY <1>1 DEF Register
      <2> DEFINE next == IF FindOne("email", e) = {None} THEN "insert" ELSE "conflict"
      <2>2. Arrived(r, "register", r, e, None, next)
          BY <2>1 DEF Arrived, Ids
      <2> QED BY <2>2
  <1>2. CASE Login(r)
      <2>1. PICK e \in Emails, g \in Names : \E u \in FindOne("email", e) :
              Arrive(r, "login", u, None, g,
                     IF u = None THEN "unauthorized"
                     ELSE IF users[u].password # g THEN "unauthorized"
                     ELSE IF users[u].isMfaEnabled THEN "mfaRequired" ELSE "ok")
          BY <1>2 DEF Login
      <2>2. PICK u \in FindOne("email", e) :
              Arrive(r, "login", u, None, g,
                     IF u = None THEN "unauthorized"
                     ELSE IF users[u].password # g THEN "unauthorized"
                     ELSE IF users[u].isMfaEnabled THEN "mfaRequired" ELSE "ok")
          BY <2>1
      <2> DEFINE next == IF u = None THEN "unauthorized"
                         ELSE IF users[u].password # g THEN "unauthorized"
                         ELSE IF users[u].isMfaEnabled THEN "mfaRequired" ELSE "ok"
      <2>3. u = None \/ (u \in Ids /\ users[u] # None)
          BY FindOneShape
      <2>4. Arrived(r, "login", u, None, g, next)
          BY <2>2, <2>3 DEF Arrived
      <2> QED BY <2>4
  <1>3. CASE VerifyMfa(r)
      <2>1. PICK u \in Holders, g \in Names :
              Arrive(r, "verifyMfa", u, None, g,
                     IF users[u] = None THEN "notFound"
                     ELSE IF ~users[u].isMfaEnabled \/ users[u].mfaSecret # g
                     THEN "unauthorized" ELSE "readAgain")
          BY <1>3 DEF VerifyMfa
      <2> DEFINE next == IF users[u] = None THEN "notFound"
                         ELSE IF ~users[u].isMfaEnabled \/ users[u].mfaSecret # g
                         THEN "unauthorized" ELSE "readAgain"
      <2>2. Arrived(r, "verifyMfa", u, None, g, next)
          BY <2>1, <1>0 DEF Arrived
      <2> QED BY <2>2
  <1>4. CASE Refresh(r)
      <2>1. PICK u \in Holders :
              Arrive(r, "refresh", u, None, None,
                     IF users[u] = None THEN "unauthorized" ELSE "ok")
          BY <1>4 DEF Refresh
      <2> DEFINE next == IF users[u] = None THEN "unauthorized" ELSE "ok"
      <2>2. Arrived(r, "refresh", u, None, None, next)
          BY <2>1, <1>0 DEF Arrived
      <2> QED BY <2>2
  <1>5. CASE ForgotPassword(r)
      <2>1. PICK e \in Emails : \E u \in FindOne("email", e) :
              Arrive(r, "forgotPassword", u, None, None, IF u = None THEN "ok" ELSE "set")
          BY <1>5 DEF ForgotPassword
      <2>2. PICK u \in FindOne("email", e) :
              Arrive(r, "forgotPassword", u, None, None, IF u = None THEN "ok" ELSE "set")
          BY <2>1
      <2> DEFINE next == IF u = None THEN "ok" ELSE "set"
      <2>3. u = None \/ (u \in Ids /\ users[u] # None)
          BY FindOneShape
      <2>4. Arrived(r, "forgotPassword", u, None, None, next)
          BY <2>2, <2>3 DEF Arrived
      <2> QED BY <2>4
  <1>6. CASE ResetPassword(r)
      <2>1. PICK g \in Names : \E u \in FindOne("passwordResetToken", g) :
              Arrive(r, "resetPassword", u, None, g,
                     IF u = None \/ g \in expired THEN "badRequest" ELSE "set")
          BY <1>6 DEF ResetPassword
      <2>2. PICK u \in FindOne("passwordResetToken", g) :
              Arrive(r, "resetPassword", u, None, g,
                     IF u = None \/ g \in expired THEN "badRequest" ELSE "set")
          BY <2>1
      <2> DEFINE next == IF u = None \/ g \in expired THEN "badRequest" ELSE "set"
      <2>3. u = None \/ (u \in Ids /\ users[u] # None /\ users[u].passwordResetToken = g)
          BY FindOneShape DEF Names
      <2>4. Arrived(r, "resetPassword", u, None, g, next)
          BY <2>2, <2>3 DEF Arrived
      <2> QED BY <2>4
  <1>7. CASE VerifyEmail(r)
      <2>1. PICK g \in Names \cup {None} : \E u \in FindOne("emailVerificationToken", g) :
              Arrive(r, "verifyEmail", u, None, g,
                     IF u = None THEN "badRequest" ELSE "set")
          BY <1>7 DEF VerifyEmail
      <2>2. PICK u \in FindOne("emailVerificationToken", g) :
              Arrive(r, "verifyEmail", u, None, g,
                     IF u = None THEN "badRequest" ELSE "set")
          BY <2>1
      <2> DEFINE next == IF u = None THEN "badRequest" ELSE "set"
      <2>3. \/ u = None
            \/ /\ u \in Ids /\ users[u] # None
               /\ g = None \/ users[u].emailVerificationToken = g
          BY FindOneShape
      <2>4. Arrived(r, "verifyEmail", u, None, g, next)
          BY <2>2, <2>3 DEF Arrived
      <2> QED BY <2>4
  <1>8. CASE Remove(r)
      <2>1. PICK u \in Holders :
              Arrive(r, "remove", u, None, None,
                     IF users[u] = None THEN "notFound" ELSE "delete")
          BY <1>8 DEF Remove
      <2> DEFINE next == IF users[u] = None THEN "notFound" ELSE "delete"
      <2>2. Arrived(r, "remove", u, None, None, next)
          BY <2>1, <1>0 DEF Arrived
      <2> QED BY <2>2
  <1>9. ASSUME NEW op \in SaveOps, NEW g \in Names \cup {None}, ChangeOwn(r, op, g),
               op \in {"changePassword", "enableMfa"} => g \in Names
        PROVE  \E u, next : Arrived(r, op, u, None, g, next)
      <2>1. PICK u \in Holders :
              Arrive(r, op, u, None, g,
                     IF users[u] = None THEN "notFound"
                     ELSE IF Refuses(op, users[u], g) THEN "badRequest" ELSE "reload")
          BY <1>9 DEF ChangeOwn
      <2> DEFINE next == IF users[u] = None THEN "notFound"
                         ELSE IF Refuses(op, users[u], g) THEN "badRequest" ELSE "reload"
      <2>2. Arrived(r, op, u, None, g, next)
          BY <1>9, <2>1, <1>0 DEF Arrived, Refuses
      <2> QED BY <2>2
  <1>10. CASE Update(r)
      BY <1>9, <1>10 DEF Update
  <1>11. CASE ChangePassword(r)
      BY <1>9, <1>11 DEF ChangePassword
  <1>12. CASE GenerateMfa(r)
      BY <1>9, <1>12 DEF GenerateMfa
  <1>13. CASE EnableMfa(r)
      BY <1>9, <1>13 DEF EnableMfa
  <1>14. CASE DisableMfa(r)
      BY <1>9, <1>14 DEF DisableMfa
  <1> QED BY <1>1, <1>2, <1>3, <1>4, <1>5, <1>6, <1>7, <1>8, <1>10, <1>11,
             <1>12, <1>13, <1>14 DEF Arrival

LEMMA ArrivalEffect ==
    ASSUME TypeOK, NEW r \in Requests, NEW op, NEW u, NEW e, NEW g, NEW next,
           Arrived(r, op, u, e, g, next)
    PROVE  /\ pc[r] = "idle" /\ pc'[r] = next
           /\ next \in (Steps \ {"save"}) \cup Answers
           /\ req'[r] = [op |-> op, id |-> u, email |-> e, given |-> g]
           /\ req'[r] \in Call
           /\ next = "reload" => user'[r] = users[u] /\ users[u] \in Row
           /\ next # "reload" => user'[r] = user[r]
           /\ \A q \in Requests \ {r} :
                pc'[q] = pc[q] /\ req'[q] = req[q] /\ user'[q] = user[q]
           /\ UNCHANGED <<users, expired, old, crossed>>
           /\ DOMAIN pc' = Requests /\ DOMAIN req' = Requests /\ DOMAIN user' = Requests
  <1>1. Arrive(r, op, u, e, g, next)
      BY DEF Arrived
  <1>2. next \in (Steps \ {"save"}) \cup Answers
      BY DEF Arrived
  <1>3. pc' = [pc EXCEPT ![r] = next] /\ pc[r] = "idle"
      BY <1>1 DEF Arrive, Goto
  <1>4. req' = [req EXCEPT ![r] = [op |-> op, id |-> u, email |-> e, given |-> g]]
      BY <1>1 DEF Arrive
  <1>5. user' = IF next = "reload" THEN [user EXCEPT ![r] = users[u]] ELSE user
      BY <1>1 DEF Arrive
  <1>6. UNCHANGED <<users, expired, old, crossed>>
      BY <1>1 DEF Arrive
  <1>7. [op |-> op, id |-> u, email |-> e, given |-> g] \in Call
      BY DEF Arrived, Call
  <1>8. next = "reload" => u \in Ids /\ users[u] # None
      BY DEF Arrived, Steps
  <1>9. next = "reload" => users[u] \in Row
      BY <1>8 DEF TypeOK
  <1> QED BY <1>2, <1>3, <1>4, <1>5, <1>6, <1>7, <1>9 DEF TypeOK

----------------------------------------------------------------------------
(* Type correctness *)

LEMMA InitType == Init => TypeOK
  <1> SUFFICES ASSUME Init PROVE TypeOK
      OBVIOUS
  <1>1. PICK asked, generated, enabled \in BOOLEAN :
          users = [u \in Ids |-> IF u = Ann THEN AnnRow(asked, generated, enabled)
                                           ELSE None]
      BY DEF Init
  <1>2. Ann \in Ids /\ Ann \in Names
      BY DEF Ids, Names
  <1> DEFINE row == AnnRow(asked, generated, enabled)
  <1>4. \A c \in Columns : row[c] \in Domain(c)
      BY <1>2 DEF AnnRow, Domain, Flags, Columns, Secrets
  <1>5. row \in [Columns -> Emails \cup BOOLEAN \cup Names \cup {None}]
      BY <1>4, DomainValue DEF AnnRow
  <1>6. row \in Row
      BY <1>4, <1>5 DEF Row
  <1>8. users \in [Ids -> Row \cup {None}]
      BY <1>1, <1>6
  <1>9. \A r \in Requests : StepOK(r)
      BY DEF Init, StepOK, Steps
  <1> QED BY <1>8, <1>9 DEF Init, TypeOK

\* Only r moves, and it keeps its request
Moves(r, step) ==
    /\ pc[r] \in Steps
    /\ step \in Steps \cup Answers
    /\ pc' = [pc EXCEPT ![r] = step]
    /\ req' = req

LEMMA ServeMoves ==
    ASSUME NEW r \in Requests, Serve(r) \/ Fail(r)
    PROVE  \E step : Moves(r, step)
  <1>1. CASE Insert(r)
      <2>1. Moves(r, "ok") \/ Moves(r, "error")
          BY <1>1 DEF Insert, Moves, Goto, Steps, Answers, locals
      <2> QED BY <2>1
  <1>2. CASE Set(r)
      <2>1. Moves(r, "ok")
          BY <1>2 DEF Set, Moves, Goto, Steps, Answers, locals
      <2> QED BY <2>1
  <1>3. CASE Reload(r)
      <2>1. Moves(r, "save")
          BY <1>3 DEF Reload, Moves, Goto, Steps, Answers
      <2> QED BY <2>1
  <1>4. CASE Save(r)
      <2>1. Moves(r, "ok") \/ Moves(r, "error")
          BY <1>4 DEF Save, Moves, Goto, Steps, Answers
      <2> QED BY <2>1
  <1>5. CASE ReadAgain(r)
      <2>1. Moves(r, "ok") \/ Moves(r, "notFound")
          BY <1>5 DEF ReadAgain, Moves, Goto, Steps, Answers, locals
      <2> QED BY <2>1
  <1>6. CASE Delete(r)
      <2>1. Moves(r, "ok") \/ Moves(r, "error")
          BY <1>6 DEF Delete, Moves, Goto, Steps, Answers, locals
      <2> QED BY <2>1
  <1>7. CASE Fail(r)
      <2>1. Moves(r, "error")
          BY <1>7 DEF Fail, Moves, Goto, Steps, Answers
      <2> QED BY <2>1
  <1> QED BY <1>1, <1>2, <1>3, <1>4, <1>5, <1>6, <1>7 DEF Serve

LEMMA TypeStep == TypeOK /\ [Next]_vars => TypeOK'
  <1> SUFFICES ASSUME TypeOK, [Next]_vars PROVE TypeOK'
      OBVIOUS
  <1>1. ASSUME NEW r \in Requests, Arrival(r) PROVE TypeOK'
      <2>1. PICK op, u, e, g, next : Arrived(r, op, u, e, g, next)
          BY <1>1, ArrivalShape
      <2>2. Arrive(r, op, u, e, g, next)
          BY <2>1 DEF Arrived
      <2>3. /\ pc' \in [Requests -> {"idle"} \cup Steps \cup Answers]
            /\ req' \in [Requests -> Call \cup {None}]
            /\ user' \in [Requests -> Row \cup {None}]
          BY <2>1, <2>2, ArrivalEffect DEF TypeOK, Arrive, Goto
      <2>a. \A q \in Requests \ {r} :
                pc'[q] = pc[q] /\ req'[q] = req[q] /\ user'[q] = user[q]
          BY <2>1, ArrivalEffect
      <2>4. ASSUME NEW q \in Requests \ {r} PROVE StepOK(q)'
          <3>1. pc'[q] = pc[q] /\ req'[q] = req[q] /\ user'[q] = user[q]
              BY <2>a
          <3>2. StepOK(q)
              BY DEF TypeOK
          <3> QED BY <3>1, <3>2 DEF StepOK
      <2>5. StepOK(r)'
          <3>1. /\ pc'[r] = next /\ next # "idle" /\ next # "save" /\ req'[r] \in Call
                /\ req'[r].op = op /\ req'[r].id = u /\ req'[r].email = e
                /\ next = "reload" => user'[r] \in Row
              <4>1. /\ pc'[r] = next
                    /\ next \in (Steps \ {"save"}) \cup Answers
                    /\ req'[r] = [op |-> op, id |-> u, email |-> e, given |-> g]
                    /\ req'[r] \in Call
                    /\ next = "reload" => user'[r] = users[u] /\ users[u] \in Row
                  BY <2>1, ArrivalEffect
              <4> QED BY <4>1 DEF Steps, Answers
          <3>2. /\ next \in Steps => u \in Ids
                /\ next = "insert" => op = "register"
                /\ next = "set" => op \in SetOps
                /\ next = "reload" => op \in SaveOps
                /\ op = "register" => u = r /\ e \in Emails
              BY <2>1 DEF Arrived
          <3> QED BY <3>1, <3>2 DEF StepOK
      <2> QED BY <2>1, <2>3, <2>4, <2>5, ArrivalEffect DEF TypeOK
  <1>2. ASSUME NEW r \in Requests, Serve(r) \/ Fail(r) PROVE TypeOK'
      <2>1. PICK step : Moves(r, step)
          BY <1>2, ServeMoves
      <2>2. /\ pc' \in [Requests -> {"idle"} \cup Steps \cup Answers]
            /\ req' \in [Requests -> Call \cup {None}]
          BY <2>1 DEF TypeOK, Moves
      <2>3. req[r] \in Call /\ req[r].id \in Ids
          BY <2>1 DEF TypeOK, StepOK, Moves, Steps
      <2>4. /\ users' \in [Ids -> Row \cup {None}] /\ expired' \subseteq Names
            /\ user' \in [Requests -> Row \cup {None}]
            /\ old' \in [Requests -> Row \cup {None}]
            /\ crossed' \subseteq Ids \X Columns
            /\ \A q \in Requests : StepOK(q)'
          <3>1. CASE Insert(r)
              <4>1. NewUser(r) \in Row
                  BY <3>1, NewUserType DEF Insert, TypeOK, StepOK, Steps
              <4> QED BY <3>1, <4>1 DEF Insert, TypeOK, Goto, locals, StepOK, Steps
          <3>2. CASE Set(r)
              <4>1. users[req[r].id] # None => Assign(users[req[r].id], Patch(r)) \in Row
                  BY <3>2, <2>3, AssignType DEF Set, TypeOK, StepOK
              <4>2. users' \in [Ids -> Row \cup {None}]
                  BY <3>2, <4>1, <2>3 DEF Set, TypeOK
              <4> QED BY <3>2, <4>2 DEF Set, TypeOK, Goto, locals, StepOK, Steps
          <3>3. CASE Reload(r)
              BY <3>3, <2>3 DEF Reload, TypeOK, Goto, StepOK, Steps
          <3>4. CASE Save(r)
              <4> DEFINE u == req[r].id
                         w == Assign(user[r], Patch(r))
              <4>1. user[r] \in Row /\ req[r].op \in SaveOps
                  BY <3>4 DEF Save, TypeOK, StepOK
              <4>2. w \in Row
                  BY <4>1, AssignType
              <4>3. users[u] # None => Updated(r) \in Row
                  BY <4>1, <2>3, UpdatedType DEF TypeOK
              <4>4. \/ UNCHANGED users
                    \/ users' = [users EXCEPT ![u] = w]
                    \/ users[u] # None /\ users' = [users EXCEPT ![u] = Updated(r)]
                  BY <3>4 DEF Save, Updated
              <4>5. users' \in [Ids -> Row \cup {None}]
                  BY <4>2, <4>3, <4>4 DEF TypeOK
              <4>6. crossed' \subseteq Ids \X Columns
                  BY <3>4, <2>3 DEF Save, TypeOK, Crossings
              <4>7. /\ user' \in [Requests -> Row \cup {None}]
                    /\ old' \in [Requests -> Row \cup {None}] /\ expired' \subseteq Names
                  BY <3>4 DEF Save, TypeOK
              <4>8. pc'[r] \in {"ok", "error"} /\ req' = req
                    /\ \A q \in Requests \ {r} : pc'[q] = pc[q] /\ user'[q] = user[q]
                  BY <3>4 DEF Save, TypeOK, Goto
              <4>9. \A q \in Requests : StepOK(q)'
                  BY <4>1, <4>8, <2>3 DEF TypeOK, StepOK, Steps, SaveOps
              <4> QED BY <4>5, <4>6, <4>7, <4>9
          <3>5. CASE ReadAgain(r)
              BY <3>5 DEF ReadAgain, TypeOK, Goto, locals, StepOK, Steps
          <3>6. CASE Delete(r)
              BY <3>6 DEF Delete, TypeOK, Goto, locals, StepOK, Steps
          <3>7. CASE Fail(r)
              BY <3>7 DEF Fail, TypeOK, Goto, StepOK, Steps
          <3> QED BY <1>2, <3>1, <3>2, <3>3, <3>4, <3>5, <3>6, <3>7 DEF Serve
      <2> QED BY <2>2, <2>4 DEF TypeOK
  <1>3. ASSUME NEW t \in Names, Lapse(t) PROVE TypeOK'
      BY <1>3 DEF Lapse, TypeOK, StepOK, locals
  <1>4. CASE UNCHANGED vars
      BY <1>4 DEF vars, locals, TypeOK, StepOK
  <1> QED BY <1>1, <1>2, <1>3, <1>4 DEF Next

\* What every request holds, and every row, is of the right kind
\* (users.entity.ts), at every step of every handler
THEOREM AccountsType == Spec => []TypeOK
  BY InitType, TypeStep, PTL DEF Spec
----------------------------------------------------------------------------
(* What a step leaves alone *)

LEMMA RequestStays ==
    ASSUME TypeOK, [Next]_vars, NEW q \in Requests, pc[q] # "idle"
    PROVE  /\ req'[q] = req[q]
           /\ pc'[q] # "idle"
           /\ pc[q] \in Answers => pc'[q] = pc[q]
  <1>1. ASSUME NEW r \in Requests, Arrival(r)
        PROVE  req'[q] = req[q] /\ pc'[q] = pc[q]
      <2>1. PICK op, u, e, g, next : Arrived(r, op, u, e, g, next)
          BY <1>1, ArrivalShape
      <2>2. /\ pc[r] = "idle"
            /\ \A p \in Requests \ {r} :
                 pc'[p] = pc[p] /\ req'[p] = req[p] /\ user'[p] = user[p]
          BY <2>1, ArrivalEffect
      <2> QED BY <2>2
  <1>2. ASSUME NEW r \in Requests, Serve(r) \/ Fail(r)
        PROVE  /\ req'[q] = req[q] /\ pc'[q] # "idle"
               /\ pc[q] \in Answers => pc'[q] = pc[q]
      <2>1. PICK step : Moves(r, step)
          BY <1>2, ServeMoves
      <2> QED BY <2>1 DEF Moves, TypeOK, Steps, Answers
  <1>3. ASSUME NEW t \in Names, Lapse(t)
        PROVE  req'[q] = req[q] /\ pc'[q] = pc[q]
      BY <1>3 DEF Lapse, locals
  <1>4. CASE UNCHANGED vars
      BY <1>4 DEF vars, locals
  <1> QED BY <1>1, <1>2, <1>3, <1>4 DEF Next

LEMMA PatchStays ==
    ASSUME NEW q \in Requests, req'[q] = req[q]
    PROVE  /\ Patch(q)' = Patch(q)
           /\ NewUser(q)' = NewUser(q)
           /\ Writes(q)' = Writes(q)
           /\ Spends(q)' = Spends(q)
           /\ \A c : Written(q, c)' = Written(q, c)
  BY DEF Patch, NewUser, Writes, Written, Spends

LEMMA HolderStays ==
    ASSUME TypeOK, [Next]_vars, NEW u \in Holders
    PROVE  u \in Holders' /\ u \in Ids
  <1>1. CASE u = Ann
      BY <1>1 DEF Holders, Ids
  <1>2. CASE u # Ann
      <2>1. /\ u \in Requests /\ req[u] # None
            /\ req[u].op = "register" /\ pc[u] = "ok"
          BY <1>2 DEF Holders
      <2>2. req'[u] = req[u] /\ pc'[u] = pc[u]
          BY <2>1, RequestStays DEF Answers
      <2> QED BY <2>1, <2>2 DEF Holders, Ids
  <1> QED BY <1>1, <1>2

LEMMA OtherWriterStays ==
    ASSUME TypeOK, [Next]_vars, NEW r \in Requests, pc[r] # "idle", NEW c,
           OtherWriter(r, c)
    PROVE  OtherWriter(r, c)'
  <1>1. PICK q \in Requests \ {r} :
          pc[q] # "idle" /\ req[q].id = req[r].id /\ c \in Writes(q)
      BY DEF OtherWriter
  <1>2. req'[q] = req[q] /\ pc'[q] # "idle" /\ req'[r] = req[r]
      BY <1>1, RequestStays
  <1>3. Writes(q)' = Writes(q)
      BY <1>2, PatchStays
  <1>4. pc'[q] # "idle" /\ req'[q].id = req'[r].id /\ c \in Writes(q)'
      BY <1>1, <1>2, <1>3
  <1> QED BY <1>4 DEF OtherWriter

----------------------------------------------------------------------------
(* The handlers of a step, and whom they act for *)

\* A handler that is to write a row, or remove one, acts for a holder
HandlerInv ==
    \A r \in Requests :
      /\ pc[r] = "readAgain" => req[r].op = "verifyMfa"
      /\ pc[r] = "delete" => req[r].op = "remove"
      /\ pc[r] \in {"reload", "save"} => req[r].id \in Holders
      /\ pc[r] # "idle" /\ req[r].op = "remove" => req[r].id \in Holders

LEMMA InitHandler == Init => HandlerInv
  BY DEF Init, HandlerInv

LEMMA HandlerStep == TypeOK /\ HandlerInv /\ [Next]_vars => HandlerInv'
  <1> SUFFICES ASSUME TypeOK, HandlerInv, [Next]_vars, NEW q \in Requests
               PROVE  /\ pc'[q] = "readAgain" => req'[q].op = "verifyMfa"
                      /\ pc'[q] = "delete" => req'[q].op = "remove"
                      /\ pc'[q] \in {"reload", "save"} => req'[q].id \in Holders'
                      /\ pc'[q] # "idle" /\ req'[q].op = "remove" =>
                           req'[q].id \in Holders'
      BY DEF HandlerInv
  <1> DEFINE OK == /\ pc'[q] = "readAgain" => req'[q].op = "verifyMfa"
                   /\ pc'[q] = "delete" => req'[q].op = "remove"
                   /\ pc'[q] \in {"reload", "save"} => req'[q].id \in Holders
                   /\ pc'[q] # "idle" /\ req'[q].op = "remove" =>
                        req'[q].id \in Holders
  <1>0. /\ pc[q] = "readAgain" => req[q].op = "verifyMfa"
        /\ pc[q] = "delete" => req[q].op = "remove"
        /\ pc[q] \in {"reload", "save"} => req[q].id \in Holders
        /\ pc[q] # "idle" /\ req[q].op = "remove" => req[q].id \in Holders
      BY DEF HandlerInv
  <1>1. ASSUME NEW r \in Requests, Arrival(r) PROVE OK
      <2>1. PICK op, u, e, g, next : Arrived(r, op, u, e, g, next)
          BY <1>1, ArrivalShape
      <2>2. /\ pc'[r] = next
            /\ next \in (Steps \ {"save"}) \cup Answers
            /\ req'[r] = [op |-> op, id |-> u, email |-> e, given |-> g]
            /\ \A p \in Requests \ {r} :
                 pc'[p] = pc[p] /\ req'[p] = req[p] /\ user'[p] = user[p]
          BY <2>1, ArrivalEffect
      <2>3. CASE q = r
          <3>1. /\ next = "readAgain" => op = "verifyMfa"
                /\ next = "delete" => op = "remove"
                /\ next = "reload" => u \in Holders
                /\ op = "remove" => u \in Holders
              BY <2>1 DEF Arrived
          <3>2. req'[r].op = op /\ req'[r].id = u /\ next # "save"
              BY <2>2 DEF Answers
          <3> QED BY <2>2, <2>3, <3>1, <3>2
      <2>4. CASE q # r
          BY <2>2, <2>4, <1>0
      <2> QED BY <2>3, <2>4
  <1>2. ASSUME NEW r \in Requests, Serve(r) \/ Fail(r) PROVE OK
      <2>1. PICK step : Moves(r, step)
          BY <1>2, ServeMoves
      <2>2. pc'[r] # "readAgain" /\ pc'[r] # "delete" /\ pc'[r] # "reload"
            /\ (pc'[r] = "save" => pc[r] = "reload")
          <3>1. CASE Insert(r)
              BY <3>1 DEF Insert, Goto, TypeOK
          <3>2. CASE Set(r)
              BY <3>2 DEF Set, Goto, TypeOK
          <3>3. CASE Reload(r)
              BY <3>3 DEF Reload, Goto, TypeOK
          <3>4. CASE Save(r)
              BY <3>4 DEF Save, Goto, TypeOK
          <3>5. CASE ReadAgain(r)
              BY <3>5 DEF ReadAgain, Goto, TypeOK
          <3>6. CASE Delete(r)
              BY <3>6 DEF Delete, Goto, TypeOK
          <3>7. CASE Fail(r)
              BY <3>7 DEF Fail, Goto, TypeOK
          <3> QED BY <1>2, <3>1, <3>2, <3>3, <3>4, <3>5, <3>6, <3>7 DEF Serve
      <2>3. req' = req /\ \A p \in Requests \ {r} : pc'[p] = pc[p]
          BY <2>1 DEF Moves, TypeOK
      <2>4. pc[r] # "idle"
          BY <2>1 DEF Moves, Steps
      <2> QED BY <2>2, <2>3, <2>4, <1>0
  <1>3. ASSUME NEW t \in Names, Lapse(t) PROVE OK
      BY <1>3, <1>0 DEF Lapse, locals
  <1>4. ASSUME UNCHANGED vars PROVE OK
      BY <1>4, <1>0 DEF vars, locals
  <1>5. OK
      BY <1>1, <1>2, <1>3, <1>4 DEF Next
  <1> QED BY <1>5, HolderStays

----------------------------------------------------------------------------
(* One account per address *)

EmailOf(u) == IF u = Ann THEN AnnEmail ELSE req[u].email

\* A row belongs to a holder and keeps the address it was registered with, and
\* so do the copies a save works on
EmailInv ==
    /\ \A u \in Ids : users[u] # None => u \in Holders /\ users[u].email = EmailOf(u)
    /\ \A r \in Requests :
         pc[r] \in {"reload", "save"} => user[r].email = EmailOf(req[r].id)
    /\ \A r \in Requests :
         pc[r] = "save" /\ old[r] # None => old[r].email = EmailOf(req[r].id)

LEMMA InitEmail == Init => EmailInv /\ UniqueEmail
  <1> SUFFICES ASSUME Init PROVE EmailInv /\ UniqueEmail
      OBVIOUS
  <1>1. PICK asked, generated, enabled \in BOOLEAN :
          users = [u \in Ids |-> IF u = Ann THEN AnnRow(asked, generated, enabled)
                                           ELSE None]
      BY DEF Init
  <1>2. \A r \in Requests : pc[r] = "idle"
      BY DEF Init
  <1>3. AnnRow(asked, generated, enabled).email = AnnEmail
      BY DEF AnnRow, Columns
  <1> QED BY <1>1, <1>2, <1>3 DEF EmailInv, UniqueEmail, EmailOf, Holders

LEMMA EmailOfStays ==
    ASSUME TypeOK, [Next]_vars, NEW u \in Holders
    PROVE  EmailOf(u)' = EmailOf(u)
  <1>1. CASE u = Ann
      BY <1>1 DEF EmailOf
  <1>2. CASE u # Ann
      <2>1. u \in Requests /\ pc[u] = "ok"
          BY <1>2 DEF Holders
      <2>2. req'[u] = req[u]
          BY <2>1, RequestStays
      <2> QED BY <1>2, <2>2 DEF EmailOf
  <1> QED BY <1>1, <1>2

\* Assigning a patch keeps the address
LEMMA PatchKeepsEmail ==
    ASSUME NEW r \in Requests, req[r].op \in SaveOps \cup SetOps, NEW row
    PROVE  Assign(row, Patch(r)).email = row.email
  <1>1. "email" \notin DOMAIN Patch(r)
      BY PatchShape DEF Fits
  <1> QED BY <1>1 DEF Assign, Columns

\* How the addresses in table users change in one step
LEMMA EmailOfRow ==
    ASSUME TypeOK, HandlerInv, EmailInv, [Next]_vars, NEW u \in Ids, users'[u] # None
    PROVE  \/ users[u] # None /\ users'[u].email = users[u].email
           \/ /\ users[u] = None
              /\ u \in Holders' /\ users'[u].email = EmailOf(u)'
              /\ ~EmailTaken(users'[u].email)
              /\ \A v \in Ids \ {u} : users'[v] = users[v]
  <1> DEFINE Same == users[u] # None /\ users'[u].email = users[u].email
             New == /\ users[u] = None
                    /\ u \in Holders' /\ users'[u].email = EmailOf(u)'
                    /\ ~EmailTaken(users'[u].email)
                    /\ \A v \in Ids \ {u} : users'[v] = users[v]
  <1>0. users' = users => Same
      OBVIOUS
  <1>1. ASSUME NEW r \in Requests, Arrival(r) PROVE Same \/ New
      <2>1. PICK op, x, e, g, next : Arrived(r, op, x, e, g, next)
          BY <1>1, ArrivalShape
      <2>2. UNCHANGED <<users, expired, old, crossed>>
          BY <2>1, ArrivalEffect
      <2> QED BY <2>2, <1>0
  <1>2. ASSUME NEW r \in Requests, Insert(r) PROVE Same \/ New
      <2>1. CASE users' = users
          BY <2>1, <1>0
      <2>2. CASE users' = [users EXCEPT ![r] = NewUser(r)] /\ ~EmailTaken(req[r].email)
                 /\ pc' = [pc EXCEPT ![r] = "ok"]
          <3>1. r \in Ids /\ r # Ann
              BY DEF Ids
          <3>2. NewUser(r).email = req[r].email
              BY DEF NewUser, Columns
          <3>3. req[r] \in Call /\ req[r].op = "register" /\ req' = req
              BY <1>2 DEF Insert, TypeOK, StepOK, locals, Steps
          <3>4. r \in Holders'
              BY <2>2, <3>3 DEF Holders, TypeOK
          <3>5. users[r] = None
              BY <1>2 DEF Insert
          <3>6. CASE u = r
              <4>1. users'[u] = NewUser(r) /\ \A v \in Ids \ {u} : users'[v] = users[v]
                  BY <2>2, <3>1, <3>6 DEF TypeOK
              <4>2. EmailOf(u)' = req[r].email
                  BY <3>1, <3>3, <3>6 DEF EmailOf
              <4> QED BY <2>2, <3>2, <3>4, <3>5, <3>6, <4>1, <4>2
          <3>7. CASE u # r
              BY <3>7, <2>2 DEF TypeOK
          <3> QED BY <3>6, <3>7
      <2> QED BY <1>2, <2>1, <2>2 DEF Insert, Goto
  <1>3. ASSUME NEW r \in Requests, Set(r) PROVE Same
      <2>1. req[r].op \in SetOps /\ req[r].id \in Ids
          BY <1>3 DEF Set, TypeOK, StepOK, Steps
      <2>2. \A row : Assign(row, Patch(r)).email = row.email
          BY <2>1, PatchKeepsEmail
      <2> QED BY <1>3, <2>1, <2>2 DEF Set, TypeOK
  <1>4. ASSUME NEW r \in Requests, Save(r) PROVE Same \/ New
      <2> DEFINE x == req[r].id
                 w == Assign(user[r], Patch(r))
      <2>1. /\ pc[r] = "save" /\ req[r].op \in SaveOps /\ x \in Ids /\ req' = req
            /\ user[r] \in Row
          BY <1>4 DEF Save, TypeOK, StepOK, Steps
      <2>2. x \in Holders /\ user[r].email = EmailOf(x)
            /\ (old[r] # None => old[r].email = EmailOf(x))
          BY <2>1 DEF HandlerInv, EmailInv
      <2>9. \A y \in Holders : y \in Holders' /\ EmailOf(y)' = EmailOf(y)
          BY HolderStays, EmailOfStays
      <2>3. w.email = EmailOf(x)
          BY <2>1, <2>2, PatchKeepsEmail
      <2>4. \A y \in Ids : y = x => y \in Holders' /\ EmailOf(y)' = EmailOf(x)
          BY <2>2, <2>9
      <2>5. CASE users' = users
          BY <2>5, <1>0
      <2>6. CASE /\ users[x] = None /\ ~EmailTaken(w.email)
                 /\ users' = [users EXCEPT ![x] = w]
          <3>1. CASE u = x
              BY <2>1, <2>3, <2>4, <2>6, <3>1 DEF TypeOK
          <3>2. CASE u # x
              BY <2>6, <3>2 DEF TypeOK
          <3> QED BY <3>1, <3>2
      <2>7. CASE /\ users[x] # None /\ old[r] # None
                 /\ users' = [users EXCEPT ![x] = Updated(r)]
          <3>1. Updated(r).email = users[x].email
              BY <2>2, <2>3, <2>7 DEF Updated, Changed, Columns
          <3> QED BY <2>1, <2>7, <3>1 DEF TypeOK
      <2>8. \/ users' = users
            \/ users[x] = None /\ ~EmailTaken(w.email) /\ users' = [users EXCEPT ![x] = w]
            \/ users[x] # None /\ old[r] # None /\ users' = [users EXCEPT ![x] = Updated(r)]
          BY <1>4 DEF Save, Updated
      <2> QED BY <2>5, <2>6, <2>7, <2>8
  <1>5. ASSUME NEW r \in Requests, Delete(r) PROVE Same
      <2>1. req[r].id \in Ids
          BY <1>5 DEF Delete, TypeOK, StepOK, Steps
      <2> QED BY <1>5, <2>1 DEF Delete, TypeOK
  <1>6. ASSUME NEW r \in Requests, Reload(r) \/ ReadAgain(r) \/ Fail(r) PROVE Same
      BY <1>6, <1>0 DEF Reload, ReadAgain, Fail
  <1>7. ASSUME NEW t \in Names, Lapse(t) PROVE Same
      BY <1>7, <1>0 DEF Lapse
  <1>8. CASE UNCHANGED vars
      BY <1>8, <1>0 DEF vars
  <1> QED BY <1>1, <1>2, <1>3, <1>4, <1>5, <1>6, <1>7, <1>8 DEF Next, Serve

LEMMA UniqueStep ==
    TypeOK /\ HandlerInv /\ EmailInv /\ UniqueEmail /\ [Next]_vars => UniqueEmail'
  <1> SUFFICES ASSUME TypeOK, HandlerInv, EmailInv, UniqueEmail, [Next]_vars,
                      NEW u \in Ids, NEW v \in Ids,
                      users'[u] # None, users'[v] # None,
                      users'[u].email = users'[v].email, u # v
               PROVE  FALSE
      BY DEF UniqueEmail
  <1>1. \/ users[u] # None /\ users'[u].email = users[u].email
        \/ /\ ~EmailTaken(users'[u].email)
           /\ \A x \in Ids \ {u} : users'[x] = users[x]
      BY EmailOfRow
  <1>2. \/ users[v] # None /\ users'[v].email = users[v].email
        \/ /\ ~EmailTaken(users'[v].email)
           /\ \A x \in Ids \ {v} : users'[x] = users[x]
      BY EmailOfRow
  <1>3. ASSUME NEW x \in Ids, NEW y \in Ids, x # y, users'[y] # None,
               users'[x].email = users'[y].email, ~EmailTaken(users'[x].email),
               \A z \in Ids \ {x} : users'[z] = users[z]
        PROVE  FALSE
      <2>1. users[y] # None /\ users[y].email = users'[x].email
          BY <1>3
      <2> QED BY <1>3, <2>1 DEF EmailTaken
  <1>4. CASE /\ users[u] # None /\ users'[u].email = users[u].email
             /\ users[v] # None /\ users'[v].email = users[v].email
      BY <1>4 DEF UniqueEmail
  <1> QED BY <1>1, <1>2, <1>3, <1>4

LEMMA EmailStep ==
    TypeOK /\ HandlerInv /\ EmailInv /\ [Next]_vars => EmailInv'
  <1> SUFFICES ASSUME TypeOK, HandlerInv, EmailInv, [Next]_vars PROVE EmailInv'
      OBVIOUS
  <1>1. ASSUME NEW u \in Ids, users'[u] # None
        PROVE  u \in Holders' /\ users'[u].email = EmailOf(u)'
      <2>1. CASE users[u] # None /\ users'[u].email = users[u].email
          <3>1. u \in Holders /\ users[u].email = EmailOf(u)
              BY <2>1 DEF EmailInv
          <3> QED BY <2>1, <3>1, HolderStays, EmailOfStays
      <2>2. CASE u \in Holders' /\ users'[u].email = EmailOf(u)'
          BY <2>2
      <2> QED BY <1>1, <2>1, <2>2, EmailOfRow
  <1>2. ASSUME NEW q \in Requests
        PROVE  /\ pc'[q] \in {"reload", "save"} => user'[q].email = EmailOf(req[q].id)'
               /\ pc'[q] = "save" /\ old'[q] # None =>
                    old'[q].email = EmailOf(req[q].id)'
      <2> DEFINE OK == /\ pc'[q] \in {"reload", "save"} =>
                            user'[q].email = EmailOf(req[q].id)'
                       /\ pc'[q] = "save" /\ old'[q] # None =>
                            old'[q].email = EmailOf(req[q].id)'
      <2>0. ASSUME pc'[q] = pc[q], user'[q] = user[q], old'[q] = old[q]
            PROVE  OK
          <3> SUFFICES ASSUME pc[q] \in {"reload", "save"} PROVE OK
              BY <2>0
          <3>1. req'[q] = req[q]
              BY RequestStays
          <3>2. req[q].id \in Holders
              BY DEF HandlerInv
          <3>a. PICK x : x = req[q].id
              OBVIOUS
          <3>3. EmailOf(x)' = EmailOf(x)
              BY <3>a, <3>2, EmailOfStays
          <3>4. EmailOf(req[q].id)' = EmailOf(req[q].id)
              BY <3>a, <3>1, <3>3 DEF EmailOf
          <3> QED BY <2>0, <3>4 DEF EmailInv
      <2>1. ASSUME NEW r \in Requests, Arrival(r) PROVE OK
          <3>1. PICK op, u, e, g, next : Arrived(r, op, u, e, g, next)
              BY <2>1, ArrivalShape
          <3>2. /\ pc[r] = "idle" /\ pc'[r] = next
                /\ next \in (Steps \ {"save"}) \cup Answers
                /\ req'[r] = [op |-> op, id |-> u, email |-> e, given |-> g]
                /\ next = "reload" => user'[r] = users[u] /\ users[u] \in Row
                /\ \A p \in Requests \ {r} :
                     pc'[p] = pc[p] /\ req'[p] = req[p] /\ user'[p] = user[p]
                /\ UNCHANGED <<users, expired, old, crossed>>
              BY <3>1, ArrivalEffect
          <3>3. CASE q # r
              BY <3>2, <3>3, <2>0
          <3>4. CASE q = r /\ next = "reload"
              <4>1. u \in Ids /\ u \in Holders /\ users[u] # None
                  BY <3>1, <3>4 DEF Arrived, Steps
              <4>2. users[u].email = EmailOf(u) /\ EmailOf(u)' = EmailOf(u)
                  BY <4>1, EmailOfStays DEF EmailInv
              <4>3. req'[q].id = u
                  BY <3>2, <3>4
              <4>4. EmailOf(req[q].id)' = EmailOf(u)'
                  BY <4>3 DEF EmailOf
              <4> QED BY <3>2, <3>4, <4>2, <4>4
          <3>5. CASE q = r /\ next # "reload"
              BY <3>2, <3>5 DEF Answers
          <3> QED BY <3>3, <3>4, <3>5
      <2>2. ASSUME NEW r \in Requests, Reload(r) PROVE OK
          <3>1. CASE q # r
              BY <2>2, <3>1, <2>0 DEF Reload, Goto, TypeOK
          <3>2. CASE q = r
              <4>1. /\ pc[r] = "reload" /\ req' = req /\ user' = user
                    /\ old'[r] = users[req[r].id] /\ req[r].id \in Ids
                  BY <2>2 DEF Reload, TypeOK, StepOK, Steps
              <4>2. /\ req[r].id \in Holders /\ user[r].email = EmailOf(req[r].id)
                  BY <4>1 DEF HandlerInv, EmailInv
              <4>a. PICK x : x = req[r].id
                  OBVIOUS
              <4>3. EmailOf(x)' = EmailOf(x)
                  BY <4>a, <4>2, EmailOfStays
              <4>4. EmailOf(req[r].id)' = EmailOf(req[r].id)
                  BY <4>a, <4>1, <4>3 DEF EmailOf
              <4>5. users[req[r].id] # None => users[req[r].id].email = EmailOf(req[r].id)
                  BY <4>1 DEF EmailInv
              <4> QED BY <3>2, <4>1, <4>2, <4>4, <4>5
          <3> QED BY <3>1, <3>2
      <2>3. ASSUME NEW r \in Requests,
                   Insert(r) \/ Set(r) \/ ReadAgain(r) \/ Delete(r)
            PROVE  OK
          <3>1. /\ pc'[r] \notin {"reload", "save"} /\ user' = user /\ old' = old
                /\ \A p \in Requests \ {r} : pc'[p] = pc[p]
              BY <2>3 DEF Insert, Set, ReadAgain, Delete, Goto, locals, TypeOK
          <3> QED BY <3>1, <2>0
      <2>4. ASSUME NEW r \in Requests, Save(r) \/ Fail(r) PROVE OK
          <3>1. /\ pc'[r] \notin {"reload", "save"}
                /\ \A p \in Requests \ {r} :
                     pc'[p] = pc[p] /\ user'[p] = user[p] /\ old'[p] = old[p]
              BY <2>4 DEF Save, Fail, Goto, TypeOK
          <3> QED BY <3>1, <2>0
      <2>5. ASSUME NEW t \in Names, Lapse(t) PROVE OK
          BY <2>5, <2>0 DEF Lapse, locals
      <2>6. CASE UNCHANGED vars
          BY <2>6, <2>0 DEF vars, locals
      <2> QED BY <2>1, <2>2, <2>3, <2>4, <2>5, <2>6 DEF Next, Serve
  <1> QED BY <1>1, <1>2 DEF EmailInv

\* However requests overlap and fail, an address has one account
\* (users.service.ts, create and the saves; UNIQUE in the migration)
THEOREM OneAccount == Spec => []UniqueEmail
  <1> DEFINE I == TypeOK /\ HandlerInv /\ EmailInv /\ UniqueEmail
  <1>1. Init => I
      BY InitType, InitHandler, InitEmail
  <1>2. I /\ [Next]_vars => I'
      BY TypeStep, HandlerStep, EmailStep, UniqueStep
  <1>3. I => UniqueEmail
      OBVIOUS
  <1> QED BY <1>1, <1>2, <1>3, PTL DEF Spec
----------------------------------------------------------------------------
(* How one column changes *)

\* What request x wrote to column c of account u, x being done with it
WroteColumn(x, u, c) ==
    /\ pc[x] \in Steps /\ pc'[x] = "ok" /\ req'[x] = req[x]
    /\ req[x].id = u
    /\ c \in Writes(x)
    /\ users'[u][c] = Written(x, c)

LEMMA SetOrSave ==
    ASSUME NEW x \in Requests, req[x].op \in SaveOps \cup SetOps
    PROVE  /\ Writes(x) = DOMAIN Patch(x)
           /\ \A c : Written(x, c) = Patch(x)[c]
           /\ \A row : \A c \in Columns :
                Assign(row, Patch(x))[c] =
                  IF c \in Writes(x) THEN Written(x, c) ELSE row[c]
  <1>1. req[x].op # "register"
      BY DEF SaveOps, SetOps
  <1>2. Writes(x) = DOMAIN Patch(x)
      BY PatchShape
  <1> QED BY <1>1, <1>2 DEF Written, Assign

\* A save writes what the request set out to write, or else crosses
LEMMA SavedColumn ==
    ASSUME TypeOK, NEW x \in Requests, Save(x), NEW c \in Columns,
           users'[req[x].id] # None
    PROVE  \/ <<req[x].id, c>> \in crossed'
           \/ users' = users /\ pc'[x] = "error"
           \/ /\ users[req[x].id] # None /\ pc'[x] = "ok"
              /\ users[req[x].id][c] = user[x][c]
              /\ users[req[x].id][c] = old[x][c]
              /\ users'[req[x].id][c] = IF c \in Writes(x) THEN Written(x, c)
                                        ELSE users[req[x].id][c]
  <1> DEFINE u == req[x].id
             w == Assign(user[x], Patch(x))
  <1>1. req[x].op \in SaveOps /\ u \in Ids /\ pc[x] = "save"
      BY DEF Save, TypeOK, StepOK, Steps
  <1>2. w[c] = IF c \in Writes(x) THEN Written(x, c) ELSE user[x][c]
      BY <1>1, SetOrSave
  <1>3. CASE users' = users /\ pc' = [pc EXCEPT ![x] = "error"]
      BY <1>3 DEF TypeOK
  <1>4. CASE crossed' = crossed \cup ({u} \X Columns)
      BY <1>4
  <1>5. CASE users[u] = None /\ users' = users
      BY <1>5
  <1>6. CASE /\ users[u] # None /\ pc' = [pc EXCEPT ![x] = "ok"]
             /\ users' = [users EXCEPT ![u] = Updated(x)]
             /\ crossed' = crossed \cup ({u} \X Crossings(users[u], x))
      <2>1. CASE c \in Crossings(users[u], x)
          BY <2>1, <1>6
      <2>2. CASE c \notin Crossings(users[u], x)
          <3>1. users[u][c] = user[x][c] /\ users[u][c] = old[x][c]
              BY <2>2 DEF Crossings
          <3>2. users'[u] = Updated(x)
              BY <1>1, <1>6 DEF TypeOK
          <3>3. users'[u][c] = Changed(w[c], old[x][c], users[u][c])
              BY <3>2 DEF Updated
          <3>4. users'[u][c] = w[c]
              BY <3>1, <3>3 DEF Changed
          <3>5. pc'[x] = "ok"
              BY <1>6 DEF TypeOK
          <3> QED BY <1>2, <1>6, <3>1, <3>4, <3>5
      <2> QED BY <2>1, <2>2
  <1> QED BY <1>3, <1>4, <1>5, <1>6 DEF Save, Goto, Updated

LEMMA ColumnStep ==
    ASSUME TypeOK, [Next]_vars, NEW u \in Ids, users'[u] # None, NEW c \in Columns
    PROVE  \/ users[u] # None /\ users'[u][c] = users[u][c]
           \/ <<u, c>> \in crossed' /\ \E x \in Requests : Save(x) /\ req[x].id = u
           \/ \E x \in Requests : WroteColumn(x, u, c)
  <1> DEFINE Same == users[u] # None /\ users'[u][c] = users[u][c]
             Crossed == <<u, c>> \in crossed' /\ \E x \in Requests : Save(x) /\ req[x].id = u
             Wrote == \E x \in Requests : WroteColumn(x, u, c)
             Goal == Same \/ Crossed \/ Wrote
  <1>0. users' = users => Same
      OBVIOUS
  <1>1. ASSUME NEW r \in Requests, Arrival(r) PROVE Goal
      <2>1. PICK op, x, e, g, next : Arrived(r, op, x, e, g, next)
          BY <1>1, ArrivalShape
      <2>2. UNCHANGED <<users, expired, old, crossed>>
          BY <2>1, ArrivalEffect
      <2> QED BY <2>2, <1>0
  <1>2. ASSUME NEW r \in Requests, Insert(r) PROVE Goal
      <2>1. CASE users' = users \/ u # r
          BY <1>2, <2>1, <1>0 DEF Insert, TypeOK
      <2>2. CASE users' # users /\ u = r
          <3>1. /\ users' = [users EXCEPT ![r] = NewUser(r)]
                /\ pc' = [pc EXCEPT ![r] = "ok"] /\ req' = req /\ pc[r] = "insert"
              BY <1>2, <2>2 DEF Insert, Goto, locals
          <3>2. req[r].op = "register" /\ req[r].id = r
              BY <3>1 DEF TypeOK, StepOK, Steps
          <3>3. c \in Writes(r) /\ Written(r, c) = NewUser(r)[c]
              BY <3>2 DEF Writes, Written, SaveOps, SetOps
          <3>4. users'[u][c] = Written(r, c)
              BY <3>1, <3>3, <2>2 DEF TypeOK
          <3>5. pc'[r] = "ok" /\ pc[r] \in Steps
              BY <3>1 DEF TypeOK, Steps
          <3> QED BY <3>1, <3>2, <3>3, <3>4, <3>5, <2>2 DEF WroteColumn
      <2> QED BY <2>1, <2>2
  <1>3. ASSUME NEW r \in Requests, Set(r) PROVE Goal
      <2>1. /\ req[r].op \in SetOps /\ req[r].id \in Ids /\ req' = req
            /\ pc[r] \in Steps /\ pc'[r] = "ok"
          BY <1>3 DEF Set, TypeOK, StepOK, Steps, Goto, locals
      <2>2. CASE users' = users \/ u # req[r].id
          BY <1>3, <2>2, <2>1, <1>0 DEF Set, TypeOK
      <2>3. CASE users' # users /\ u = req[r].id
          <3>1. /\ users[u] # None
                /\ users'[u] = Assign(users[u], Patch(r))
              BY <1>3, <2>3, <2>1 DEF Set, TypeOK
          <3>2. users'[u][c] = IF c \in Writes(r) THEN Written(r, c) ELSE users[u][c]
              BY <3>1, <2>1, SetOrSave
          <3> QED BY <2>1, <2>3, <3>1, <3>2 DEF WroteColumn
      <2> QED BY <2>2, <2>3
  <1>4. ASSUME NEW r \in Requests, Save(r) PROVE Goal
      <2>1. req[r].id \in Ids /\ req' = req /\ pc[r] \in Steps
          BY <1>4 DEF Save, TypeOK, StepOK, Steps
      <2>2. CASE u # req[r].id
          BY <1>4, <2>1, <2>2 DEF Save, TypeOK
      <2>3. CASE u = req[r].id
          <3>1. \/ <<u, c>> \in crossed'
                \/ users' = users
                \/ /\ users[u] # None /\ pc'[r] = "ok"
                   /\ users'[u][c] = IF c \in Writes(r) THEN Written(r, c)
                                     ELSE users[u][c]
              BY <1>4, <2>3, SavedColumn
          <3> QED BY <1>4, <2>1, <2>3, <3>1, <1>0 DEF WroteColumn
      <2> QED BY <2>2, <2>3
  <1>5. ASSUME NEW r \in Requests, Delete(r) PROVE Goal
      <2>1. req[r].id \in Ids
          BY <1>5 DEF Delete, TypeOK, StepOK, Steps
      <2> QED BY <1>5, <2>1, <1>0 DEF Delete, TypeOK
  <1>6. ASSUME NEW r \in Requests, Reload(r) \/ ReadAgain(r) \/ Fail(r) PROVE Goal
      BY <1>6, <1>0 DEF Reload, ReadAgain, Fail
  <1>7. ASSUME NEW t \in Names, Lapse(t) PROVE Goal
      BY <1>7, <1>0 DEF Lapse
  <1>8. CASE UNCHANGED vars
      BY <1>8, <1>0 DEF vars
  <1> QED BY <1>1, <1>2, <1>3, <1>4, <1>5, <1>6, <1>7, <1>8 DEF Next, Serve

LEMMA CrossedStays ==
    ASSUME TypeOK, [Next]_vars PROVE crossed \subseteq crossed'
  <1>1. ASSUME NEW r \in Requests, Arrival(r) PROVE crossed' = crossed
      <2>1. PICK op, x, e, g, next : Arrived(r, op, x, e, g, next)
          BY <1>1, ArrivalShape
      <2> QED BY <2>1, ArrivalEffect
  <1> QED BY <1>1 DEF Next, Serve, Insert, Set, Reload, Save, ReadAgain, Delete,
                      Fail, Lapse, vars

\* A request that becomes answered in a step: how it got there
LEMMA Finishes ==
    ASSUME TypeOK, HandlerInv, [Next]_vars, NEW r \in Requests,
           pc[r] # "ok", pc'[r] = "ok"
    PROVE  \/ /\ pc[r] = "idle" /\ UNCHANGED <<users, crossed>>
              /\ Writes(r)' = {} \/ req'[r].id = None
              /\ Spends(r)' = {} /\ req'[r].op # "remove" /\ req'[r].op # "enableMfa"
           \/ /\ pc[r] \in Steps /\ req' = req
              /\ Insert(r) \/ Set(r) \/ Save(r) \/ ReadAgain(r) \/ Delete(r)
              /\ \A q \in Requests \ {r} : pc'[q] = pc[q]
  <1>1. ASSUME NEW x \in Requests, Arrival(x)
        PROVE  /\ pc[r] = "idle" /\ UNCHANGED <<users, crossed>>
               /\ Writes(r)' = {} \/ req'[r].id = None
               /\ Spends(r)' = {} /\ req'[r].op # "remove" /\ req'[r].op # "enableMfa"
      <2>1. PICK op, u, e, g, next : Arrived(x, op, u, e, g, next)
          BY <1>1, ArrivalShape
      <2>2. /\ pc[x] = "idle" /\ pc'[x] = next
            /\ req'[x] = [op |-> op, id |-> u, email |-> e, given |-> g]
            /\ \A q \in Requests \ {x} :
                 pc'[q] = pc[q] /\ req'[q] = req[q] /\ user'[q] = user[q]
            /\ UNCHANGED <<users, expired, old, crossed>>
          BY <2>1, ArrivalEffect
      <2>3. x = r /\ next = "ok"
          BY <2>2
      <2>4. op \in {"login", "refresh"} \/ (op = "forgotPassword" /\ u = None)
          BY <2>1, <2>3 DEF Arrived
      <2>5. req'[r].op = op /\ req'[r].id = u
          BY <2>2, <2>3
      <2> QED BY <2>2, <2>3, <2>4, <2>5 DEF Writes, Spends, SaveOps, SetOps
  <1>2. ASSUME NEW x \in Requests, Serve(x) \/ Fail(x)
        PROVE  /\ pc[r] \in Steps /\ req' = req
               /\ Insert(r) \/ Set(r) \/ Save(r) \/ ReadAgain(r) \/ Delete(r)
               /\ \A q \in Requests \ {r} : pc'[q] = pc[q]
      <2>1. PICK step : Moves(x, step)
          BY <1>2, ServeMoves
      <2>2. x = r
          BY <2>1 DEF Moves, TypeOK
      <2>3. pc[r] \in Steps /\ req' = req /\ \A q \in Requests \ {r} : pc'[q] = pc[q]
          BY <2>1, <2>2 DEF Moves, TypeOK
      <2>4. ~Fail(r) /\ ~Reload(r)
          BY DEF Fail, Reload, Goto, TypeOK
      <2> QED BY <1>2, <2>2, <2>3, <2>4 DEF Serve
  <1>3. ASSUME NEW t \in Names, Lapse(t) PROVE FALSE
      BY <1>3 DEF Lapse
  <1>4. CASE UNCHANGED vars
      BY <1>4 DEF vars
  <1> QED BY <1>1, <1>2, <1>3, <1>4 DEF Next

\* What a request that finishes leaves in the columns it writes
LEMMA OwnWrite ==
    ASSUME TypeOK, HandlerInv, [Next]_vars, NEW r \in Requests,
           pc[r] \in Steps, pc'[r] = "ok", req[r].id \in Ids,
           users'[req[r].id] # None, NEW c \in Writes(r), c \in Columns
    PROVE  \/ <<req[r].id, c>> \in crossed'
           \/ users'[req[r].id][c] = Written(r, c)
  <1> DEFINE u == req[r].id
  <1>1. Insert(r) \/ Set(r) \/ Save(r) \/ ReadAgain(r) \/ Delete(r)
      BY Finishes DEF Steps
  <1>2. CASE Insert(r)
      <2>1. /\ users' = [users EXCEPT ![r] = NewUser(r)] /\ pc[r] = "insert"
          BY <1>2 DEF Insert, Goto, TypeOK
      <2>2. req[r].op = "register" /\ u = r
          BY <2>1 DEF TypeOK, StepOK, Steps
      <2> QED BY <2>1, <2>2 DEF Written, TypeOK
  <1>3. CASE Set(r)
      <2>1. req[r].op \in SetOps
          BY <1>3 DEF Set, TypeOK, StepOK
      <2>2. users'[u] = Assign(users[u], Patch(r))
          BY <1>3 DEF Set, TypeOK
      <2>3. \A row : \A k \in Columns :
                Assign(row, Patch(r))[k] =
                  IF k \in Writes(r) THEN Written(r, k) ELSE row[k]
          BY <2>1, SetOrSave
      <2> QED BY <2>2, <2>3
  <1>4. CASE Save(r)
      <2>1. \/ <<u, c>> \in crossed'
            \/ users' = users /\ pc'[r] = "error"
            \/ users'[u][c] = IF c \in Writes(r) THEN Written(r, c) ELSE users[u][c]
          BY <1>4, SavedColumn
      <2> QED BY <2>1
  <1>5. CASE ReadAgain(r)
      <2>1. req[r].op = "verifyMfa"
          BY <1>5 DEF ReadAgain, HandlerInv
      <2> QED BY <2>1 DEF Writes, SaveOps, SetOps
  <1>6. CASE Delete(r)
      <2>1. req[r].op = "remove"
          BY <1>6 DEF Delete, HandlerInv
      <2> QED BY <2>1 DEF Writes, SaveOps, SetOps
  <1> QED BY <1>1, <1>2, <1>3, <1>4, <1>5, <1>6

LEMMA WritesColumns ==
    ASSUME NEW r \in Requests PROVE Writes(r) \subseteq Columns
  <1>1. CASE req[r].op \in SaveOps \cup SetOps
      BY <1>1, PatchShape DEF Fits
  <1>2. CASE req[r].op \notin SaveOps \cup SetOps
      BY <1>2 DEF Writes
  <1> QED BY <1>1, <1>2
----------------------------------------------------------------------------
(* What was answered as written holds *)

LEMMA InitWrites == Init => AnsweredWritesHold
  BY DEF Init, AnsweredWritesHold

\* A column written by another request, or crossed, stays excused
LEMMA ColumnHolds ==
    ASSUME TypeOK, [Next]_vars, NEW r \in Requests, pc[r] = "ok",
           NEW u \in Ids, req[r].id = u, users'[u] # None,
           NEW c \in Columns, NEW v,
           users[u] # None =>
             users[u][c] = v \/ OtherWriter(r, c) \/ <<u, c>> \in crossed
    PROVE  users'[u][c] = v \/ OtherWriter(r, c)' \/ <<u, c>> \in crossed'
  <1>1. CASE users[u] # None /\ users'[u][c] = users[u][c]
      BY <1>1, OtherWriterStays, CrossedStays
  <1>2. CASE \E x \in Requests : WroteColumn(x, u, c)
      <2>1. PICK x \in Requests : WroteColumn(x, u, c)
          BY <1>2
      <2>2. x # r /\ pc'[x] # "idle"
          BY <2>1 DEF WroteColumn, Steps
      <2>3. Writes(x)' = Writes(x) /\ req'[x] = req[x]
          BY <2>1, PatchStays DEF WroteColumn
      <2>4. req'[r] = req[r]
          BY RequestStays
      <2>5. OtherWriter(r, c)'
          BY <2>1, <2>2, <2>3, <2>4 DEF OtherWriter, WroteColumn
      <2> QED BY <2>5
  <1> QED BY <1>1, <1>2, ColumnStep

LEMMA WritesStep ==
    TypeOK /\ HandlerInv /\ EmailInv /\ AnsweredWritesHold /\ [Next]_vars
      => AnsweredWritesHold'
  <1> SUFFICES ASSUME TypeOK, HandlerInv, EmailInv, AnsweredWritesHold, [Next]_vars,
                      NEW r \in Requests, pc'[r] = "ok", req'[r].id # None,
                      NEW u, u = req'[r].id
               PROVE  /\ users'[u] # None =>
                           \A c \in Writes(r)' : \/ users'[u][c] = Written(r, c)'
                                                 \/ OtherWriter(r, c)'
                                                 \/ <<u, c>> \in crossed'
                      /\ req'[r].op = "remove" =>
                           users'[u] = None \/ {u} \X Columns \subseteq crossed'
      BY DEF AnsweredWritesHold
  <1>0. u \in Ids /\ TypeOK'
      <2>1. TypeOK'
          BY TypeStep
      <2>2. req'[r] \in Call
          BY <2>1 DEF TypeOK, StepOK
      <2> QED BY <2>1, <2>2 DEF Call
  <1>1. CASE pc[r] = "ok"
      <2>1. req'[r] = req[r]
          BY <1>1, RequestStays
      <2>2. /\ Writes(r)' = Writes(r) /\ Writes(r) \subseteq Columns
            /\ \A c : Written(r, c)' = Written(r, c)
          BY <2>1, PatchStays, WritesColumns
      <2>3. /\ users[u] # None =>
                 \A c \in Writes(r) : \/ users[u][c] = Written(r, c)
                                      \/ OtherWriter(r, c)
                                      \/ <<u, c>> \in crossed
            /\ req[r].op = "remove" => users[u] = None \/ {u} \X Columns \subseteq crossed
          BY <1>1, <2>1 DEF AnsweredWritesHold
      <2>4. ASSUME users'[u] # None, NEW c \in Writes(r)
            PROVE  users'[u][c] = Written(r, c) \/ OtherWriter(r, c)' \/ <<u, c>> \in crossed'
          <3>a. PICK v : v = Written(r, c)
              OBVIOUS
          <3>1. users[u] # None =>
                  users[u][c] = v \/ OtherWriter(r, c) \/ <<u, c>> \in crossed
              BY <2>3, <2>4, <3>a
          <3>2. req[r].id = u /\ c \in Columns
              BY <2>1, <2>2, <2>4
          <3>3. users'[u][c] = v \/ OtherWriter(r, c)' \/ <<u, c>> \in crossed'
              BY <1>0, <1>1, <2>4, <3>1, <3>2, ColumnHolds
          <3> QED BY <3>a, <3>3
      <2>5. ASSUME req[r].op = "remove"
            PROVE  users'[u] = None \/ {u} \X Columns \subseteq crossed'
          <3>1. CASE {u} \X Columns \subseteq crossed
              BY <3>1, CrossedStays
          <3>2. CASE users[u] = None /\ users'[u] # None
              <4>1. u \in Holders
                  BY <1>1, <2>1, <2>5 DEF HandlerInv
              <4>2. ASSUME NEW c \in Columns PROVE <<u, c>> \in crossed'
                  <5>1. CASE \E x \in Requests : WroteColumn(x, u, c)
                      <6>1. PICK x \in Requests : WroteColumn(x, u, c)
                          BY <5>1
                      <6>2. pc[x] \in Steps /\ pc'[x] = "ok" /\ req[x].id = u
                          BY <6>1 DEF WroteColumn
                      <6>3. pc[x] # "ok" /\ pc[x] # "idle"
                          BY <6>2 DEF Steps
                      <6>4. Insert(x) \/ Set(x) \/ Save(x) \/ ReadAgain(x) \/ Delete(x)
                          BY <6>2, <6>3, Finishes
                      <6>5. CASE Insert(x)
                          <7>1. pc[x] = "insert"
                              BY <6>5 DEF Insert
                          <7>2. req[x].op = "register" /\ u = x
                              BY <6>2, <7>1 DEF TypeOK, StepOK, Steps
                          <7> QED BY <4>1, <7>1, <7>2 DEF Holders
                      <6>6. CASE Set(x)
                          BY <6>2, <6>6, <3>2 DEF Set
                      <6>7. CASE Save(x)
                          BY <6>2, <6>7, <3>2, SavedColumn DEF TypeOK
                      <6>8. CASE ReadAgain(x)
                          BY <6>8, <3>2 DEF ReadAgain
                      <6>9. CASE Delete(x)
                          BY <6>2, <6>9, <3>2, <1>0 DEF Delete, TypeOK
                      <6> QED BY <6>4, <6>5, <6>6, <6>7, <6>8, <6>9
                  <5> QED BY <5>1, <3>2, <1>0, ColumnStep
              <4> QED BY <4>2
          <3> QED BY <2>3, <2>5, <3>1, <3>2
      <2> QED BY <2>1, <2>2, <2>4, <2>5
  <1>2. CASE pc[r] # "ok"
      <2>1. CASE Writes(r)' = {} /\ req'[r].op # "remove"
          BY <2>1
      <2>2. CASE /\ pc[r] \in Steps /\ req' = req
                 /\ Insert(r) \/ Set(r) \/ Save(r) \/ ReadAgain(r) \/ Delete(r)
          <3>1. /\ Writes(r)' = Writes(r) /\ Writes(r) \subseteq Columns
                /\ \A c : Written(r, c)' = Written(r, c)
              BY <2>2, PatchStays, WritesColumns
          <3>2. ASSUME users'[u] # None, NEW c \in Writes(r)
                PROVE  users'[u][c] = Written(r, c) \/ <<u, c>> \in crossed'
              BY <1>0, <2>2, <3>1, <3>2, OwnWrite
          <3>3. ASSUME req[r].op = "remove" PROVE users'[u] = None
              <4>1. Delete(r)
                  <5>1. ~Insert(r) /\ ~Set(r) /\ ~Save(r)
                      BY <3>3 DEF Insert, Set, Save, TypeOK, StepOK, Steps, SaveOps, SetOps
                  <5>2. ~ReadAgain(r)
                      BY <3>3 DEF ReadAgain, HandlerInv
                  <5> QED BY <2>2, <5>1, <5>2
              <4>2. users' = [users EXCEPT ![req[r].id] = None]
                  BY <4>1 DEF Delete, Goto, TypeOK
              <4> QED BY <1>0, <2>2, <4>2 DEF TypeOK
          <3> QED BY <2>2, <3>1, <3>2, <3>3
      <2> QED BY <1>2, <2>1, <2>2, Finishes
  <1> QED BY <1>1, <1>2

\* What the service answered it has written stays written, and a removed
\* account stays away, but for other writers and for the columns a save of a
\* whole stale entity crossed (users.service.ts, every save)
THEOREM AnsweredHold == Spec => []AnsweredWritesHold
  <1> DEFINE I == TypeOK /\ HandlerInv /\ EmailInv /\ AnsweredWritesHold
  <1>1. Init => I
      BY InitType, InitHandler, InitEmail, InitWrites
  <1>2. I /\ [Next]_vars => I'
      BY TypeStep, HandlerStep, EmailStep, WritesStep
  <1> QED BY <1>1, <1>2, PTL DEF Spec

----------------------------------------------------------------------------
(* What was spent stays spent *)

\* Whoever has been answered: the names that can be in a row
Settled == {Ann} \cup {q \in Requests : pc[q] \in Answers}

\* Secrets in rows and in handlers' copies were made by answered requests, and
\* so was what a request that spends a secret presented
SettledInv ==
    /\ \A u \in Ids : users[u] # None =>
         \A c \in Secrets : users[u][c] \in Settled \cup {None}
    /\ \A r \in Requests :
         /\ pc[r] \in {"reload", "save"} =>
              \A c \in Secrets : user[r][c] \in Settled \cup {None}
         /\ pc[r] \in Steps \cup {"ok"} /\ Spends(r) # {} =>
              req[r].given \in Settled /\ req[r].id \in Ids

LEMMA InitSettled == Init => SettledInv /\ SpentStaysSpent
  <1> SUFFICES ASSUME Init PROVE SettledInv /\ SpentStaysSpent
      OBVIOUS
  <1>1. PICK asked, generated, enabled \in BOOLEAN :
          users = [u \in Ids |-> IF u = Ann THEN AnnRow(asked, generated, enabled)
                                           ELSE None]
      BY DEF Init
  <1>2. \A c \in Secrets : AnnRow(asked, generated, enabled)[c] \in {Ann, None}
      BY DEF AnnRow, Columns, Secrets
  <1>3. \A r \in Requests : pc[r] = "idle"
      BY DEF Init
  <1> QED BY <1>1, <1>2, <1>3 DEF SettledInv, SpentStaysSpent, Settled, Steps

LEMMA SettledStays ==
    ASSUME TypeOK, [Next]_vars PROVE Settled \subseteq Settled'
  <1>1. ASSUME NEW q \in Requests, pc[q] \in Answers PROVE pc'[q] \in Answers
      <2>1. pc[q] # "idle"
          BY <1>1 DEF Answers
      <2> QED BY <1>1, <2>1, RequestStays
  <1> QED BY <1>1 DEF Settled

LEMMA WrittenSecret ==
    ASSUME NEW x \in Requests, NEW c \in Secrets, c \in Writes(x)
    PROVE  Written(x, c) \in {x, None} /\ c \in Columns
  <1>0. c \in Columns /\ c # "email" /\ c \notin Flags
      BY DEF Columns, Secrets, Flags
  <1>1. CASE req[x].op = "register"
      BY <1>0, <1>1 DEF Written, NewUser
  <1>2. CASE req[x].op \in SaveOps \cup SetOps
      BY <1>0, <1>2, PatchShape, SetOrSave DEF Fits
  <1> QED BY <1>0, <1>1, <1>2 DEF Writes

\* The secrets of a row after a step: as before, or copied by a save, or new
LEMMA SecretStep ==
    ASSUME TypeOK, HandlerInv, SettledInv, [Next]_vars, NEW u \in Ids,
           users'[u] # None, NEW c \in Secrets
    PROVE  users'[u][c] \in Settled' \cup {None}
  <1> DEFINE Good(v) == v \in Settled' \cup {None}
  <1>0. /\ c \in Columns
        /\ users[u] # None => Good(users[u][c])
        /\ \A r \in Requests : pc[r] = "save" => Good(user[r][c])
      BY SettledStays DEF SettledInv, Secrets, Columns
  <1>1. ASSUME NEW x \in Requests, pc'[x] = "ok", c \in Writes(x) PROVE Good(Written(x, c))
      <2>1. Written(x, c) \in {x, None}
          BY <1>1, WrittenSecret
      <2> QED BY <1>1, <2>1 DEF Settled, Answers
  <1>2. ASSUME NEW r \in Requests, Save(r), u = req[r].id PROVE Good(users'[u][c])
      <2> DEFINE w == Assign(user[r], Patch(r))
      <2>1. req[r].op \in SaveOps /\ u \in Ids /\ pc[r] = "save"
          BY <1>2 DEF Save, TypeOK, StepOK, Steps
      <2>2. CASE users' = users
          BY <2>2, <1>0
      <2>3. CASE users' # users
          <3>1. pc'[r] = "ok"
              BY <1>2, <2>3 DEF Save, Goto, TypeOK
          <3>2. w[c] = IF c \in Writes(r) THEN Written(r, c) ELSE user[r][c]
              BY <1>0, <2>1, SetOrSave
          <3>3. Good(w[c])
              BY <3>1, <3>2, <2>1, <1>0, <1>1
          <3>4. \/ users'[u] = w
                \/ users[u] # None /\ users'[u] = Updated(r)
              BY <1>2, <2>1, <2>3 DEF Save, Updated, TypeOK
          <3>5. users'[u][c] = w[c] \/ (users[u] # None /\ users'[u][c] = users[u][c])
              BY <3>4, <1>0, <1>2 DEF Updated, Changed
          <3> QED BY <3>3, <3>5, <1>0
      <2> QED BY <2>2, <2>3
  <1>4. CASE \E x \in Requests : WroteColumn(x, u, c)
      BY <1>4, <1>1 DEF WroteColumn
  <1>5. CASE users[u] # None /\ users'[u][c] = users[u][c]
      BY <1>5, <1>0
  <1> QED BY <1>0, <1>2, <1>4, <1>5, ColumnStep

LEMMA WhoArrives ==
    ASSUME TypeOK, [Next]_vars, NEW r \in Requests, pc[r] = "idle", pc'[r] # "idle"
    PROVE  \E op, u, e, g, next : Arrived(r, op, u, e, g, next)
  <1>1. ASSUME NEW x \in Requests, Arrival(x)
        PROVE  \E op, u, e, g, next : Arrived(r, op, u, e, g, next)
      <2>1. PICK op, u, e, g, next : Arrived(x, op, u, e, g, next)
          BY <1>1, ArrivalShape
      <2>2. \A q \in Requests \ {x} :
                 pc'[q] = pc[q] /\ req'[q] = req[q] /\ user'[q] = user[q]
          BY <2>1, ArrivalEffect
      <2>3. x = r
          BY <2>2
      <2> QED BY <2>1, <2>3
  <1>2. ASSUME NEW x \in Requests, Serve(x) \/ Fail(x) PROVE FALSE
      <2>1. PICK step : Moves(x, step)
          BY <1>2, ServeMoves
      <2> QED BY <2>1 DEF Moves, TypeOK, Steps
  <1>3. ASSUME NEW t \in Names, Lapse(t) PROVE FALSE
      BY <1>3 DEF Lapse
  <1>4. CASE UNCHANGED vars
      BY <1>4 DEF vars
  <1> QED BY <1>1, <1>2, <1>3, <1>4 DEF Next

\* A handler that holds a copy of a row has held it since it arrived
LEMMA CopyStays ==
    ASSUME TypeOK, [Next]_vars, NEW q \in Requests, pc[q] # "idle",
           pc'[q] \in {"reload", "save"}
    PROVE  pc[q] \in {"reload", "save"} /\ user'[q] = user[q]
  <1>1. ASSUME NEW r \in Requests, Arrival(r)
        PROVE  pc'[q] = pc[q] /\ user'[q] = user[q]
      <2>1. PICK op, u, e, g, next : Arrived(r, op, u, e, g, next)
          BY <1>1, ArrivalShape
      <2>2. /\ pc[r] = "idle"
            /\ \A p \in Requests \ {r} :
                 pc'[p] = pc[p] /\ req'[p] = req[p] /\ user'[p] = user[p]
          BY <2>1, ArrivalEffect
      <2> QED BY <2>2
  <1>2. ASSUME NEW r \in Requests,
               Insert(r) \/ Set(r) \/ ReadAgain(r) \/ Delete(r)
        PROVE  pc'[q] = pc[q] /\ user'[q] = user[q]
      BY <1>2 DEF Insert, Set, ReadAgain, Delete, Goto, locals, TypeOK
  <1>3. ASSUME NEW r \in Requests, Save(r) \/ Fail(r)
        PROVE  pc'[q] = pc[q] /\ user'[q] = user[q]
      <2>1. pc'[r] \notin {"reload", "save"}
          BY <1>3 DEF Save, Fail, Goto, TypeOK
      <2> QED BY <1>3, <2>1 DEF Save, Fail, Goto, TypeOK
  <1>4. ASSUME NEW r \in Requests, Reload(r)
        PROVE  pc[q] \in {"reload", "save"} /\ user'[q] = user[q]
      BY <1>4 DEF Reload, Goto, TypeOK
  <1>5. ASSUME NEW t \in Names, Lapse(t)
        PROVE  pc'[q] = pc[q] /\ user'[q] = user[q]
      BY <1>5 DEF Lapse, locals
  <1>6. CASE UNCHANGED vars
      BY <1>6 DEF vars, locals
  <1> QED BY <1>1, <1>2, <1>3, <1>4, <1>5, <1>6 DEF Next, Serve

LEMMA SettledStep ==
    TypeOK /\ HandlerInv /\ SettledInv /\ [Next]_vars => SettledInv'
  <1> SUFFICES ASSUME TypeOK, HandlerInv, SettledInv, [Next]_vars PROVE SettledInv'
      OBVIOUS
  <1>1. \A u \in Ids : users'[u] # None =>
          \A c \in Secrets : users'[u][c] \in Settled' \cup {None}
      BY SecretStep
  <1>2. ASSUME NEW q \in Requests
        PROVE  /\ pc'[q] \in {"reload", "save"} =>
                    \A c \in Secrets : user'[q][c] \in Settled' \cup {None}
               /\ pc'[q] \in Steps \cup {"ok"} /\ Spends(q)' # {} =>
                    req'[q].given \in Settled' /\ req'[q].id \in Ids
      <2>0. Settled \subseteq Settled'
          BY SettledStays
      <2>1. CASE pc[q] # "idle"
          <3>1. req'[q] = req[q] /\ Spends(q)' = Spends(q)
              BY <2>1, RequestStays, PatchStays
          <3>2. pc'[q] \in Steps \cup {"ok"} => pc[q] \in Steps \cup {"ok"}
              <4>1. pc[q] \in Steps \cup Answers
                  BY <2>1 DEF TypeOK
              <4>2. pc[q] \in Answers => pc'[q] = pc[q]
                  BY <2>1, RequestStays
              <4> QED BY <4>1, <4>2
          <3>3. pc'[q] \in {"reload", "save"} =>
                  \A c \in Secrets : user'[q][c] \in Settled' \cup {None}
              BY <2>0, <2>1, CopyStays DEF SettledInv
          <3> QED BY <2>0, <3>1, <3>2, <3>3 DEF SettledInv
      <2>2. CASE pc[q] = "idle" /\ pc'[q] # "idle"
          <3>1. PICK op, u, e, g, next : Arrived(q, op, u, e, g, next)
              BY <2>2, WhoArrives
          <3>2. /\ pc'[q] = next
                /\ next \in (Steps \ {"save"}) \cup Answers
                /\ req'[q] = [op |-> op, id |-> u, email |-> e, given |-> g]
                /\ next = "reload" => user'[q] = users[u] /\ users[u] \in Row
              BY <3>1, ArrivalEffect
          <3>3. next = "reload" => u \in Ids /\ users[u] # None
              BY <3>1 DEF Arrived, Steps
          <3>4. pc'[q] \in {"reload", "save"} =>
                  \A c \in Secrets : user'[q][c] \in Settled' \cup {None}
              BY <2>0, <3>2, <3>3 DEF SettledInv, Answers
          <3>5. req'[q].op = op /\ req'[q].given = g /\ req'[q].id = u
              BY <3>2
          <3>6. ASSUME next \in Steps \cup {"ok"}, Spends(q)' # {}
                PROVE  g \in Settled /\ u \in Ids
              <4>1. /\ op \in {"changePassword", "resetPassword", "verifyEmail"}
                    /\ op = "verifyEmail" => g # None
                  BY <3>5, <3>6 DEF Spends
              <4>2. next # "ok" /\ next # "save"
                  BY <3>1, <3>2, <4>1 DEF Arrived, Answers
              <4>3. /\ u \in Ids
                    /\ op = "changePassword" => next = "reload"
                  BY <3>1, <3>6, <4>1, <4>2 DEF Arrived, Steps, SetOps
              <4>4. u # None /\ g \in Names
                  BY <3>1, <4>1, <4>3 DEF Arrived
              <4>5. \E c \in Secrets : users[u] # None /\ users[u][c] = g
                  BY <3>1, <4>1, <4>3, <4>4 DEF Arrived, Secrets
              <4>6. g # None
                  BY <4>4 DEF Names
              <4> QED BY <4>3, <4>5, <4>6 DEF SettledInv
          <3> QED BY <2>0, <3>2, <3>4, <3>5, <3>6
      <2>3. CASE pc'[q] = "idle"
          BY <2>3 DEF Steps
      <2> QED BY <2>1, <2>2, <2>3
  <1> QED BY <1>1, <1>2 DEF SettledInv

LEMMA SpentStep ==
    TypeOK /\ HandlerInv /\ SettledInv /\ SpentStaysSpent /\ [Next]_vars
      => SpentStaysSpent'
  <1> SUFFICES ASSUME TypeOK, HandlerInv, SettledInv, SpentStaysSpent, [Next]_vars,
                      NEW r \in Requests, pc'[r] = "ok",
                      NEW c, c \in Spends(r)', NEW u, u = req'[r].id,
                      users'[u] # None, users'[u][c] = req'[r].given
               PROVE  <<u, c>> \in crossed'
      BY DEF SpentStaysSpent
  <1>0. pc[r] # "idle"
      BY Finishes DEF Steps
  <1>1. req'[r] = req[r] /\ Spends(r)' = Spends(r)
      BY <1>0, RequestStays, PatchStays
  <1>2. pc[r] \in Steps \cup {"ok"}
      <2>1. pc[r] \in Steps \cup Answers
          BY <1>0 DEF TypeOK
      <2>2. pc[r] \in Answers => pc'[r] = pc[r]
          BY <1>0, RequestStays
      <2> QED BY <2>1, <2>2
  <1>3. req[r].given \in Settled /\ u \in Ids
      BY <1>1, <1>2 DEF SettledInv
  <1>4. c \in Secrets /\ c \in Columns
      BY DEF Spends, Secrets, Columns
  <1>5. req[r].given # None
      BY <1>3 DEF Settled, Ids
  <1>6. ASSUME NEW x \in Requests, pc[x] \in Steps, c \in Writes(x)
        PROVE  Written(x, c) # req[r].given
      <2>1. x \notin Settled
          BY <1>6 DEF Settled, Steps, Answers
      <2>2. Written(x, c) \in {x, None}
          BY <1>4, <1>6, WrittenSecret
      <2> QED BY <2>1, <2>2, <1>3, <1>5
  <1>7. CASE pc[r] = "ok"
      <2>1. \/ users[u] = None \/ users[u][c] # req[r].given \/ <<u, c>> \in crossed
          BY <1>1, <1>7 DEF SpentStaysSpent
      <2>2. ~\E x \in Requests : WroteColumn(x, u, c)
          BY <1>1, <1>6 DEF WroteColumn
      <2> QED BY <1>1, <1>3, <1>4, <2>1, <2>2, ColumnStep, CrossedStays
  <1>8. CASE pc[r] \in Steps
      <2>1. c \in Writes(r)
          <3>1. req[r].op \in SaveOps \cup SetOps
              BY <1>1 DEF Spends, SaveOps, SetOps
          <3> QED BY <1>1, <3>1 DEF Writes, Spends, Patch
      <2>2. Written(r, c) # req[r].given
          BY <1>6, <1>8, <2>1
      <2> QED BY <1>1, <1>3, <1>4, <1>8, <2>1, <2>2, OwnWrite
  <1> QED BY <1>2, <1>7, <1>8

\* A replaced password and a used link are refused when they are presented
\* again, unless a save crossed their column (auth.service.ts, resetPassword,
\* verifyEmail and validateUser)
THEOREM SpentRefused == Spec => SpentIsRefused
  <1> DEFINE I == TypeOK /\ HandlerInv /\ SettledInv /\ SpentStaysSpent
  <1>1. Init => I
      BY InitType, InitHandler, InitSettled
  <1>2. I /\ [Next]_vars => I'
      BY TypeStep, HandlerStep, SettledStep, SpentStep
  <1> DEFINE Refused == \A r, q \in Requests :
         /\ ArrivesAfter(r, q)
         /\ req'[r].given = req[q].given
         /\ Presents(req'[r].op) \in Spends(q)
         => \/ pc'[r] \in {"unauthorized", "badRequest"}
            \/ <<req[q].id, Presents(req'[r].op)>> \in crossed
  <1>3. I /\ [Next]_vars => [Refused]_vars
      <2> SUFFICES ASSUME I, [Next]_vars, NEW r \in Requests, NEW q \in Requests,
                          ArrivesAfter(r, q), req'[r].given = req[q].given,
                          Presents(req'[r].op) \in Spends(q),
                          <<req[q].id, Presents(req'[r].op)>> \notin crossed
                   PROVE  pc'[r] \in {"unauthorized", "badRequest"}
          OBVIOUS
      <2>1. PICK op, u, e, g, next : Arrived(r, op, u, e, g, next)
          BY WhoArrives DEF ArrivesAfter
      <2>2. /\ pc'[r] = next
            /\ next \in (Steps \ {"save"}) \cup Answers
            /\ req'[r] = [op |-> op, id |-> u, email |-> e, given |-> g]
          BY <2>1, ArrivalEffect
      <2>3. /\ req'[r].op = op /\ u = req[q].id /\ g = req[q].given
            /\ pc[q] = "ok" /\ u # None
          BY <2>2 DEF ArrivesAfter
      <2>4. users[u] = None \/ users[u][Presents(op)] # g
          BY <2>3 DEF SpentStaysSpent
      <2>5. /\ op \in {"login", "resetPassword", "verifyEmail"}
            /\ op = "verifyEmail" => g # None
          BY <2>3 DEF Presents, Spends
      <2>6. CASE op = "login"
          BY <2>1, <2>2, <2>3, <2>4, <2>6 DEF Arrived, Presents
      <2>7. CASE op = "resetPassword"
          BY <2>1, <2>3, <2>4, <2>7 DEF Arrived, Presents
      <2>8. CASE op = "verifyEmail"
          BY <2>1, <2>3, <2>4, <2>5, <2>8 DEF Arrived, Presents
      <2> QED BY <2>5, <2>6, <2>7, <2>8
  <1> QED BY <1>1, <1>2, <1>3, PTL DEF Spec, SpentIsRefused

----------------------------------------------------------------------------
(* The second factor *)

\* enableMfa goes on with the secret its code was computed from
ConfirmInv ==
    \A r \in Requests :
      pc[r] \in {"reload", "save"} /\ req[r].op = "enableMfa" =>
        user[r].mfaSecret = req[r].given /\ req[r].given \in Names

LEMMA ConfirmStep == TypeOK /\ ConfirmInv /\ [Next]_vars => ConfirmInv'
  <1> SUFFICES ASSUME TypeOK, ConfirmInv, [Next]_vars, NEW q \in Requests,
                      pc'[q] \in {"reload", "save"}, req'[q].op = "enableMfa"
               PROVE  user'[q].mfaSecret = req'[q].given /\ req'[q].given \in Names
      BY DEF ConfirmInv
  <1>1. CASE pc[q] # "idle"
      BY <1>1, RequestStays, CopyStays DEF ConfirmInv
  <1>2. CASE pc[q] = "idle"
      <2>1. PICK op, u, e, g, next : Arrived(q, op, u, e, g, next)
          BY <1>2, WhoArrives
      <2>2. /\ pc'[q] = next
            /\ next \in (Steps \ {"save"}) \cup Answers
            /\ req'[q] = [op |-> op, id |-> u, email |-> e, given |-> g]
            /\ next = "reload" => user'[q] = users[u] /\ users[u] \in Row
          BY <2>1, ArrivalEffect
      <2>3. next = "reload" /\ op = "enableMfa" /\ req'[q].given = g
          BY <2>2 DEF Answers
      <2> QED BY <2>1, <2>2, <2>3 DEF Arrived
  <1> QED BY <1>1, <1>2

\* An answered enableMfa left the secret that was confirmed
ConfirmedInv ==
    \A q \in Requests :
      pc[q] = "ok" /\ req[q].op = "enableMfa" =>
        /\ req[q].id \in Ids
        /\ users[req[q].id] # None =>
             users[req[q].id].mfaSecret = req[q].given \/ Unsettled(q, "mfaSecret")

LEMMA EnablingSave ==
    ASSUME TypeOK, HandlerInv, ConfirmInv, [Next]_vars, NEW q \in Requests,
           pc[q] # "ok", pc'[q] = "ok", req'[q].op = "enableMfa"
    PROVE  /\ Save(q) /\ req'[q] = req[q] /\ req[q].id \in Ids
           /\ user[q].mfaSecret = req[q].given /\ req[q].given \in Names
           /\ "mfaSecret" \notin Writes(q)
  <1>1. pc[q] \in Steps /\ req' = req
        /\ (Insert(q) \/ Set(q) \/ Save(q) \/ ReadAgain(q) \/ Delete(q))
      BY Finishes
  <1>2. ~Insert(q) /\ ~Set(q)
      BY <1>1 DEF Insert, Set, TypeOK, StepOK, Steps, SetOps
  <1>3. ~ReadAgain(q) /\ ~Delete(q)
      BY <1>1 DEF ReadAgain, Delete, HandlerInv
  <1>4. Save(q) /\ pc[q] = "save"
      BY <1>1, <1>2, <1>3 DEF Save
  <1>5. "mfaSecret" \notin Writes(q)
      BY <1>1 DEF Writes, Patch, SaveOps
  <1>6. req[q].id \in Ids
      BY <1>1 DEF TypeOK, StepOK
  <1> QED BY <1>1, <1>4, <1>5, <1>6 DEF ConfirmInv

LEMMA ConfirmedStep ==
    TypeOK /\ HandlerInv /\ ConfirmInv /\ ConfirmedInv /\ [Next]_vars => ConfirmedInv'
  <1> SUFFICES ASSUME TypeOK, HandlerInv, ConfirmInv, ConfirmedInv, [Next]_vars,
                      NEW q \in Requests, pc'[q] = "ok", req'[q].op = "enableMfa",
                      NEW u, u = req'[q].id
               PROVE  /\ u \in Ids
                      /\ users'[u] # None =>
                           \/ users'[u].mfaSecret = req'[q].given
                           \/ OtherWriter(q, "mfaSecret")'
                           \/ <<u, "mfaSecret">> \in crossed'
      BY DEF ConfirmedInv, Unsettled
  <1>0. "mfaSecret" \in Columns
      BY DEF Columns, Secrets
  <1>1. CASE pc[q] = "ok"
      <2>1. req'[q] = req[q]
          BY <1>1, RequestStays
      <2>2. /\ u \in Ids
            /\ users[u] # None => \/ users[u].mfaSecret = req[q].given
                                  \/ OtherWriter(q, "mfaSecret")
                                  \/ <<u, "mfaSecret">> \in crossed
          BY <1>1, <2>1 DEF ConfirmedInv, Unsettled
      <2>a. PICK v : v = req[q].given
          OBVIOUS
      <2>3. users'[u] # None => \/ users'[u]["mfaSecret"] = v
                                \/ OtherWriter(q, "mfaSecret")'
                                \/ <<u, "mfaSecret">> \in crossed'
          BY <1>0, <1>1, <2>1, <2>2, <2>a, ColumnHolds
      <2> QED BY <2>1, <2>2, <2>3, <2>a
  <1>2. CASE pc[q] # "ok"
      <2>1. /\ Save(q) /\ req'[q] = req[q] /\ req[q].id \in Ids
            /\ user[q].mfaSecret = req[q].given
            /\ "mfaSecret" \notin Writes(q)
          BY <1>2, EnablingSave
      <2>2. users'[u] # None =>
              \/ <<u, "mfaSecret">> \in crossed'
              \/ users' = users /\ pc'[q] = "error"
              \/ /\ users[u]["mfaSecret"] = user[q]["mfaSecret"]
                 /\ users'[u]["mfaSecret"] = users[u]["mfaSecret"]
          BY <1>0, <2>1, SavedColumn
      <2> QED BY <2>1, <2>2
  <1> QED BY <1>1, <1>2

\* What an operation writes to the two columns of the second factor
LEMMA FactorWrites ==
    ASSUME NEW x \in Requests
    PROVE  /\ "mfaSecret" \in Writes(x) =>
                \/ Written(x, "mfaSecret") = x
                \/ "isMfaEnabled" \in Writes(x) /\ Written(x, "isMfaEnabled") = FALSE
           /\ "isMfaEnabled" \in Writes(x) =>
                req[x].op = "enableMfa" \/ Written(x, "isMfaEnabled") = FALSE
  <1>1. CASE req[x].op = "register"
      BY <1>1 DEF Writes, Written, NewUser, Columns, Flags, Secrets, SaveOps, SetOps
  <1>2. CASE req[x].op = "disableMfa"
      <2>1. Patch(x) = [isMfaEnabled |-> FALSE, mfaSecret |-> None]
          BY <1>2 DEF Patch
      <2> QED BY <1>2, <2>1 DEF Writes, Written, SaveOps
  <1>3. CASE req[x].op = "generateMfa"
      <2>1. Patch(x) = [mfaSecret |-> x]
          BY <1>3 DEF Patch
      <2> QED BY <1>3, <2>1 DEF Writes, Written, SaveOps
  <1>4. CASE req[x].op = "enableMfa"
      <2>1. Patch(x) = [isMfaEnabled |-> TRUE]
          BY <1>4 DEF Patch
      <2> QED BY <1>4, <2>1 DEF Writes, SaveOps
  <1>5. CASE req[x].op \in (SaveOps \cup SetOps) \ {"disableMfa", "generateMfa", "enableMfa"}
      BY <1>5 DEF Writes, Patch, SaveOps, SetOps
  <1>6. CASE req[x].op \notin SaveOps \cup SetOps \cup {"register"}
      BY <1>6 DEF Writes
  <1> QED BY <1>1, <1>2, <1>3, <1>4, <1>5, <1>6

LEMMA EnabledStep ==
    TypeOK /\ HandlerInv /\ ConfirmInv /\ EnabledHasSecret /\ [Next]_vars
      => EnabledHasSecret'
  <1> SUFFICES ASSUME TypeOK, HandlerInv, ConfirmInv, EnabledHasSecret, [Next]_vars,
                      NEW u \in Ids, users'[u] # None, users'[u].isMfaEnabled,
                      <<u, "mfaSecret">> \notin crossed',
                      <<u, "isMfaEnabled">> \notin crossed'
               PROVE  users'[u].mfaSecret # None
      BY DEF EnabledHasSecret
  <1>0. "mfaSecret" \in Columns /\ "isMfaEnabled" \in Columns
      BY DEF Columns, Secrets, Flags
  <1>1. \/ users[u] # None /\ users'[u]["mfaSecret"] = users[u]["mfaSecret"]
        \/ \E x \in Requests : WroteColumn(x, u, "mfaSecret")
      BY <1>0, ColumnStep
  <1>2. \/ users[u] # None /\ users'[u]["isMfaEnabled"] = users[u]["isMfaEnabled"]
        \/ \E x \in Requests : WroteColumn(x, u, "isMfaEnabled")
      BY <1>0, ColumnStep
  <1>3. CASE \E x \in Requests : WroteColumn(x, u, "mfaSecret")
      <2>1. PICK x \in Requests : WroteColumn(x, u, "mfaSecret")
          BY <1>3
      <2>2. /\ pc[x] \in Steps /\ pc'[x] = "ok" /\ req[x].id = u
            /\ "mfaSecret" \in Writes(x) /\ users'[u]["mfaSecret"] = Written(x, "mfaSecret")
          BY <2>1 DEF WroteColumn
      <2>3. CASE Written(x, "mfaSecret") = x
          BY <2>2, <2>3 DEF Ids
      <2>4. CASE "isMfaEnabled" \in Writes(x) /\ Written(x, "isMfaEnabled") = FALSE
          <3>1. users'[u]["isMfaEnabled"] = FALSE
              BY <1>0, <2>2, <2>4, OwnWrite
          <3> QED BY <3>1
      <2> QED BY <2>2, <2>3, <2>4, FactorWrites
  <1>4. CASE /\ users[u] # None /\ users'[u]["mfaSecret"] = users[u]["mfaSecret"]
             /\ \E x \in Requests : WroteColumn(x, u, "isMfaEnabled")
      <2>1. PICK x \in Requests : WroteColumn(x, u, "isMfaEnabled")
          BY <1>4
      <2>2. /\ pc[x] \in Steps /\ pc'[x] = "ok" /\ req[x].id = u /\ req'[x] = req[x]
            /\ "isMfaEnabled" \in Writes(x)
            /\ users'[u]["isMfaEnabled"] = Written(x, "isMfaEnabled")
          BY <2>1 DEF WroteColumn
      <2>3. req[x].op = "enableMfa"
          BY <2>2, FactorWrites
      <2>4. pc[x] # "ok"
          BY <2>2 DEF Steps
      <2>5. Save(x) /\ user[x].mfaSecret = req[x].given /\ req[x].given \in Names
          BY <2>2, <2>3, <2>4, EnablingSave
      <2>6. users[u]["mfaSecret"] = user[x]["mfaSecret"]
          BY <1>0, <2>2, <2>5, SavedColumn
      <2> QED BY <1>4, <2>5, <2>6 DEF Names
  <1>5. CASE /\ users[u] # None /\ users'[u]["mfaSecret"] = users[u]["mfaSecret"]
             /\ users'[u]["isMfaEnabled"] = users[u]["isMfaEnabled"]
      BY <1>5, CrossedStays DEF EnabledHasSecret
  <1> QED BY <1>1, <1>2, <1>3, <1>4, <1>5

LEMMA InitFactor == Init => ConfirmInv /\ ConfirmedInv /\ EnabledHasSecret
  <1> SUFFICES ASSUME Init PROVE ConfirmInv /\ ConfirmedInv /\ EnabledHasSecret
      OBVIOUS
  <1>1. PICK asked, generated, enabled \in BOOLEAN :
          /\ enabled => generated
          /\ users = [u \in Ids |-> IF u = Ann THEN AnnRow(asked, generated, enabled)
                                              ELSE None]
      BY DEF Init
  <1>2. /\ AnnRow(asked, generated, enabled).isMfaEnabled = enabled
        /\ generated => AnnRow(asked, generated, enabled).mfaSecret = Ann
      BY DEF AnnRow, Columns, Flags, Secrets
  <1>3. \A r \in Requests : pc[r] = "idle"
      BY DEF Init
  <1> QED BY <1>1, <1>2, <1>3 DEF ConfirmInv, ConfirmedInv, EnabledHasSecret, Ids

\* An account whose second factor is on has a secret, unless a save crossed
\* one of the two columns (users.service.ts, enableMfa and disableMfa)
THEOREM EnabledSecret == Spec => []EnabledHasSecret
  <1> DEFINE I == TypeOK /\ HandlerInv /\ ConfirmInv /\ EnabledHasSecret
  <1>1. Init => I
      BY InitType, InitHandler, InitFactor
  <1>2. I /\ [Next]_vars => I'
      BY TypeStep, HandlerStep, ConfirmStep, EnabledStep
  <1> QED BY <1>1, <1>2, PTL DEF Spec

\* A password, and a second factor, that was answered as set gets its owner in,
\* unless another request or a crossing save changes it (auth.service.ts,
\* validateUser and verifyMfaAndLogin)
THEOREM SecretsWork == Spec => AnsweredSecretsWork
  <1> DEFINE I == /\ TypeOK /\ HandlerInv /\ EmailInv
                  /\ AnsweredWritesHold /\ ConfirmInv /\ ConfirmedInv
  <1>1. Init => I
      BY InitType, InitHandler, InitEmail, InitWrites, InitFactor
  <1>2. I /\ [Next]_vars => I'
      BY TypeStep, HandlerStep, EmailStep, WritesStep, ConfirmStep, ConfirmedStep
  <1> DEFINE Work == \A r, q \in Requests :
         ArrivesAfter(r, q) =>
           /\ /\ req'[r].op = "login" /\ req'[r].given = q
              /\ "password" \in Writes(q)
              => pc'[r] # "unauthorized" \/ Unsettled(q, "password")
           /\ /\ req'[r].op = "verifyMfa" /\ req'[r].given = req[q].given
              /\ req[q].op = "enableMfa" /\ users[req[q].id] # None
              => \/ pc'[r] = "readAgain"
                 \/ Unsettled(q, "mfaSecret") \/ Unsettled(q, "isMfaEnabled")
  <1>3. I /\ [Next]_vars => [Work]_vars
      <2> SUFFICES ASSUME I, [Next]_vars, NEW r \in Requests, NEW q \in Requests,
                          ArrivesAfter(r, q)
                   PROVE  /\ /\ req'[r].op = "login" /\ req'[r].given = q
                             /\ "password" \in Writes(q)
                             => pc'[r] # "unauthorized" \/ Unsettled(q, "password")
                          /\ /\ req'[r].op = "verifyMfa" /\ req'[r].given = req[q].given
                             /\ req[q].op = "enableMfa" /\ users[req[q].id] # None
                             => \/ pc'[r] = "readAgain"
                                \/ Unsettled(q, "mfaSecret") \/ Unsettled(q, "isMfaEnabled")
          OBVIOUS
      <2>1. PICK op, u, e, g, next : Arrived(r, op, u, e, g, next)
          BY WhoArrives DEF ArrivesAfter
      <2>2. /\ pc'[r] = next
            /\ next \in (Steps \ {"save"}) \cup Answers
            /\ req'[r] = [op |-> op, id |-> u, email |-> e, given |-> g]
          BY <2>1, ArrivalEffect
      <2>3. /\ req'[r].op = op /\ u = req[q].id /\ req'[r].given = g
            /\ pc[q] = "ok" /\ u # None
          BY <2>2 DEF ArrivesAfter
      <2>4. users[u] # None =>
              \A c \in Writes(q) : users[u][c] = Written(q, c) \/ Unsettled(q, c)
          BY <2>3 DEF AnsweredWritesHold, Unsettled
      <2>5. ASSUME op = "login", g = q, "password" \in Writes(q)
            PROVE  next # "unauthorized" \/ Unsettled(q, "password")
          <3>1. users[u] # None /\ ((users[u].password # g) <=> (next = "unauthorized"))
              BY <2>1, <2>3, <2>5 DEF Arrived
          <3>2. Written(q, "password") = q
              <4>1. CASE req[q].op = "register"
                  BY <4>1 DEF Written, NewUser, Columns, Flags, Secrets
              <4>2. CASE req[q].op \in SaveOps \cup SetOps
                  <5>1. Fits(q, Patch(q)) /\ Written(q, "password") = Patch(q)["password"]
                        /\ "password" \in DOMAIN Patch(q)
                      BY <2>5, <4>2, PatchShape, SetOrSave
                  <5> QED BY <5>1 DEF Fits
              <4> QED BY <2>5, <4>1, <4>2 DEF Writes
          <3> QED BY <2>4, <2>5, <3>1, <3>2
      <2>6. ASSUME op = "verifyMfa", g = req[q].given, req[q].op = "enableMfa",
                   users[u] # None
            PROVE  \/ next = "readAgain"
                   \/ Unsettled(q, "mfaSecret") \/ Unsettled(q, "isMfaEnabled")
          <3>1. Patch(q) = [isMfaEnabled |-> TRUE]
              BY <2>6 DEF Patch
          <3>2. "isMfaEnabled" \in Writes(q) /\ Written(q, "isMfaEnabled") = TRUE
              BY <2>6, <3>1 DEF Writes, Written, SaveOps
          <3>3. users[u].isMfaEnabled = TRUE \/ Unsettled(q, "isMfaEnabled")
              BY <2>4, <2>6, <3>2
          <3>4. users[u].mfaSecret = g \/ Unsettled(q, "mfaSecret")
              BY <2>3, <2>6 DEF ConfirmedInv
          <3> QED BY <2>1, <2>6, <3>3, <3>4 DEF Arrived
      <2> QED BY <2>2, <2>3, <2>5, <2>6
  <1> QED BY <1>1, <1>2, <1>3, PTL DEF Spec, AnsweredSecretsWork
----------------------------------------------------------------------------
(* One request at a time *)

\* What a handler read, and what its save selected, is the row as it stands
AloneInv ==
    /\ \A r, q \in InFlight : r = q
    /\ crossed = {}
    /\ \A r \in Requests :
         /\ pc[r] \in {"reload", "save"} =>
              users[req[r].id] # None /\ user[r] = users[req[r].id]
         /\ pc[r] = "save" => old[r] = users[req[r].id]

LEMMA ArrivesAlone ==
    ASSUME TypeOK, AloneInv, MaxInFlight = 1, NEW r \in Requests,
           NEW op, NEW u, NEW e, NEW g, NEW next, Arrive(r, op, u, e, g, next)
    PROVE  InFlight = {}
  <1>1. Cardinality(InFlight) < 1
      BY DEF Arrive
  <1>2. ASSUME NEW q \in InFlight PROVE FALSE
      <2>1. InFlight = {q}
          BY <1>2 DEF AloneInv
      <2>2. Cardinality({q}) = 1
          BY FS_Singleton
      <2> QED BY <1>1, <2>1, <2>2
  <1> QED BY <1>2

LEMMA AloneArrival ==
    ASSUME TypeOK, AloneInv, MaxInFlight = 1, NEW r \in Requests, Arrival(r)
    PROVE  AloneInv'
  <1>1. PICK op, u, e, g, next : Arrived(r, op, u, e, g, next)
      BY ArrivalShape
  <1>2. InFlight = {}
      BY <1>1, ArrivesAlone DEF Arrived
  <1>3. /\ pc'[r] = next /\ next \in (Steps \ {"save"}) \cup Answers
        /\ req'[r] = [op |-> op, id |-> u, email |-> e, given |-> g]
        /\ next = "reload" => user'[r] = users[u]
        /\ \A q \in Requests \ {r} : pc'[q] = pc[q]
        /\ users' = users /\ crossed' = crossed
      BY <1>1, ArrivalEffect
  <1>4. next # "save"
      BY <1>3 DEF Answers
  <1>5. next = "reload" => /\ users'[req'[r].id] # None
                           /\ user'[r] = users'[req'[r].id]
      BY <1>1, <1>3 DEF Arrived
  <1>6. \A q \in Requests \ {r} : pc'[q] \notin Steps
      BY <1>2, <1>3 DEF InFlight
  <1>7. \A q \in Requests : pc'[q] \in {"reload", "save"} => q = r
      BY <1>6 DEF Steps
  <1>8. \A q, p \in InFlight' : q = p
      BY <1>6 DEF InFlight
  <1> QED BY <1>3, <1>4, <1>5, <1>7, <1>8 DEF AloneInv

LEMMA AloneServe ==
    ASSUME TypeOK, AloneInv, NEW r \in Requests, Serve(r) \/ Fail(r)
    PROVE  AloneInv'
  <1>1. PICK step : Moves(r, step)
      BY ServeMoves
  <1>2. /\ pc'[r] = step /\ req' = req
        /\ \A q \in Requests \ {r} : pc'[q] = pc[q]
      BY <1>1 DEF Moves, TypeOK
  <1>3. \A q \in Requests \ {r} : pc'[q] \notin Steps
      BY <1>1, <1>2 DEF Moves, AloneInv, InFlight
  <1>4. \A q, p \in InFlight' : q = p
      BY <1>3 DEF InFlight
  <1>5. \A q \in Requests : pc'[q] \in {"reload", "save"} => q = r
      BY <1>3 DEF Steps
  <1>6. CASE Reload(r)
      <2>1. pc[r] = "reload" /\ step = "save" /\ r \in DOMAIN pc
          BY <1>2, <1>6 DEF Reload, Goto, TypeOK
      <2>2. UNCHANGED <<users, user, crossed>> /\ old'[r] = users[req[r].id]
          BY <1>6 DEF Reload, TypeOK
      <2>3. users[req[r].id] # None /\ user[r] = users[req[r].id]
          BY <2>1 DEF AloneInv
      <2> QED BY <1>2, <1>4, <1>5, <2>2, <2>3 DEF AloneInv
  <1>7. CASE Save(r)
      <2>1. /\ pc[r] = "save" /\ users[req[r].id] # None
            /\ user[r] = users[req[r].id] /\ old[r] = users[req[r].id]
          BY <1>7 DEF Save, AloneInv
      <2>2. Crossings(users[req[r].id], r) = {}
          BY <2>1 DEF Crossings
      <2>3. crossed' = crossed
          BY <1>7, <2>1, <2>2 DEF Save
      <2>4. pc'[r] \notin Steps
          BY <1>7, <2>1 DEF Save, Goto, Steps, TypeOK
      <2> QED BY <1>4, <1>5, <2>3, <2>4 DEF AloneInv, Steps
  <1>8. CASE Insert(r) \/ Set(r) \/ ReadAgain(r) \/ Delete(r) \/ Fail(r)
      <2>1. crossed' = crossed
          BY <1>8 DEF Insert, Set, ReadAgain, Delete, Fail
      <2>2. pc'[r] \notin Steps
          BY <1>8 DEF Insert, Set, ReadAgain, Delete, Fail, Goto, Steps, TypeOK
      <2> QED BY <1>4, <1>5, <2>1, <2>2 DEF AloneInv, Steps
  <1> QED BY <1>6, <1>7, <1>8 DEF Serve

LEMMA AloneStep ==
    ASSUME MaxInFlight = 1
    PROVE  TypeOK /\ AloneInv /\ [Next]_vars => AloneInv'
  <1> SUFFICES ASSUME TypeOK, AloneInv, [Next]_vars PROVE AloneInv'
      OBVIOUS
  <1>1. ASSUME NEW r \in Requests, Arrival(r) \/ Serve(r) \/ Fail(r)
        PROVE  AloneInv'
      BY <1>1, AloneArrival, AloneServe
  <1>2. ASSUME UNCHANGED <<users, pc, locals, crossed>> PROVE AloneInv'
      BY <1>2 DEF AloneInv, InFlight, locals
  <1>3. ASSUME NEW t \in Names, Lapse(t) PROVE AloneInv'
      BY <1>2, <1>3 DEF Lapse
  <1> QED BY <1>1, <1>2, <1>3 DEF Next, vars

\* The exceptions the properties make are races: with one request at a time no
\* save of a user entity ever crosses a column, so every answered write holds,
\* spent secrets are refused and secrets that were set work without exception,
\* also where calls reject between the read and the save of a handler
THEOREM NothingCrossed ==
    ASSUME MaxInFlight = 1 PROVE Spec => [](crossed = {})
  <1>1. Init => AloneInv
      BY DEF Init, AloneInv, InFlight, Steps
  <1>2. TypeOK /\ AloneInv /\ [Next]_vars => AloneInv'
      BY AloneStep
  <1>3. AloneInv => crossed = {}
      BY DEF AloneInv
  <1> QED BY <1>1, <1>2, <1>3, InitType, TypeStep, PTL DEF Spec
=============================================================================
