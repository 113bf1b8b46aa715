------------------------------ MODULE Accounts ------------------------------
(***************************************************************************)
(* UsersService and AuthService (users.service.ts, auth.service.ts): the   *)
(* rows of table users, and the requests that register, sign in, reset and *)
(* verify, and that change profile, password and second factor.            *)
(*                                                                         *)
(* A request r is a process.  One action is one awaited query together     *)
(* with the local code up to the next one (bcrypt, qrcode and TOTP only    *)
(* compute).  What a request generates (an id, a password, a token, a      *)
(* secret) is named after the request, so Names are also what clients can  *)
(* present; a TOTP code is the secret it was computed from.                *)
(*                                                                         *)
(* JwtStrategy reads the caller's row just before the handler does, with   *)
(* the same answer if it is gone; the two reads are one.  role, isActive   *)
(* and the other profile columns are not kept: no handler changes role or  *)
(* isActive, and the profile behaves as firstName does.                    *)
(***************************************************************************)
EXTENDS Naturals, FiniteSets

CONSTANTS
    Requests,      \* the requests of one behaviour (bounds the run)
    Ann,           \* an account that exists at start
    Emails,        \* addresses people register with
    AnnEmail,
    Workload,      \* the operations clients call
    MaxInFlight,   \* how many requests may overlap
    MayFail,       \* may an awaited call reject, or the process die?
    None           \* null

Ids     == {Ann} \cup Requests
Names   == Ids
Flags   == {"isEmailVerified", "isMfaEnabled"}
Secrets == {"password", "emailVerificationToken", "passwordResetToken",
            "mfaSecret"}
Columns == {"email", "firstName"} \cup Flags \cup Secrets

Domain(c) == IF c = "email" THEN Emails
             ELSE IF c \in Flags THEN BOOLEAN ELSE Names \cup {None}
Row == {row \in [Columns -> Emails \cup BOOLEAN \cup Names \cup {None}] :
          \A c \in Columns : row[c] \in Domain(c)}

SaveOps == {"update", "changePassword", "generateMfa", "enableMfa", "disableMfa"}
SetOps  == {"forgotPassword", "resetPassword", "verifyEmail"}
Ops     == SaveOps \cup SetOps \cup
           {"register", "login", "verifyMfa", "refresh", "remove"}
Call    == [op: Ops, id: Ids \cup {None}, email: Emails \cup {None},
            given: Names \cup {None}]

Answers == {"ok", "mfaRequired", "unauthorized", "badRequest", "notFound",
            "conflict", "error"}
Steps   == {"insert", "reload", "save", "set", "readAgain", "delete"}

ASSUME AccountsAssumption ==
    /\ AnnEmail \in Emails
    /\ Workload \subseteq Ops
    /\ MaxInFlight \in Nat
    /\ MayFail \in BOOLEAN
    /\ Ann \notin Requests
    /\ None \notin Ids
    /\ None \notin Emails
    /\ None \notin Row
    /\ None \notin Call

VARIABLES
    users,     \* table users
    expired,   \* reset tokens whose passwordResetExpires has passed
    pc,        \* the step a request is at, or its answer
    req,       \* the request
    user,      \* the row its handler read (findById)
    old,       \* the row repository.save selected before it writes
    crossed    \* history: <<account, column>> a save wrote to, or over, while
               \*   the column was not what its handler had read

locals == <<req, user, old>>
vars   == <<users, expired, pc, locals, crossed>>

InFlight == {r \in Requests : pc[r] \in Steps}

\* Holders of a session: tokens were answered to them
Holders == {Ann} \cup {r \in Requests : req[r] # None /\ req[r].op = "register"
                                        /\ pc[r] = "ok"}

\* An account registered some time ago, with or without a reset link in its
\* mail, its second factor not set up, in setup or in use
AnnRow(asked, generated, enabled) ==
    [c \in Columns |->
       IF c = "email" THEN AnnEmail
       ELSE IF c = "isEmailVerified" THEN FALSE
       ELSE IF c = "isMfaEnabled" THEN enabled
       ELSE IF \/ c = "passwordResetToken" /\ ~asked
               \/ c = "mfaSecret" /\ ~generated
       THEN None ELSE Ann]

Init ==
    /\ \E asked, generated, enabled \in BOOLEAN :
         /\ enabled => generated
         /\ users = [u \in Ids |-> IF u = Ann THEN AnnRow(asked, generated, enabled)
                                              ELSE None]
    /\ expired = {}
    /\ pc = [r \in Requests |-> "idle"]
    /\ req = [r \in Requests |-> None]
    /\ user = [r \in Requests |-> None]
    /\ old = [r \in Requests |-> None]
    /\ crossed = {}

----------------------------------------------------------------------------
(* What an operation writes *)

\* A variant with a bug: a reset leaves its token, disabling leaves the flag
PatchKeeps(r) ==
    LET op == req[r].op
    IN  IF op = "update" THEN [firstName |-> r]
        ELSE IF op \in {"changePassword", "resetPassword"} THEN [password |-> r]
        ELSE IF op = "generateMfa" THEN [mfaSecret |-> r]
        ELSE IF op = "enableMfa" THEN [isMfaEnabled |-> TRUE]
        ELSE IF op = "disableMfa" THEN [mfaSecret |-> None]
        ELSE IF op = "forgotPassword" THEN [passwordResetToken |-> r]
        ELSE [isEmailVerified |-> TRUE, emailVerificationToken |-> None]

Patch(r) ==
    LET op == req[r].op
    IN  IF op = "update" THEN [firstName |-> r]
        ELSE IF op = "changePassword" THEN [password |-> r]
        ELSE IF op = "generateMfa" THEN [mfaSecret |-> r]
        ELSE IF op = "enableMfa" THEN [isMfaEnabled |-> TRUE]
        ELSE IF op = "disableMfa" THEN [isMfaEnabled |-> FALSE, mfaSecret |-> None]
        ELSE IF op = "forgotPassword" THEN [passwordResetToken |-> r]
        ELSE IF op = "resetPassword"
             THEN [password |-> r, passwordResetToken |-> None]
        ELSE [isEmailVerified |-> TRUE, emailVerificationToken |-> None]

\* A variant with a bug: columns the patch leaves out become null
AssignOnly(row, p) ==
    [c \in Columns |-> IF c \in DOMAIN p THEN p[c] ELSE None]

\* row with the columns of patch p replaced
Assign(row, p) ==
    [c \in Columns |-> IF c \in DOMAIN p THEN p[c] ELSE row[c]]

\* repo.create({ ...dto, password }), the columns' defaults
NewUser(r) ==
    [c \in Columns |->
       IF c = "email" THEN req[r].email
       ELSE IF c \in Flags THEN FALSE
       ELSE IF c \in {"passwordResetToken", "mfaSecret"} THEN None ELSE r]

----------------------------------------------------------------------------
(* A request arrives: guards, and the handler's first query *)

Goto(r, step) == pc' = [pc EXCEPT ![r] = step]

\* findOne({ where: { [c]: v } }); an undefined v is no condition, any row fits
FindOne(c, v) ==
    LET found == {u \in Ids : users[u] # None /\ (v = None \/ users[u][c] = v)}
    IN  IF found = {} THEN {None} ELSE found

Arrive(r, op, u, e, g, next) ==
    /\ pc[r] = "idle"
    /\ op \in Workload
    /\ Cardinality(InFlight) < MaxInFlight
    /\ req' = [req EXCEPT ![r] = [op |-> op, id |-> u, email |-> e, given |-> g]]
    /\ Goto(r, next)
    /\ user' = IF next = "reload" THEN [user EXCEPT ![r] = users[u]] ELSE user
    /\ UNCHANGED <<users, expired, old, crossed>>

Register(r) ==
    \E e \in Emails :
        Arrive(r, "register", r, e, None,
               IF FindOne("email", e) = {None} THEN "insert" ELSE "conflict")

\* validateUser, then login
Login(r) ==
    \E e \in Emails, g \in Names : \E u \in FindOne("email", e) :
        Arrive(r, "login", u, None, g,
               IF u = None THEN "unauthorized"
               ELSE IF users[u].password # g THEN "unauthorized"
               ELSE IF users[u].isMfaEnabled THEN "mfaRequired" ELSE "ok")

\* verifyMfaToken
VerifyMfa(r) ==
    \E u \in Holders, g \in Names :
        Arrive(r, "verifyMfa", u, None, g,
               IF users[u] = None THEN "notFound"
               ELSE IF ~users[u].isMfaEnabled \/ users[u].mfaSecret # g
               THEN "unauthorized" ELSE "readAgain")

Refresh(r) ==
    \E u \in Holders :
        Arrive(r, "refresh", u, None, None,
               IF users[u] = None THEN "unauthorized" ELSE "ok")

ForgotPassword(r) ==
    \E e \in Emails : \E u \in FindOne("email", e) :
        Arrive(r, "forgotPassword", u, None, None, IF u = None THEN "ok" ELSE "set")

ResetPassword(r) ==
    \E g \in Names : \E u \in FindOne("passwordResetToken", g) :
        Arrive(r, "resetPassword", u, None, g,
               IF u = None \/ g \in expired THEN "badRequest" ELSE "set")

\* The query parameter token is not validated and may be missing
VerifyEmail(r) ==
    \E g \in Names \cup {None} : \E u \in FindOne("emailVerificationToken", g) :
        Arrive(r, "verifyEmail", u, None, g,
               IF u = None THEN "badRequest" ELSE "set")

\* A variant with a bug: any code enables once a secret exists
RefusesNull(op, row, g) ==
    \/ op = "changePassword" /\ row.password # g
    \/ op = "enableMfa" /\ row.mfaSecret = None

\* bcrypt.compare of the current password; authenticator.verify
Refuses(op, row, g) ==
    \/ op = "changePassword" /\ row.password # g
    \/ op = "enableMfa" /\ row.mfaSecret # g

\* The handlers that read the caller's row, change it and save it
ChangeOwn(r, op, g) ==
    \E u \in Holders :
        Arrive(r, op, u, None, g,
               IF users[u] = None THEN "notFound"
               ELSE IF Refuses(op, users[u], g) THEN "badRequest" ELSE "reload")

Update(r)         == ChangeOwn(r, "update", None)
ChangePassword(r) == \E g \in Names : ChangeOwn(r, "changePassword", g)
GenerateMfa(r)    == ChangeOwn(r, "generateMfa", None)
EnableMfa(r)      == \E g \in Names : ChangeOwn(r, "enableMfa", g)
DisableMfa(r)     == ChangeOwn(r, "disableMfa", None)

\* An administrator removes an account
Remove(r) ==
    \E u \in Holders :
        Arrive(r, "remove", u, None, None,
               IF users[u] = None THEN "notFound" ELSE "delete")

----------------------------------------------------------------------------
(* The queries that follow *)

\* A variant with a bug: email is not UNIQUE
NeverTaken(e) == FALSE

\* UNIQUE("email")
EmailTaken(e) == \E u \in Ids : users[u] # None /\ users[u].email = e

Insert(r) ==
    /\ pc[r] = "insert"
    /\ users[r] = None
    /\ IF EmailTaken(req[r].email)
       THEN Goto(r, "error") /\ UNCHANGED users
       ELSE Goto(r, "ok") /\ users' = [users EXCEPT ![r] = NewUser(r)]
    /\ UNCHANGED <<expired, locals, crossed>>

\* repo.update(id, { ... }): one UPDATE, of no row if the account is gone
Set(r) ==
    LET u == req[r].id
    IN  /\ pc[r] = "set"
        /\ Goto(r, "ok")
        /\ users' = IF users[u] = None THEN users
                    ELSE [users EXCEPT ![u] = Assign(@, Patch(r))]
        /\ UNCHANGED <<expired, locals, crossed>>

\* repo.save(user) first selects the row
Reload(r) ==
    /\ pc[r] = "reload"
    /\ Goto(r, "save")
    /\ old' = [old EXCEPT ![r] = users[req[r].id]]
    /\ UNCHANGED <<users, expired, req, user, crossed>>

\* A variant with a bug: a property set to null is left out of the UPDATE
ChangedNotNull(new, was, now) == IF new # was /\ new # None THEN new ELSE now

\* SET column = new only where the entity differs from the row selected
Changed(new, was, now) == IF new # was THEN new ELSE now

Crossings(row, r) ==
    {c \in Columns : row[c] # user[r][c] \/ row[c] # old[r][c]}

\* ... then UPDATEs what differs, or INSERTs the entity if there was no row
Save(r) ==
    LET u == req[r].id
        e == Assign(user[r], Patch(r))
    IN  /\ pc[r] = "save"
        /\ \/ /\ old[r] = None
              /\ IF users[u] # None \/ EmailTaken(e.email)
                 THEN Goto(r, "error") /\ UNCHANGED <<users, crossed>>
                 ELSE /\ Goto(r, "ok")
                      /\ users' = [users EXCEPT ![u] = e]
                      /\ crossed' = crossed \cup ({u} \X Columns)
           \/ /\ old[r] # None
              /\ users[u] = None
              /\ Goto(r, "ok")
              /\ UNCHANGED <<users, crossed>>
           \/ /\ old[r] # None
              /\ users[u] # None
              /\ Goto(r, "ok")
              /\ users' = [users EXCEPT ![u] =
                   [c \in Columns |-> Changed(e[c], old[r][c], users[u][c])]]
              /\ crossed' = crossed \cup ({u} \X Crossings(users[u], r))
        /\ user' = [user EXCEPT ![r] = None]
        /\ old' = [old EXCEPT ![r] = None]
        /\ UNCHANGED <<expired, req>>

\* verifyMfaAndLogin reads the row once more for the claims of its tokens
ReadAgain(r) ==
    /\ pc[r] = "readAgain"
    /\ Goto(r, IF users[req[r].id] = None THEN "notFound" ELSE "ok")
    /\ UNCHANGED <<users, expired, locals, crossed>>

\* repo.remove(user), refused while a course or an enrollment refers to it
Delete(r) ==
    /\ pc[r] = "delete"
    /\ \/ Goto(r, "ok") /\ users' = [users EXCEPT ![req[r].id] = None]
       \/ Goto(r, "error") /\ UNCHANGED users
    /\ UNCHANGED <<expired, locals, crossed>>

\* The call a handler awaits rejects, or its process dies
Fail(r) ==
    /\ MayFail
    /\ pc[r] \in Steps
    /\ Goto(r, "error")
    /\ user' = [user EXCEPT ![r] = None]
    /\ old' = [old EXCEPT ![r] = None]
    /\ UNCHANGED <<users, expired, req, crossed>>

\* The hour of a reset token is over
Lapse(t) ==
    /\ t \notin expired
    /\ \E u \in Ids : users[u] # None /\ users[u].passwordResetToken = t
    /\ expired' = expired \cup {t}
    /\ UNCHANGED <<users, pc, locals, crossed>>

Arrival(r) ==
    \/ Register(r) \/ Login(r) \/ VerifyMfa(r) \/ Refresh(r)
    \/ ForgotPassword(r) \/ ResetPassword(r) \/ VerifyEmail(r)
    \/ Update(r) \/ ChangePassword(r) \/ Remove(r)
    \/ GenerateMfa(r) \/ EnableMfa(r) \/ DisableMfa(r)

Serve(r) ==
    \/ Insert(r) \/ Set(r) \/ Reload(r) \/ Save(r) \/ ReadAgain(r) \/ Delete(r)

Next ==
    \/ \E r \in Requests : Arrival(r) \/ Serve(r) \/ Fail(r)
    \/ \E t \in Names : Lapse(t)

Spec == Init /\ [][Next]_vars
----------------------------------------------------------------------------
(* What a handler holds at each step *)

StepOK(r) ==
    /\ pc[r] = "idle" => req[r] = None
    /\ pc[r] # "idle" => req[r] \in Call
    /\ pc[r] \in Steps => req[r].id \in Ids
    /\ pc[r] = "insert" => req[r].op = "register"
    /\ pc[r] = "set" => req[r].op \in SetOps
    /\ pc[r] \in {"reload", "save"} => req[r].op \in SaveOps /\ user[r] \in Row
    /\ pc[r] \in Steps \cup {"ok"} /\ req[r].op = "register" =>
         req[r].id = r /\ req[r].email \in Emails

\* Type invariant: every column holds what it may hold, and every handler
\* what its step needs
TypeOK ==
    /\ users \in [Ids -> Row \cup {None}]
    /\ expired \subseteq Names
    /\ pc \in [Requests -> {"idle"} \cup Steps \cup Answers]
    /\ req \in [Requests -> Call \cup {None}]
    /\ user \in [Requests -> Row \cup {None}]
    /\ old \in [Requests -> Row \cup {None}]
    /\ crossed \subseteq Ids \X Columns
    /\ \A r \in Requests : StepOK(r)

----------------------------------------------------------------------------
(* Safety *)

\* An address has one account, however registrations overlap and also when a
\* save brings back a removed account whose address was given to another
UniqueEmail ==
    \A u, v \in Ids :
        users[u] # None /\ users[v] # None /\ users[u].email = users[v].email
            => u = v

\* The columns request r set out to write, and what it writes there
Writes(r) ==
    IF req[r].op \in SaveOps \cup SetOps THEN DOMAIN Patch(r)
    ELSE IF req[r].op = "register" THEN Columns ELSE {}

Written(r, c) == IF req[r].op = "register" THEN NewUser(r)[c] ELSE Patch(r)[c]

\* Some other request for the account of r sets out to write column c
OtherWriter(r, c) ==
    \E q \in Requests \ {r} :
        /\ pc[q] # "idle"
        /\ req[q].id = req[r].id
        /\ c \in Writes(q)

\* What the service has answered it has done stays done: a column holds what
\* the answered request wrote there unless another request set out to write
\* it, and a removed account stays away; saves write the whole entity back,
\* and the exceptions are the columns they crossed
AnsweredWritesHold ==
    \A r \in Requests :
        pc[r] = "ok" /\ req[r].id # None =>
          LET u == req[r].id
          IN  /\ users[u] # None =>
                   \A c \in Writes(r) : \/ users[u][c] = Written(r, c)
                                        \/ OtherWriter(r, c)
                                        \/ <<u, c>> \in crossed
              /\ req[r].op = "remove" =>
                   users[u] = None \/ {u} \X Columns \subseteq crossed

\* What an answered request used up: the password it replaced, the link
Spends(r) ==
    IF req[r].op = "changePassword" THEN {"password"}
    ELSE IF req[r].op = "resetPassword" THEN {"passwordResetToken"}
    ELSE IF req[r].op = "verifyEmail" /\ req[r].given # None
         THEN {"emailVerificationToken"} ELSE {}

\* A replaced password does not come back, and a reset or verification link
\* that was answered is not stored again, whatever else changes the account,
\* unless a save crossed the column
SpentStaysSpent ==
    \A r \in Requests :
        pc[r] = "ok" =>
          \A c \in Spends(r) :
              LET u == req[r].id
              IN  \/ users[u] = None
                  \/ users[u][c] # req[r].given
                  \/ <<u, c>> \in crossed

\* The column the first query of an operation compares with what is presented
Presents(op) ==
    IF op = "login" THEN "password"
    ELSE IF op = "resetPassword" THEN "passwordResetToken"
    ELSE IF op = "verifyEmail" THEN "emailVerificationToken" ELSE "none"

\* In this step q is done and r arrives for the same account
ArrivesAfter(r, q) ==
    /\ pc[r] = "idle" /\ pc'[r] # "idle"
    /\ pc[q] = "ok"
    /\ req'[r].id = req[q].id
    /\ req[q].id # None

\* Who comes with a password that was replaced, or with a reset or
\* verification link that was answered before, is refused, unless a save
\* crossed the column
SpentIsRefused ==
    [][\A r, q \in Requests :
         /\ ArrivesAfter(r, q)
         /\ req'[r].given = req[q].given
         /\ Presents(req'[r].op) \in Spends(q)
         => \/ pc'[r] \in {"unauthorized", "badRequest"}
            \/ <<req[q].id, Presents(req'[r].op)>> \in crossed]_vars

Unsettled(q, c) == OtherWriter(q, c) \/ <<req[q].id, c>> \in crossed

\* Who was answered that a password is set signs in with it, and who was
\* answered that the second factor is on gets past it with a code of the
\* secret confirmed then, unless another request sets out to change these or
\* a save crossed them
AnsweredSecretsWork ==
    [][\A r, q \in Requests :
         ArrivesAfter(r, q) =>
           /\ /\ req'[r].op = "login" /\ req'[r].given = q
              /\ "password" \in Writes(q)
              => pc'[r] # "unauthorized" \/ Unsettled(q, "password")
           /\ /\ req'[r].op = "verifyMfa" /\ req'[r].given = req[q].given
              /\ req[q].op = "enableMfa" /\ users[req[q].id] # None
              => \/ pc'[r] = "readAgain"
                 \/ Unsettled(q, "mfaSecret") \/ Unsettled(q, "isMfaEnabled")]_vars

\* An account with a second factor has a secret to check codes against, or
\* nobody could sign in to it: verifyMfaToken refuses every code without one
EnabledHasSecret ==
    \A u \in Ids :
        users[u] # None /\ users[u].isMfaEnabled =>
          \/ users[u].mfaSecret # None
          \/ crossed \cap {<<u, "mfaSecret">>, <<u, "isMfaEnabled">>} # {}
=============================================================================
