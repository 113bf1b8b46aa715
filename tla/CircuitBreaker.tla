--------------------------- MODULE CircuitBreaker ---------------------------
(***************************************************************************)
(* ConnectionPoolService.execute (connection-pool.service.ts): a circuit   *)
(* breaker around database calls.  Calls overlap: execute() reads the      *)
(* state before it awaits fn() and writes it when fn() settles, so a call  *)
(* admitted under one state can settle under another.                      *)
(*                                                                         *)
(* Time is kept as timeLeft, nextAttempt - Date.now() in ticks, 0 once     *)
(* nextAttempt has passed.  failureCount saturates at CountCap: the code   *)
(* only compares it with the threshold and resets it.                      *)
(***************************************************************************)
EXTENDS Naturals

CONSTANTS Calls,             \* slots for overlapping calls of execute()
          FailureThreshold,  \* failureThreshold, 5
          RecoveryTimeout,   \* recoveryTimeout, in ticks
          CountCap           \* bound of failureCount

ASSUME BreakerAssumption ==
    /\ FailureThreshold \in Nat \ {0}
    /\ RecoveryTimeout \in Nat
    /\ CountCap \in Nat
    /\ FailureThreshold <= CountCap

VARIABLES state,          \* CircuitState
          failureCount,
          timeLeft,       \* ticks until nextAttempt
          running,        \* the calls that await fn()
          dbUp            \* do calls of fn() succeed? (environment)

vars == <<state, failureCount, timeLeft, running, dbUp>>

States == {"CLOSED", "OPEN", "HALF_OPEN"}

TypeOK ==
    /\ state \in States
    /\ failureCount \in 0 .. CountCap
    /\ timeLeft \in 0 .. RecoveryTimeout
    /\ running \subseteq Calls
    /\ dbUp \in BOOLEAN

Init ==
    /\ state = "CLOSED"
    /\ failureCount = 0
    /\ timeLeft = 0
    /\ running = {}
    /\ dbUp = TRUE

\* Not (OPEN and Date.now() < nextAttempt)
Admits == state # "OPEN" \/ timeLeft = 0

\* A variant with a bug: a refused call starts the window anew
WindowRestarted == RecoveryTimeout

WindowAfterRefusal == timeLeft

\* 'Circuit breaker OPEN': a call inside the window is thrown out
Refuse(c) ==
    /\ c \notin running
    /\ ~Admits
    /\ timeLeft' = WindowAfterRefusal
    /\ UNCHANGED <<state, failureCount, running, dbUp>>

\* execute() up to await fn()
Start(c) ==
    /\ c \notin running
    /\ Admits
    /\ state' = IF state = "OPEN" THEN "HALF_OPEN" ELSE state
    /\ running' = running \cup {c}
    /\ UNCHANGED <<failureCount, timeLeft, dbUp>>

\* Variants with a bug: a success does not reset the count; it takes one
\* failure off
CountKept    == failureCount
CountDecayed == failureCount - 1

CountAfterSuccess == 0

\* fn() resolved: onSuccess, whatever the state is by now
Success(c) ==
    /\ c \in running /\ dbUp
    /\ state' = "CLOSED"
    /\ failureCount' = CountAfterSuccess
    /\ running' = running \ {c}
    /\ UNCHANGED <<timeLeft, dbUp>>

\* A variant with a bug: a failing call does not leave HALF_OPEN
TrippedOnce == IF state = "CLOSED" THEN "OPEN" ELSE state

Tripped == "OPEN"

\* fn() rejected: onFailure
Failure(c) ==
    LET count == IF failureCount < CountCap THEN failureCount + 1 ELSE CountCap
    IN  /\ c \in running /\ ~dbUp
        /\ failureCount' = count
        /\ IF count >= FailureThreshold
           THEN state' = Tripped /\ timeLeft' = RecoveryTimeout
           ELSE UNCHANGED <<state, timeLeft>>
        /\ running' = running \ {c}
        /\ UNCHANGED dbUp

\* Any amount of time passes
Tick ==
    /\ timeLeft > 0
    /\ timeLeft' \in 0 .. timeLeft - 1
    /\ UNCHANGED <<state, failureCount, running, dbUp>>

\* The calls start or stop to succeed; execute() counts every rejection of
\* fn(), whatever its reason, so this may happen around a single call
Outage ==
    /\ dbUp' = ~dbUp
    /\ UNCHANGED <<state, failureCount, timeLeft, running>>

Settle(c) == Success(c) \/ Failure(c)

Next == \/ \E c \in Calls : Start(c) \/ Refuse(c) \/ Settle(c)
        \/ Tick
        \/ Outage

Spec == Init /\ [][Next]_vars

\* Time passes and every query settles; with callers, there is always another
Settling == WF_vars(Tick) /\ \A c \in Calls : WF_vars(Settle(c))
Calling  == \A c \in Calls : WF_vars(Start(c))

BusySpec == Spec /\ Settling /\ Calling

----------------------------------------------------------------------------
\* The breaker is closed exactly while it has counted fewer failures than the
\* threshold: no order in which overlapping calls settle leaves it open with
\* the count reset, closed with the count reached, or half open with failures
\* to spare before it reopens
BreakerConsistent == state = "CLOSED" <=> failureCount < FailureThreshold

\* From a failure that opens or reopens the breaker to the end of its window,
\* no call reaches the database before some call has succeeded: the calls that
\* fail while it is half open, however many were let through, shut it again
ShieldedUntilSuccess ==
    [][\A c \in Calls :
         c \in running' \ running /\ timeLeft > 0
           => failureCount < FailureThreshold]_vars

\* A recovery window ends, although each late failure of a call admitted
\* before it opened starts it anew; the calls it refuses do not
WindowEnds == state = "OPEN" ~> state # "OPEN" \/ timeLeft = 0

\* Once the database stays up, the breaker of a busy service closes for good
Recovers == <>[]dbUp => <>[](state = "CLOSED")

\* README: "it opens the circuit for 30 seconds": an open breaker stays open
\* until its window has passed
OpenForTheWindow ==
    [][state = "OPEN" /\ timeLeft > 0 => state' = "OPEN"]_vars
=============================================================================
