------------------------- MODULE CircuitBreakerProofs -------------------------
(***************************************************************************)
(* Proofs about CircuitBreaker.tla, for any number of overlapping calls,   *)
(* any threshold and any recovery window.                                  *)
(***************************************************************************)
EXTENDS CircuitBreaker, TLAPS

USE BreakerAssumption

\* Each field of the service keeps to its type
THEOREM BreakerType == Spec => []TypeOK
<1>1. Init => TypeOK
  BY DEF Init, TypeOK, States
<1>2. TypeOK /\ [Next]_vars => TypeOK'
  <2> SUFFICES ASSUME TypeOK, [Next]_vars PROVE TypeOK'
    OBVIOUS
  <2> USE DEF TypeOK, States
  <2>1. ASSUME NEW c \in Calls, Start(c) PROVE TypeOK'
    BY <2>1 DEF Start
  <2>2. ASSUME NEW c \in Calls, Success(c) PROVE TypeOK'
    BY <2>2 DEF Success, CountAfterSuccess
  <2>3. ASSUME NEW c \in Calls, Failure(c) PROVE TypeOK'
    BY <2>3 DEF Failure, Tripped
  <2>4. CASE Tick
    BY <2>4 DEF Tick
  <2>5. ASSUME NEW c \in Calls, Refuse(c) PROVE TypeOK'
    BY <2>5 DEF Refuse, WindowAfterRefusal
  <2>6. CASE Outage \/ UNCHANGED vars
    BY <2>6 DEF Outage, vars
  <2>7. QED BY <2>1, <2>2, <2>3, <2>4, <2>5, <2>6 DEF Next, Settle
<1>3. QED BY <1>1, <1>2, PTL DEF Spec

\* Whatever the order in which overlapping calls settle, the breaker is
\* closed exactly while fewer failures are counted than the threshold
THEOREM Consistent == Spec => []BreakerConsistent
<1>1. Init => BreakerConsistent
  BY DEF Init, BreakerConsistent
<1>2. TypeOK /\ BreakerConsistent /\ [Next]_vars => BreakerConsistent'
  <2> SUFFICES ASSUME TypeOK, BreakerConsistent, [Next]_vars
               PROVE  BreakerConsistent'
    OBVIOUS
  <2> USE DEF BreakerConsistent, TypeOK
  <2>1. ASSUME NEW c \in Calls, Start(c) PROVE BreakerConsistent'
    BY <2>1 DEF Start
  <2>2. ASSUME NEW c \in Calls, Success(c) PROVE BreakerConsistent'
    BY <2>2 DEF Success, CountAfterSuccess
  <2>3. ASSUME NEW c \in Calls, Failure(c) PROVE BreakerConsistent'
    BY <2>3 DEF Failure, Tripped
  <2>4. CASE Tick \/ Outage \/ UNCHANGED vars
    BY <2>4 DEF Tick, Outage, vars
  <2>5. ASSUME NEW c \in Calls, Refuse(c) PROVE BreakerConsistent'
    BY <2>5 DEF Refuse
  <2>6. QED BY <2>1, <2>2, <2>3, <2>4, <2>5 DEF Next, Settle
<1>3. QED BY <1>1, <1>2, BreakerType, PTL DEF Spec

\* The breaker is half open only once the window has passed
HalfOpenLate == state = "HALF_OPEN" => timeLeft = 0

LEMMA LateHalfOpen == Spec => []HalfOpenLate
<1>1. Init => HalfOpenLate
  BY DEF Init, HalfOpenLate
<1>2. TypeOK /\ HalfOpenLate /\ [Next]_vars => HalfOpenLate'
  <2> SUFFICES ASSUME TypeOK, HalfOpenLate, [Next]_vars PROVE HalfOpenLate'
    OBVIOUS
  <2> USE DEF HalfOpenLate, TypeOK
  <2>1. ASSUME NEW c \in Calls, Start(c) \/ Refuse(c) PROVE HalfOpenLate'
    BY <2>1 DEF Start, Refuse, Admits
  <2>2. ASSUME NEW c \in Calls, Settle(c) PROVE HalfOpenLate'
    BY <2>2 DEF Settle, Success, Failure, Tripped
  <2>3. CASE Tick \/ Outage \/ UNCHANGED vars
    BY <2>3 DEF Tick, Outage, vars
  <2>4. QED BY <2>1, <2>2, <2>3 DEF Next
<1>3. QED BY <1>1, <1>2, BreakerType, PTL DEF Spec

\* In a recovery window no call is let through to the database until some
\* call has succeeded: the breaker that lets one through is closed, as it is
\* not half open before the window has passed, and closed it has counted
\* fewer failures than the threshold
THEOREM Shields == Spec => ShieldedUntilSuccess
<1> DEFINE Late == \A c \in Calls :
                     c \in running' \ running /\ timeLeft > 0
                       => failureCount < FailureThreshold
<1>1. TypeOK /\ BreakerConsistent /\ HalfOpenLate /\ [Next]_vars => [Late]_vars
  <2> SUFFICES ASSUME TypeOK, BreakerConsistent, HalfOpenLate, Next,
                      NEW c \in Calls, c \in running' \ running, timeLeft > 0
               PROVE  failureCount < FailureThreshold
    BY DEF vars
  <2>1. PICK d \in Calls : Start(d)
    BY DEF Next, Refuse, Settle, Success, Failure, Tick, Outage
  <2>2. state = "CLOSED"
    BY <2>1 DEF Start, Admits, TypeOK, States, HalfOpenLate
  <2>3. QED BY <2>2 DEF BreakerConsistent
<1>2. QED BY <1>1, BreakerType, Consistent, LateHalfOpen, PTL
          DEF Spec, ShieldedUntilSuccess
=============================================================================
