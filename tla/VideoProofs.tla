---------------------------- MODULE VideoProofs ----------------------------
(***************************************************************************)
(* Proofs about Video: for every file size, chunk size, token life and     *)
(* range header, however often the connection breaks and the token expires,*)
(* the player assembles the bytes it asked for, and an answer is of the    *)
(* promised length.                                                        *)
(***************************************************************************)
EXTENDS Video, TLAPS

\* The range the response under way was asked with
Under == [first |-> answer.first, last |-> asked.last]

\* While a response arrives, what arrived is what the player has gained
Arriving ==
    pc = "open" =>
      /\ asked.first # NaN
      /\ next = answer.first + sent
      /\ answer = Response(Under)
      /\ answer.first <= answer.last
      /\ sent = 0 \/ Byte(answer, sent - 1) <= Least(answer.last, size - 1)

\* The player's place: at the start of its range, or behind a byte it has
Placed ==
    /\ asked.first = NaN => next = NaN /\ got = {} /\ pc \in {"ready", "refused", "failed"}
    /\ asked.first # NaN =>
         /\ next \in Nat
         /\ asked.first <= next
         /\ got = asked.first .. next - 1
         /\ next # asked.first =>
              /\ next <= size
              /\ asked.last # NaN => next <= asked.last + 1

\* It asks again only for what is missing
Wanting ==
    pc \in {"ready", "refused"} /\ next # asked.first => ~Satisfied

IInv == TypeOK /\ Arriving /\ Placed /\ Wanting /\ Assembled /\ LengthHonest

USE VideoAssumption

LEMMA InitHolds == Init => IInv
  <1> SUFFICES ASSUME Init PROVE IInv
      OBVIOUS
  <1> USE DEF Init
  <1>1. size \in Nat /\ size > 0
      OBVIOUS
  <1>2. asked \in Headers /\ asked.first \in Nat \cup {NaN}
      BY <1>1 DEF Headers, Places
  <1>3. TypeOK
      BY <1>1, <1>2 DEF TypeOK, NoAnswer
  <1>4. Placed /\ Arriving /\ Wanting /\ LengthHonest
      BY <1>1, <1>2 DEF Placed, Arriving, Wanting, LengthHonest
  <1>5. Assembled
      BY <1>1, <1>2 DEF Assembled
  <1> QED BY <1>3, <1>4, <1>5 DEF IInv

\* What the type invariant says of sizes and ranges
LEMMA Shapes ==
    ASSUME TypeOK
    PROVE  /\ size \in Nat /\ size > 0
           /\ asked = [first |-> asked.first, last |-> asked.last]
           /\ asked.first \in Nat \cup {NaN}
           /\ asked.last \in Nat \cup {NaN}
  BY DEF TypeOK, Headers, Places

\* What holds while a response arrives
LEMMA Open ==
    ASSUME IInv, pc = "open"
    PROVE  /\ next \in Nat /\ sent \in Nat
           /\ next = answer.first + sent
           /\ answer.first \in Nat /\ answer.last \in Nat
           /\ answer.first <= answer.last
           /\ answer.length = answer.last - answer.first + 1
           /\ answer.last = Last(Under)
           /\ asked.first \in Nat /\ asked.first <= next
           /\ got = asked.first .. next - 1
           /\ asked.last # NaN => asked.last \in Nat /\ answer.last = asked.last
           /\ asked.last = NaN => answer.last <= size - 1
  <1>1. /\ size \in Nat /\ size > 0
        /\ asked.first \in Nat \cup {NaN}
        /\ asked.last \in Nat \cup {NaN}
      BY Shapes DEF IInv
  <1>2. /\ sent \in Nat
        /\ answer.first \in Nat /\ answer.last \in Nat
      BY DEF IInv, TypeOK
  <1>3. /\ asked.first # NaN
        /\ next = answer.first + sent
        /\ answer = Response(Under)
        /\ answer.first <= answer.last
      BY DEF IInv, Arriving
  <1>4. answer.last = Last(Under) /\ answer.length = Length(answer.first, Last(Under))
      BY <1>3 DEF Response, Under
  <1>5. asked.first <= next /\ got = asked.first .. next - 1
      BY <1>3 DEF IInv, Placed
  <1>6. asked.last # NaN => answer.last = asked.last
      BY <1>4 DEF Last, Under
  <1>7. asked.last = NaN => answer.last = Least(answer.first + Chunk, size - 1)
      BY <1>4 DEF Last, Under
  <1>8. asked.last = NaN => answer.last <= size - 1
      BY <1>1, <1>2, <1>7 DEF Least
  <1> QED BY <1>1, <1>2, <1>3, <1>4, <1>5, <1>6, <1>8 DEF Length

\* A byte that can be read lies within the response and the file
LEMMA Readable ==
    ASSUME IInv, pc = "open", HasByte(answer, sent)
    PROVE  next <= answer.last /\ next <= size - 1
  <1>1. size \in Nat
      BY Shapes DEF IInv
  <1>2. next = answer.first + sent /\ next \in Nat /\ answer.last \in Nat
      BY Open
  <1>3. next <= Least(answer.last, size - 1)
      BY <1>2 DEF HasByte, Byte
  <1> QED BY <1>1, <1>2, <1>3 DEF Least

LEMMA StepHolds == IInv /\ [Next]_vars => IInv'
  <1> SUFFICES ASSUME IInv, [Next]_vars PROVE IInv'
      OBVIOUS
  <1> USE DEF IInv
  <1>1. /\ size \in Nat /\ size > 0
        /\ asked = [first |-> asked.first, last |-> asked.last]
        /\ asked.first \in Nat \cup {NaN}
        /\ asked.last \in Nat \cup {NaN}
      BY Shapes
  <1>2. CASE GenerateStreamToken
      <2>1. TypeOK'
          BY <1>2 DEF GenerateStreamToken, TypeOK, Headers, Places
      <2> QED BY <1>2, <2>1 DEF GenerateStreamToken, Arriving, Placed, Wanting,
                 Satisfied, Assembled, Denoted, LengthHonest, Satisfiable
  <1>3. CASE Refuse
      <2>1. TypeOK'
          BY <1>3 DEF Refuse, TypeOK, Headers, Places
      <2> QED BY <1>3, <2>1 DEF Refuse, Arriving, Placed, Wanting,
                 Satisfied, Assembled, Denoted, LengthHonest, Satisfiable
  <1>4. CASE Tick
      <2>1. TypeOK'
          BY <1>4 DEF Tick, TypeOK, Headers, Places
      <2> QED BY <1>4, <2>1 DEF Tick, Arriving, Under, Response, Placed, Wanting,
                 Satisfied, Assembled, Denoted, LengthHonest, Satisfiable, Byte,
                 Least, Last, Length
  <1>5. CASE StreamRange
      <2> DEFINE h == [first |-> next, last |-> asked.last]
      <2>1. h = [asked EXCEPT !.first = next]
          BY <1>1
      <2>2. CASE Unreadable(h)
          <3>1. /\ pc' = "failed" /\ sent' = 0
                /\ UNCHANGED <<size, asked, left, next, got, answer>>
              BY <1>5, <2>1, <2>2 DEF StreamRange
          <3>2. TypeOK'
              BY <3>1 DEF TypeOK, Headers, Places
          <3>3. Arriving' /\ Placed' /\ Wanting' /\ Assembled'
              BY <3>1 DEF Arriving, Placed, Wanting, Assembled
          <3>4. ~Satisfiable
              <4> SUFFICES ASSUME Satisfiable PROVE FALSE
                  OBVIOUS
              <4>1. next \in Nat /\ next # NaN
                  BY <1>1 DEF Satisfiable, Placed
              <4>2. next > Last(h)
                  BY <2>2, <4>1 DEF Unreadable
              <4>3. CASE next = asked.first
                  BY <1>1, <4>1, <4>2, <4>3 DEF Satisfiable, Last, Least
              <4>4. CASE next # asked.first
                  <5>1. ~Satisfied
                      BY <1>5, <4>4 DEF StreamRange, Wanting
                  <5> QED BY <1>1, <4>1, <4>2, <5>1 DEF Satisfied, Last, Least
              <4> QED BY <4>3, <4>4
          <3>5. LengthHonest'
              BY <3>1, <3>4 DEF LengthHonest, Satisfiable
          <3> QED BY <3>2, <3>3, <3>5
      <2>3. CASE ~Unreadable(h)
          <3>1. /\ pc' = "open" /\ sent' = 0 /\ answer' = Response(h)
                /\ UNCHANGED <<size, asked, left, next, got>>
              BY <1>5, <2>1, <2>3 DEF StreamRange
          <3>2. next \in Nat /\ asked.first # NaN
              BY <2>3, <1>1 DEF Unreadable, Placed
          <3>3. Last(h) \in Nat /\ next <= Last(h)
              BY <1>1, <2>3, <3>2 DEF Unreadable, Last, Least
          <3>4. /\ answer' = [first |-> next, last |-> Last(h),
                              length |-> Length(next, Last(h))]
                /\ Length(next, Last(h)) \in Nat
              BY <3>1, <3>2, <3>3 DEF Response, Length
          <3>5. TypeOK'
              BY <3>1, <3>2, <3>3, <3>4 DEF TypeOK, Headers, Places
          <3>6. Under' = h
              BY <3>1, <3>4 DEF Under
          <3>7. Response(h)' = Response(h)
              BY <3>1 DEF Response, Last, Length
          <3>8. Arriving'
              BY <3>1, <3>2, <3>3, <3>4, <3>6, <3>7 DEF Arriving, Response, Last, Length, Least
          <3>9. Placed' /\ Wanting' /\ Assembled' /\ LengthHonest'
              BY <3>1, <3>2 DEF Placed, Wanting, Assembled, LengthHonest
          <3> QED BY <3>5, <3>8, <3>9
      <2> QED BY <2>2, <2>3
  <1>6. CASE Receive
      <2>1. /\ pc = "open" /\ pc' = "open"
            /\ next \in Nat /\ sent \in Nat
            /\ next = answer.first + sent
            /\ answer.first \in Nat /\ answer.last \in Nat
            /\ asked.first \in Nat /\ asked.first <= next
            /\ next <= answer.last /\ next <= size - 1
            /\ sent' = sent + 1 /\ next' = next + 1
            /\ got' = got \cup {next}
            /\ UNCHANGED <<size, asked, left, answer>>
          <3>1. pc = "open" /\ HasByte(answer, sent)
              BY <1>6 DEF Receive
          <3>2. Byte(answer, sent) = next
              BY <3>1, Open DEF Byte
          <3> QED BY <1>6, <3>1, <3>2, Open, Readable DEF Receive
      <2>2. got = asked.first .. next - 1
          BY <2>1, Open
      <2>3. got' = asked.first .. next' - 1
          BY <2>1, <2>2
      <2>4. TypeOK'
          <3>1. next \in 0 .. size - 1
              BY <1>1, <2>1
          <3>2. got' \subseteq 0 .. size' - 1
              BY <2>1, <3>1 DEF TypeOK
          <3>3. next' \in Nat /\ sent' \in Nat
              BY <2>1
          <3>4. Headers' = Headers
              BY <2>1 DEF Headers, Places
          <3> QED BY <2>1, <3>2, <3>3, <3>4 DEF TypeOK
      <2>5. asked.last # NaN => next <= asked.last
          BY <2>1, Open
      <2>6. Placed'
          <3>1. next' \in Nat /\ asked.first <= next' /\ next' <= size
              BY <1>1, <2>1
          <3>2. asked.last # NaN => next' <= asked.last + 1
              BY <1>1, <2>1, <2>5
          <3>3. asked' = asked /\ size' = size /\ asked.first # NaN
              BY <2>1
          <3> QED BY <2>3, <3>1, <3>2, <3>3 DEF Placed
      <2>7. Arriving'
          <3>1. answer = Response(Under) /\ answer.first <= answer.last
              BY <2>1 DEF Arriving
          <3>2. Response(Under)' = Response(Under)
              BY <2>1 DEF Response, Under, Last, Length
          <3>3. Byte(answer, sent)' = Byte(answer, sent + 1)
              BY <2>1 DEF Byte
          <3>4. (Byte(answer, sent - 1) <= Least(answer.last, size - 1))'
              BY <1>1, <2>1 DEF Byte, Least
          <3> QED BY <1>1, <2>1, <3>1, <3>2, <3>4 DEF Arriving
      <2>8. Wanting' /\ Assembled' /\ LengthHonest'
          BY <2>1, <2>3 DEF Wanting, Assembled, LengthHonest
      <2> QED BY <2>4, <2>6, <2>7, <2>8
  <1>7. CASE Finish
      <2>1. /\ pc = "open"
            /\ next \in Nat /\ sent \in Nat
            /\ next = answer.first + sent
            /\ answer.first \in Nat /\ answer.last \in Nat
            /\ answer.first <= answer.last
            /\ asked.first \in Nat /\ asked.first <= next
            /\ answer.length = answer.last - answer.first + 1
            /\ answer.last = Last(Under)
            /\ next > answer.last \/ next > size - 1
            /\ sent = 0 \/ (next - 1 <= answer.last /\ next - 1 <= size - 1)
            /\ UNCHANGED <<size, asked, left, next, got, answer, sent>>
          <3>1. pc = "open" /\ ~HasByte(answer, sent)
              BY <1>7 DEF Finish
          <3>2. next > answer.last \/ next > size - 1
              BY <1>1, <3>1, Open DEF HasByte, Byte, Least
          <3>3. sent = 0 \/ Byte(answer, sent - 1) <= Least(answer.last, size - 1)
              BY <3>1 DEF Arriving
          <3>4. sent = 0 \/ (next - 1 <= answer.last /\ next - 1 <= size - 1)
              <4>1. /\ next = answer.first + sent /\ sent \in Nat
                    /\ answer.first \in Nat /\ answer.last \in Nat
                  BY <3>1, Open
              <4>2. sent = 0 \/ next - 1 <= Least(answer.last, size - 1)
                  BY <3>3, <4>1 DEF Byte
              <4> QED BY <1>1, <4>1, <4>2 DEF Least
          <3> QED BY <1>7, <3>1, <3>2, <3>4, Open DEF Finish
      <2>2. got = asked.first .. next - 1
          BY <2>1, Open
      <2>3. TypeOK'
          BY <1>7, <2>1 DEF Finish, TypeOK, Headers, Places
      <2>4. CASE sent # answer.length
          <3>1. pc' = "short"
              BY <1>7, <2>4 DEF Finish
          <3>2. asked.last # NaN /\ asked.last >= size
              <4>1. sent \in Nat /\ answer.length = answer.last - answer.first + 1
                  BY <2>1
              <4>2. next # answer.last + 1
                  BY <2>1, <2>4
              <4>3. next <= answer.last
                  BY <2>1, <4>2
              <4>4. answer.last > size - 1
                  BY <1>1, <2>1, <4>3
              <4>5. asked.last # NaN
                  BY <1>1, <2>1, <4>4, Open
              <4>6. answer.last = asked.last
                  BY <2>1, <4>5, Open
              <4> QED BY <1>1, <2>1, <4>4, <4>5, <4>6
          <3> QED BY <2>1, <2>3, <3>1, <3>2 DEF Arriving, Placed, Wanting,
                     Assembled, LengthHonest
      <2>5. CASE sent = answer.length
          <3>1. next = answer.last + 1 /\ next - 1 <= size - 1
              BY <2>1, <2>5
          <3>2. pc' = IF Satisfied THEN "done" ELSE "ready"
              BY <1>7, <2>5 DEF Finish
          <3>3. Arriving' /\ Placed' /\ LengthHonest'
              BY <2>1, <3>2 DEF Arriving, Placed, LengthHonest
          <3>4. Wanting'
              BY <2>1, <3>2 DEF Wanting, Satisfied
          <3>5. Satisfied => got = Denoted
              <4>1. CASE asked.last = NaN
                  BY <1>1, <2>1, <2>2, <3>1, <4>1 DEF Satisfied, Denoted
              <4>2. CASE asked.last # NaN
                  <5>1. answer.last = asked.last
                      BY <2>1, <4>2 DEF Last, Under
                  <5>2. Least(asked.last, size - 1) = next - 1
                      BY <1>1, <2>1, <3>1, <4>2, <5>1 DEF Least
                  <5> QED BY <2>2, <4>2, <5>2 DEF Denoted
              <4> QED BY <4>1, <4>2
          <3>6. Assembled'
              BY <2>1, <2>2, <3>2, <3>5 DEF Assembled, Denoted
          <3> QED BY <2>3, <3>3, <3>4, <3>6
      <2> QED BY <2>4, <2>5
  <1>8. CASE Break
      <2>1. /\ pc = "open" /\ pc' = "ready"
            /\ next \in Nat /\ next <= size - 1 /\ next <= answer.last
            /\ answer.last \in Nat
            /\ UNCHANGED <<size, asked, left, next, got, answer, sent>>
          BY <1>8, Open, Readable DEF Break
      <2>2. TypeOK'
          BY <2>1 DEF TypeOK, Headers, Places
      <2>3. asked.last # NaN => next <= asked.last
          BY <2>1, Open
      <2>4. Wanting'
          BY <1>1, <2>1, <2>3 DEF Wanting, Satisfied
      <2>5. Arriving' /\ Placed' /\ Assembled' /\ LengthHonest'
          BY <2>1 DEF Arriving, Placed, Assembled, LengthHonest
      <2> QED BY <2>2, <2>4, <2>5
  <1>9. CASE UNCHANGED vars
      BY <1>9 DEF vars, TypeOK, Headers, Places, Arriving, Under, Response, Last,
         Length, Least, Byte, Placed, Wanting, Satisfied, Assembled, Denoted,
         LengthHonest, Satisfiable
  <1> QED BY <1>2, <1>3, <1>4, <1>5, <1>6, <1>7, <1>8, <1>9 DEF Next

LEMMA Invariance == Spec => []IInv
  BY InitHolds, StepHolds, PTL DEF Spec

\* The fetch, the token and the response under way keep to their types,
\* whatever the size of the file and the range asked for
THEOREM VideoType == Spec => []TypeOK
  <1>1. IInv => TypeOK
      BY DEF IInv
  <1> QED BY <1>1, Invariance, PTL

\* Whatever the sizes, however often connections break and tokens expire, the
\* player has exactly the bytes from the start of its range up to its place,
\* and all of the range's when it is done
THEOREM Assembles == Spec => []Assembled
  <1>1. IInv => Assembled
      BY DEF IInv
  <1> QED BY <1>1, Invariance, PTL

\* Content-Length is right unless a range ends past the file, and a range that
\* can be satisfied is never answered with an error
THEOREM Honest == Spec => []LengthHonest
  <1>1. IInv => LengthHonest
      BY DEF IInv
  <1> QED BY <1>1, Invariance, PTL
=============================================================================
