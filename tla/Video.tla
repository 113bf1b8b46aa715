------------------------------- MODULE Video -------------------------------
(***************************************************************************)
(* VideoStreamingService (video-streaming.service.ts): stream tokens that  *)
(* expire, manifests and segments, and byte ranges of video.mp4, as a      *)
(* player fetches them over a connection that may break.                   *)
(*                                                                         *)
(* The service keeps no state: a token carries its expiry.  What is under  *)
(* way is one fetch of one player, which asks again from the first byte it *)
(* lacks, and for a new token when it is refused.  Time is what is left of *)
(* the token's life, in ticks.                                             *)
(***************************************************************************)
EXTENDS Integers

CONSTANTS
    Sizes,       \* sizes video.mp4 may have, in bytes
    Chunk,       \* the bytes an open range may add: 1024 * 1024
    TokenTtl,    \* the life of a token, in ticks: 3600 s
    Beyond,      \* how far past the file ranges may reach (bounds the run)
    NaN          \* parseInt of nothing; an end a range leaves open

ASSUME VideoAssumption ==
    /\ Sizes \subseteq Nat \ {0}
    /\ Chunk \in Nat
    /\ TokenTtl \in Nat
    /\ Beyond \in Nat
    /\ NaN \notin Int

VARIABLES
    size,      \* the size of video.mp4
    asked,     \* the range the fetch is for: Range: bytes=<first>-<last>
    left,      \* ticks until the player's token expires; -1 when it has
    pc,        \* what the fetch is doing
    next,      \* the first byte the player lacks
    got,       \* the bytes it has
    answer,    \* the headers of the response that is arriving
    sent       \* how many bytes of its body have arrived

vars == <<size, asked, left, pc, next, got, answer, sent>>

Places  == 0 .. (size + Beyond)
Headers == [first: Places \cup {NaN}, last: Places \cup {NaN}]

Least(a, b) == IF a < b THEN a ELSE b

----------------------------------------------------------------------------
(* What the service answers *)

\* A variant with a bug: one byte too many at the end of the file
LastToTheSize(h) == IF h.last # NaN THEN h.last ELSE Least(h.first + Chunk, size)

\* endStr ? parseInt(endStr) : Math.min(start + 1024 * 1024, fileSize - 1)
Last(h) == IF h.last # NaN THEN h.last ELSE Least(h.first + Chunk, size - 1)

\* A variant with a bug: a range that ends before it starts is answered
UnreadableNaN(h) == h.first = NaN

\* createReadStream throws on a start that is no number or lies behind the end
Unreadable(h) == \/ h.first = NaN
                 \/ h.first > Last(h)

\* A variant with a bug: both ends of a range are one past the last byte
LengthBetween(a, b) == b - a

\* chunkSize
Length(a, b) == b - a + 1

\* Content-Range and Content-Length
Response(h) ==
    [first |-> h.first, last |-> Last(h), length |-> Length(h.first, Last(h))]

\* A variant with a bug: createReadStream(path, { end })
ByteFromZero(a, n) == n

\* createReadStream(path, { start, end }): the byte read after n others, and
\* whether there is one
Byte(a, n) == a.first + n
HasByte(a, n) == Byte(a, n) <= Least(a.last, size - 1)

\* verifyStreamToken: not Date.now() > expiresAt
Valid(t) == t >= 0

----------------------------------------------------------------------------
(* The player *)

NoAnswer == [first |-> 0, last |-> 0, length |-> 0]

Init ==
    /\ size \in Sizes
    /\ asked \in Headers
    /\ asked.first = NaN => asked.last # NaN      \* bytes=-<n>
    /\ left = -1
    /\ pc = "ready"
    /\ next = asked.first
    /\ got = {}
    /\ answer = NoAnswer
    /\ sent = 0

\* POST /video/token/:lessonId
GenerateStreamToken ==
    /\ pc = "refused"
    /\ left' = TokenTtl
    /\ pc' = "ready"
    /\ UNCHANGED <<size, asked, next, got, answer, sent>>

\* GET /video/:lessonId/mp4, from the first byte the player lacks
StreamRange ==
    LET h == [asked EXCEPT !.first = next]
    IN  /\ pc = "ready" /\ Valid(left)
        /\ IF Unreadable(h)
           THEN pc' = "failed" /\ UNCHANGED answer
           ELSE pc' = "open" /\ answer' = Response(h)
        /\ sent' = 0
        /\ UNCHANGED <<size, asked, left, next, got>>

\* The token has expired
Refuse ==
    /\ pc = "ready" /\ ~Valid(left)
    /\ pc' = "refused"
    /\ UNCHANGED <<size, asked, left, next, got, answer, sent>>

\* The next byte of the body arrives
Receive ==
    /\ pc = "open" /\ HasByte(answer, sent)
    /\ got' = got \cup {Byte(answer, sent)}
    /\ sent' = sent + 1
    /\ next' = next + 1
    /\ UNCHANGED <<size, asked, left, pc, answer>>

\* The last byte of the file, or of the range, is there
Satisfied == next >= size \/ (asked.last # NaN /\ next > asked.last)

\* The body is at its end: complete, or short of what its header promised
Finish ==
    /\ pc = "open" /\ ~HasByte(answer, sent)
    /\ pc' = IF sent # answer.length THEN "short"
             ELSE IF Satisfied THEN "done" ELSE "ready"
    /\ UNCHANGED <<size, asked, left, next, got, answer, sent>>

\* The connection breaks
Break ==
    /\ pc = "open" /\ HasByte(answer, sent)
    /\ pc' = "ready"
    /\ UNCHANGED <<size, asked, left, next, got, answer, sent>>

Tick ==
    /\ left >= 0
    /\ left' = left - 1
    /\ UNCHANGED <<size, asked, pc, next, got, answer, sent>>

Next == \/ GenerateStreamToken \/ StreamRange \/ Refuse
        \/ Receive \/ Finish \/ Break \/ Tick

Spec == Init /\ [][Next]_vars

\* The player goes on, asks within the life of some token, and some byte of
\* some response gets through
Fairness == /\ WF_vars(GenerateStreamToken \/ Refuse \/ Finish)
            /\ SF_vars(StreamRange)
            /\ SF_vars(Receive)

FairSpec == Spec /\ Fairness

----------------------------------------------------------------------------
(* Properties *)

\* Type invariant
TypeOK ==
    /\ size \in Sizes
    /\ asked \in Headers
    /\ left \in -1 .. TokenTtl
    /\ pc \in {"ready", "refused", "open", "short", "failed", "done"}
    /\ next \in Nat \cup {NaN}
    /\ got \subseteq 0 .. (size - 1)
    /\ answer \in [first: Nat, last: Nat, length: Nat]
    /\ sent \in Nat

\* A range the file can answer: it starts inside, and does not end before
Satisfiable ==
    /\ asked.first # NaN /\ asked.first < size
    /\ asked.last # NaN => asked.first <= asked.last

WithinFile == Satisfiable /\ (asked.last # NaN => asked.last < size)

\* The bytes the range denotes
Denoted == asked.first .. IF asked.last = NaN THEN size - 1
                          ELSE Least(asked.last, size - 1)

\* Over any number of answers, broken connections and expired tokens the
\* player puts together exactly the bytes it asked for: none is skipped
\* between two answers, and it is done when it has the last one
Assembled ==
    /\ asked.first # NaN => got = asked.first .. next - 1
    /\ pc = "done" => got = Denoted

\* An answer is as long as its Content-Length says unless the range ends past
\* the file, and is an error only if the range cannot be satisfied
LengthHonest ==
    /\ pc = "short" => asked.last # NaN /\ asked.last >= size
    /\ pc = "failed" => ~Satisfiable

\* A range inside the file is fetched in full, in the end
FetchCompletes == WithinFile ~> pc = "done"
=============================================================================
