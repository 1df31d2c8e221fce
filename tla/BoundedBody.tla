----------------------------- MODULE BoundedBody -----------------------------
(***************************************************************************)
(* One response body on its way through the response-size limit:           *)
(* boundedTransport.RoundTrip wraps it (transport.go:20-34); a user body is *)
(* read by GetJSON through io.ReadAll and an io.LimitReader                *)
(* (transport.go:102-114), a token body by golang.org/x/oauth2, which has a *)
(* LimitReader of its own with a fixed size.                               *)
(* Bytes are counted, not kept.  The server may declare a Content-Length   *)
(* or stream, may deliver in any pieces, with the end of the stream in the  *)
(* last piece or after it, and may fail at any byte.                       *)
(***************************************************************************)
EXTENDS Integers

CONSTANTS MaxInt,     \* the largest int64
          MaxBody,    \* the longest body a server sends
          MaxBuffer,  \* the longest buffer ReadAll offers
          TokenCap    \* external: the size golang.org/x/oauth2 reads token bodies to

ASSUME SizeAssumption ==
  /\ MaxInt \in Nat /\ MaxInt > 1
  /\ MaxBody \in Nat
  /\ MaxBuffer \in Nat /\ MaxBuffer > 0
  /\ TokenCap \in Nat /\ TokenCap > 0

VARIABLES
  reader,     \* "user" or "token"
  limit,      \* Config.MaxResponseSize
  declared,   \* Content-Length, Streamed when there is none
  size,       \* bytes the server sends before the end of the stream or a failure
  failing,    \* whether a failure, and not the end of the stream, follows them
  phase,      \* "request", "reading", "done"
  remaining,  \* boundedReadCloser.remaining
  quota,      \* io.LimitedReader.N
  taken,      \* bytes read off the wire
  body,       \* bytes ReadAll has collected
  verdict     \* how reading ended; "decode" hands the body to the JSON decoder

bodyVars == <<reader, limit, declared, size, failing, phase, remaining, quota, taken, body, verdict>>
server == <<reader, limit, declared, size, failing>>

Streamed == -1

\* int64 arithmetic: one more than the largest value is the smallest.
Inc(n) == IF n = MaxInt THEN -MaxInt - 1 ELSE n + 1

Smaller(a, b) == IF a < b THEN a ELSE b

\* A slip: the limit whose successor overflows is accepted.
LimitsToMaxInt == 1..MaxInt

\* The limits New accepts (config.go:97-104).
Limits == 1..(MaxInt - 1)

\* What a server may send: at the end of the stream net/http has handed out exactly
\* the declared length, and it reports a body that stops short of it as a failure.
Body ==
  /\ size \in 0..MaxBody
  /\ failing \in BOOLEAN
  /\ declared \in {Streamed} \union 0..MaxBody
  /\ declared # Streamed => IF failing THEN size < declared ELSE size = declared

BodyTypeOK ==
  /\ reader \in {"user", "token"}
  /\ limit \in Limits
  /\ Body
  /\ phase \in {"request", "reading", "done"}
  /\ remaining \in 0..limit
  /\ quota \in Nat
  /\ taken \in 0..size
  /\ body \in 0..taken
  /\ verdict \in {"none", "response_too_large", "read_failed", "decode"}

BodyInit ==
  /\ reader \in {"user", "token"}
  /\ limit \in Limits
  /\ Body
  /\ phase = "request"
  /\ remaining = 0 /\ quota = 0 /\ taken = 0 /\ body = 0
  /\ verdict = "none"

Done(v) == phase' = "done" /\ verdict' = v

-----------------------------------------------------------------------------
\* A slip: the reader above the transport stops at the limit, so nobody looks past it.
QuotaAtLimit == IF reader = "user" THEN limit ELSE TokenCap

\* io.LimitReader(response.Body, maxResponseSize+1)
Quota == IF reader = "user" THEN Inc(limit) ELSE TokenCap

\* A declared length over the limit is refused unread; any other body is wrapped.
RoundTrip ==
  /\ phase = "request"
  /\ \/ /\ declared > limit
        /\ Done("response_too_large")
        /\ UNCHANGED <<remaining, quota>>
     \/ /\ declared <= limit
        /\ phase' = "reading"
        /\ remaining' = limit
        /\ quota' = Quota
        /\ UNCHANGED verdict
  /\ UNCHANGED <<server, taken, body>>

\* The body's Read into a buffer of n > 0 bytes: some bytes, or the end; the end of
\* the stream, or the failure, may come with the last bytes.
WireRead(n, count, end) ==
  /\ count \in 0..Smaller(n, size - taken)
  /\ end => taken + count = size
  /\ ~end => count > 0

\* GetJSON looks at the length once more; golang.org/x/oauth2 does not.
AtEnd(length) ==
  Done(IF reader = "user" /\ length > limit THEN "response_too_large" ELSE "decode")

\* After the read: the loop of ReadAll goes on, or the verdict of its caller.
Collected(count, error) ==
  /\ taken' = taken + count
  /\ body' = body + count
  /\ quota' = quota - count
  /\ CASE error = "none" -> UNCHANGED <<phase, verdict>>
       [] error = "eof" -> AtEnd(body + count)
       [] error = "failure" -> Done("read_failed")

\* LimitReader answers for itself once its quota is used up.
QuotaUsedUp ==
  /\ phase = "reading"
  /\ quota <= 0
  /\ AtEnd(body)
  /\ UNCHANGED <<server, remaining, quota, taken, body>>

EndOfBody == IF failing THEN "failure" ELSE "eof"

\* A slip: the probe reads more than the one byte it needs.
ProbeWide ==
  /\ phase = "reading" /\ quota > 0
  /\ remaining = 0
  /\ \E count \in 0..MaxBuffer, end \in BOOLEAN :
       /\ WireRead(MaxBuffer, count, end)
       /\ \/ /\ count > 0
             /\ taken' = taken + count
             /\ Done("response_too_large")
             /\ UNCHANGED <<body, quota>>
          \/ count = 0 /\ Collected(0, EndOfBody)
  /\ UNCHANGED <<server, remaining>>

\* A slip: the end of the body is lost when it comes to the probe.
ProbeLosesEnd ==
  /\ phase = "reading" /\ quota > 0
  /\ remaining = 0
  /\ WireRead(1, 1, taken + 1 = size)
  /\ taken' = taken + 1
  /\ Done("response_too_large")
  /\ UNCHANGED <<server, remaining, body, quota>>

\* boundedReadCloser.Read when nothing remains: one byte more is one too many.
Probe ==
  /\ phase = "reading" /\ quota > 0
  /\ remaining = 0
  /\ \E count \in 0..1, end \in BOOLEAN :
       /\ WireRead(1, count, end)
       /\ \/ /\ count > 0
             /\ taken' = taken + count
             /\ Done("response_too_large")
             /\ UNCHANGED <<body, quota>>
          \/ count = 0 /\ Collected(0, EndOfBody)
  /\ UNCHANGED <<server, remaining>>

\* The bytes asked of the body, of those ReadAll has room for.
Wanted(buffer) == Smaller(Smaller(buffer, quota), Inc(remaining))

\* boundedReadCloser.Read while something remains.
Read ==
  /\ phase = "reading" /\ quota > 0
  /\ remaining > 0
  /\ \E buffer \in 1..MaxBuffer, end \in BOOLEAN :
     \E count \in 0..Wanted(buffer) :
       /\ WireRead(Wanted(buffer), count, end)
       /\ \/ /\ count > remaining
             /\ remaining' = 0
             /\ taken' = taken + count
             /\ body' = body + remaining
             /\ quota' = quota - remaining
             /\ Done("response_too_large")
          \/ /\ count <= remaining
             /\ remaining' = remaining - count
             /\ Collected(count, IF end THEN EndOfBody ELSE "none")
  /\ UNCHANGED server

BodyNext == RoundTrip \/ QuotaUsedUp \/ Probe \/ Read

\* A body is delivered, ends or fails; the client's timeout sees to the last.
BodyFairness == WF_bodyVars(BodyNext)

BodySpec == BodyInit /\ [][BodyNext]_bodyVars /\ BodyFairness

-----------------------------------------------------------------------------
(* Properties *)

\* The reader above the transport asks for more than the limit. GetJSON always does;
\* golang.org/x/oauth2 does when MaxResponseSize is below its own cap, which the default
\* (config.go:20) is not.
LooksPastLimit == reader = "user" \/ limit < TokenCap

Reported == declared > limit \/ (size > limit /\ LooksPastLimit)

\* The verdict is exact at every boundary. A body over the limit is reported as such,
\* never as a failed read (TestResponseSizeLimits), and a body within it is decoded whole
\* or, when it broke off, not at all. One reader is the exception, and it is exact how
\* far: golang.org/x/oauth2 with a limit of its own cap or more takes the first TokenCap
\* bytes for the whole, whatever follows them.
VerdictExact ==
  phase = "done" =>
    /\ verdict \in IF Reported THEN {"response_too_large"}
                   ELSE IF LooksPastLimit \/ size < TokenCap
                     THEN {IF failing THEN "read_failed" ELSE "decode"}
                   ELSE IF size = TokenCap /\ failing THEN {"read_failed", "decode"}
                   ELSE {"decode"}
    /\ verdict = "decode" => body = IF LooksPastLimit THEN size ELSE Smaller(size, TokenCap)

\* However large the body, at most one byte past the limit is read of it
\* (transport.go:47, 54-55).
WireBounded == taken <= limit + 1

\* Reading ends, with a verdict: no end, failure or excess is lost between the two
\* readers and looped on.
ReadingEnds == <>(phase = "done")

BodyIInv ==
  /\ BodyTypeOK
  /\ phase = "request" => remaining = 0 /\ taken = 0 /\ body = 0 /\ verdict = "none"
  /\ phase = "reading" =>
       /\ remaining + body = limit
       /\ quota + body = IF reader = "user" THEN limit + 1 ELSE TokenCap
       /\ body = taken
       /\ declared <= limit
       /\ verdict = "none"
  /\ phase = "done" =>
       /\ VerdictExact
       /\ taken <= limit + 1
=============================================================================
