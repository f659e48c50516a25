------------------------------ MODULE ByteRange ------------------------------
(***************************************************************************)
(* Which bytes of a file a request names: the Range header (range.rs), the *)
(* TimeSeekRange header (time_seek.rs) and the plan of an answer           *)
(* (media.rs) of rustiio-http.                                             *)
(*                                                                         *)
(* What may be missing is a set of at most one element.  A Range header is *)
(* [first, last]: 5-9 has both, 5- no last, -500 no first, and a header    *)
(* that cannot be read has neither.  A time header is [start, end].        *)
(***************************************************************************)
EXTENDS Integers

Least(a, b) == IF a <= b THEN a ELSE b
Most(a, b) == IF a >= b THEN a ELSE b

ParseRangeUnclamped(h, total) ==
    IF h.first = {}
    THEN {<<total - Least(n, total), total - 1>> : n \in {x \in h.last : x > 0 /\ total > 0}}
    ELSE {r \in {<<a, b>> : a \in h.first, b \in (IF h.last = {} THEN {total - 1} ELSE h.last)} :
             r[1] < total /\ r[1] <= r[2]}

\* The first and last byte, {} where the header is to be refused.
ParseRange(h, total) ==
    IF h.first = {}
    THEN {<<total - Least(n, total), total - 1>> : n \in {x \in h.last : x > 0 /\ total > 0}}
    ELSE {r \in {<<a, Least(b, total - 1)>> :
                    a \in h.first, b \in (IF h.last = {} THEN {total} ELSE h.last)} :
             r[1] < total /\ r[1] <= r[2]}

\* H:MM:SS.mmm, as a record of what stands between the colons.
NptTime(c) == c.hours * 3600000 + c.minutes * 60000 + c.ms
FormatNpt(ms) ==
    [hours |-> ms \div 3600000, minutes |-> (ms % 3600000) \div 60000, ms |-> ms % 60000]

\* A time that ends before it starts is no time.
ParseSeek(h) ==
    {[start |-> s, end |-> {NptTime(c) : c \in h.end}] :
        s \in {x \in {NptTime(c) : c \in h.start} : \A c \in h.end : x <= NptTime(c)}}

ByteForTime(ms, duration, total) ==
    IF duration = 0 \/ total = 0 THEN 0 ELSE Least((ms * total) \div duration, total)

\* A plan is [start, end, status, told]; told is the header that goes with it.
SeekPlan(seek, duration, total) ==
    LET last == total - 1
        start == Least(ByteForTime(seek.start, duration, total), last)
        endMs == IF seek.end = {} THEN duration ELSE Least(CHOOSE e \in seek.end : TRUE, duration)
        end == IF seek.end = {} THEN last
               ELSE Least(last, Most(start, ByteForTime(endMs, duration, total)))
    IN  [start |-> start, end |-> end, status |-> 200,
         told |-> {<<FormatNpt(seek.start), FormatNpt(endMs), FormatNpt(duration)>>}]

\* The plan of a request without a time, {} for 416.
RangePlan(range, total) ==
    LET named == UNION {ParseRange(h, total) : h \in range}
    IN  IF range = {} \/ total = 0
        THEN {[start |-> 0, end |-> Most(total - 1, 0), status |-> 200, told |-> {}]}
        ELSE {[start |-> r[1], end |-> r[2], status |-> 206,
               told |-> {<<r[1], r[2], total>>}] : r \in named}

Length(plan, total) == IF total = 0 THEN 0 ELSE plan.end - plan.start + 1

-----------------------------------------------------------------------------
(* What the headers mean.                                                  *)

BytesAsked(h, total) ==
    {x \in 0..(total - 1) :
        IF h.first = {} THEN \E n \in h.last : x >= total - n
        ELSE (\A a \in h.first : a <= x) /\ (\A b \in h.last : x <= b)}

\* The bytes of a film of even bit rate that play in the time asked for.
BytesPlayed(seek, duration, total) ==
    {x \in 0..(total - 1) :
        /\ seek.start * total <= x * duration
        /\ \A e \in seek.end : x * duration < e * total}

=============================================================================
