----------------------------- MODULE HouseProofs -----------------------------
(***************************************************************************)
(* Proofs about the components that serve one house and share no state.    *)
(*                                                                         *)
(* FileServing: for every size of a file and every header, a television    *)
(* gets the bytes it asked for, as many as announced, whatever happens to  *)
(* the file and to the library meanwhile.                                  *)
(*                                                                         *)
(* Recognition: for every list of profiles, whatever the texts and however *)
(* long, a profile that names the address of a device wins, and so does    *)
(* one made from the device's own texts over all that find twelve          *)
(* characters less in them.                                                *)
(*                                                                         *)
(* PlayState: what a device may go on with is what was last heard of it,   *)
(* in the order in which it was heard.                                     *)
(*                                                                         *)
(* Migration: in any number of processes and from any version, a database  *)
(* that has the version has every column.                                  *)
(*                                                                         *)
(* Settings: on every machine and for every measurement the encoder that a *)
(* scan recommends works and is the right one, and the identity, the edits *)
(* and the list of what waits for a restart are right, as far as no save   *)
(* was cut off or of a stale copy.                                         *)
(*                                                                         *)
(* Posters: pictures are of the films they are served for, one for a       *)
(* series, there and fresh when no pass overlapped another, as long as ids *)
(* are not given out again.                                                *)
(*                                                                         *)
(* Subtitles: a subtitle that is asked for in a language comes in that     *)
(* language, though films share the files that hold what was extracted.    *)
(***************************************************************************)
EXTENDS FileServing, Recognition, PlayState, Migration, Settings, Posters, Subtitles,
        FiniteSetTheorems, SequenceTheorems, WellFoundedInduction, TLAPS

-----------------------------------------------------------------------------
(* FileServing: arithmetic.                                                *)

LEMMA QuotientBounds ==
  ASSUME NEW a \in Nat, NEW x \in Nat, NEW d \in Nat \ {0}
  PROVE  /\ a \div d \in Nat
         /\ a <= x * d => a \div d <= x
         /\ x * d <= a => x <= a \div d
OBVIOUS

LEMMA ProductsGrow ==
  ASSUME NEW a \in Nat, NEW b \in Nat, NEW c \in Nat
  PROVE  /\ a * c \in Nat
         /\ a <= b => a * c <= b * c
         /\ a < b /\ c > 0 => a * c < b * c
OBVIOUS

\* The byte of a time is a byte of the film or the one after its last.
LEMMA ByteForTimeBounds ==
  ASSUME NEW ms \in Nat, NEW d \in Nat \ {0}, NEW n \in Nat \ {0}
  PROVE  /\ ByteForTime(ms, d, n) \in Nat
         /\ \A x \in Nat : ms * n <= x * d => ByteForTime(ms, d, n) <= x
         /\ \A x \in Nat : x <= n /\ x * d <= ms * n => x <= ByteForTime(ms, d, n)
  <1>1. ms * n \in Nat
    OBVIOUS
  <1>2. /\ (ms * n) \div d \in Nat
        /\ \A x \in Nat : ms * n <= x * d => (ms * n) \div d <= x
        /\ \A x \in Nat : x * d <= ms * n => x <= (ms * n) \div d
    BY <1>1, QuotientBounds
  <1>3. ByteForTime(ms, d, n) = Least((ms * n) \div d, n)
    BY DEF ByteForTime
  <1> DEFINE q == (ms * n) \div d
  <1> HIDE DEF q
  <1>4. /\ q \in Nat /\ ByteForTime(ms, d, n) = Least(q, n)
        /\ \A x \in Nat : ms * n <= x * d => q <= x
        /\ \A x \in Nat : x * d <= ms * n => x <= q
    BY <1>2, <1>3 DEF q
  <1>5. Least(q, n) \in Nat /\ Least(q, n) <= q /\ \A x \in Nat : x <= n /\ x <= q => x <= Least(q, n)
    BY <1>4 DEF Least
  <1>6. \A x \in Nat : ms * n <= x * d => Least(q, n) <= x
    <2>1. SUFFICES ASSUME NEW x \in Nat, ms * n <= x * d PROVE Least(q, n) <= x
      OBVIOUS
    <2>2. q <= x
      BY <1>4, <2>1
    <2>3. QED
      BY <1>4, <1>5, <2>2
  <1>7. QED
    BY <1>4, <1>5, <1>6

-----------------------------------------------------------------------------
(* Plans.                                                                  *)

\* A time as parse_seek leaves it.
SeekTypeOK(s) == s.start \in Nat /\ s.end \subseteq Nat /\ Single(s.end)

LEMMA ParsedSeeks ==
  ASSUME NEW r \in Requests, NEW h \in r.seek
  PROVE  Single(ParseSeek(h)) /\ \A s \in ParseSeek(h) : SeekTypeOK(s)
  <1>1. /\ Single(h.start) /\ Single(h.end)
        /\ \A c \in h.start \cup h.end : c.hours \in Nat /\ c.minutes \in Nat /\ c.ms \in Nat
    BY RequestsAssumption
  <1>2. \A c \in h.start \cup h.end : NptTime(c) \in Nat
    BY <1>1 DEF NptTime
  <1>3. {NptTime(c) : c \in h.end} \subseteq Nat /\ Single({NptTime(c) : c \in h.end})
    BY <1>1, <1>2 DEF Single
  <1> DEFINE ends == {NptTime(c) : c \in h.end}
             starts == {x \in {NptTime(c) : c \in h.start} : \A c \in h.end : x <= NptTime(c)}
  <1>4. starts \subseteq Nat /\ Single(starts)
    BY <1>1, <1>2 DEF Single
  <1>5. ParseSeek(h) = {[start |-> s, end |-> ends] : s \in starts}
    BY DEF ParseSeek
  <1> HIDE DEF starts, ends
  <1>6. ends \subseteq Nat /\ Single(ends)
    BY <1>3 DEF ends
  <1>7. \A s \in ParseSeek(h) : s.start \in starts /\ s.end = ends
    BY <1>5
  <1>8. Single(ParseSeek(h))
    BY <1>4, <1>5 DEF Single
  <1>9. QED
    BY <1>4, <1>6, <1>7, <1>8 DEF SeekTypeOK

\* time_seek: a plan inside the film with every byte that plays in the time.
LEMMA SeekPlanFacts ==
  ASSUME NEW s, SeekTypeOK(s), NEW d \in Nat \ {0}, NEW n \in Nat \ {0},
         NEW p, p = SeekPlan(s, d, n)
  PROVE  /\ p.status = 200 /\ p.start \in Nat /\ p.end \in Nat
         /\ p.start <= p.end /\ p.end < n
         /\ BytesPlayed(s, d, n) \subseteq p.start..p.end
  <1> DEFINE last == n - 1
             byte == ByteForTime(s.start, d, n)
             endMs == IF s.end = {} THEN d ELSE Least(CHOOSE e \in s.end : TRUE, d)
             endByte == ByteForTime(endMs, d, n)
  <1>1. /\ p.status = 200 /\ p.start = Least(byte, last)
        /\ p.end = IF s.end = {} THEN last ELSE Least(last, Most(Least(byte, last), endByte))
    BY DEF SeekPlan
  <1>2. s.start \in Nat /\ endMs \in Nat
    BY DEF SeekTypeOK, Least
  <1>3. last \in Nat /\ last < n
    OBVIOUS
  <1>4. /\ byte \in Nat
        /\ \A x \in Nat : s.start * n <= x * d => byte <= x
    BY <1>2, ByteForTimeBounds
  <1>5. /\ endByte \in Nat
        /\ \A x \in Nat : x <= n /\ x * d <= endMs * n => x <= endByte
    <2> HIDE DEF endMs
    <2>1. QED
      BY <1>2, ByteForTimeBounds
  <1>6. ASSUME NEW x \in 0..(n - 1), \A e \in s.end : x * d < e * n
        PROVE  x * d <= endMs * n
    <2>1. x \in Nat /\ x <= n
      OBVIOUS
    <2>2. x * d <= n * d /\ n * d = d * n
      BY <2>1, ProductsGrow
    <2>3. CASE s.end = {}
      BY <2>2, <2>3
    <2>4. CASE s.end # {}
      <3>1. PICK e \in s.end : e = CHOOSE c \in s.end : TRUE
        BY <2>4
      <3>2. e \in Nat /\ x * d < e * n
        BY <1>6, <3>1 DEF SeekTypeOK
      <3>3. endMs = e \/ endMs = d
        BY <2>4, <3>1 DEF Least
      <3>4. QED
        BY <2>1, <2>2, <3>2, <3>3
    <2>5. QED
      BY <2>3, <2>4
  <1> HIDE DEF last, byte, endMs, endByte
  <1>7. /\ p.start \in Nat /\ p.end \in Nat /\ p.start <= p.end /\ p.end < n
        /\ p.start <= byte
        /\ \A x \in Nat : x <= last /\ x <= endByte => x <= p.end
        /\ s.end = {} => p.end = last
    BY <1>1, <1>3, <1>4, <1>5 DEF Least, Most
  <1>8. ASSUME NEW x \in BytesPlayed(s, d, n)
        PROVE  x \in p.start..p.end
    <2>1. x \in 0..(n - 1) /\ s.start * n <= x * d /\ \A e \in s.end : x * d < e * n
      BY DEF BytesPlayed
    <2>2. x \in Nat /\ x <= last /\ x <= n
      BY <2>1 DEF last
    <2>3. byte <= x
      BY <1>4, <2>1, <2>2
    <2>4. x <= endByte
      BY <1>5, <1>6, <2>1, <2>2
    <2>5. QED
      BY <1>4, <1>7, <2>2, <2>3, <2>4
  <1>9. QED
    BY <1>1, <1>7, <1>8

\* A Range header as parse_range reads it.
RangeTypeOK(h) ==
    /\ h.first \subseteq Nat /\ Single(h.first)
    /\ h.last \subseteq Nat /\ Single(h.last)

\* parse_range: the bytes between its ends are those the header names, and it
\* refuses only a header that names none.
LEMMA ParseRangeFacts ==
  ASSUME NEW h, RangeTypeOK(h), NEW n \in Nat \ {0}
  PROVE  /\ Single(ParseRange(h, n))
         /\ \A r \in ParseRange(h, n) :
               /\ r[1] \in Nat /\ r[2] \in Nat /\ r[1] <= r[2] /\ r[2] < n
               /\ r[1]..r[2] = BytesAsked(h, n)
         /\ ParseRange(h, n) = {} => BytesAsked(h, n) = {}
  <1>1. CASE h.first = {}
    <2> DEFINE counted == {x \in h.last : x > 0 /\ n > 0}
    <2>1. ParseRange(h, n) = {<<n - Least(k, n), n - 1>> : k \in counted}
      BY <1>1 DEF ParseRange
    <2>2. \A k \in counted : k \in Nat \ {0} /\ k \in h.last
      BY DEF RangeTypeOK
    <2>3. Single(counted)
      BY DEF RangeTypeOK, Single
    <2>4. BytesAsked(h, n) = {x \in 0..(n - 1) : \E k \in h.last : x >= n - k}
      BY <1>1 DEF BytesAsked
    <2>5. ASSUME NEW k \in counted
          PROVE  /\ n - Least(k, n) \in Nat /\ n - 1 \in Nat /\ n - Least(k, n) <= n - 1 /\ n - 1 < n
                 /\ (n - Least(k, n))..(n - 1) = BytesAsked(h, n)
      <3>1. k \in Nat \ {0} /\ h.last = {k}
        BY <2>2 DEF RangeTypeOK, Single
      <3>2. BytesAsked(h, n) = {x \in 0..(n - 1) : x >= n - k}
        BY <2>4, <3>1
      <3>3. QED
        BY <3>1, <3>2 DEF Least
    <2>6. counted = {} => BytesAsked(h, n) = {}
      <3>1. SUFFICES ASSUME counted = {}, NEW x \in 0..(n - 1), NEW k \in h.last, x >= n - k
                     PROVE  FALSE
        BY <2>4
      <3>2. k \in Nat /\ ~(k > 0)
        BY <3>1 DEF RangeTypeOK
      <3>3. QED
        BY <3>1, <3>2
    <2> HIDE DEF counted
    <2>7. \A r \in ParseRange(h, n) : \E k \in counted : r = <<n - Least(k, n), n - 1>>
      BY <2>1
    <2>8. Single(ParseRange(h, n))
      BY <2>3, <2>7 DEF Single
    <2>9. ParseRange(h, n) = {} => counted = {}
      BY <2>1
    <2>10. QED
      BY <2>5, <2>6, <2>7, <2>8, <2>9
  <1>2. CASE h.first # {}
    <2>1. PICK a \in Nat : h.first = {a}
      BY <1>2 DEF RangeTypeOK, Single
    <2>2. PICK b \in Nat : (IF h.last = {} THEN {n} ELSE h.last) = {b}
      BY DEF RangeTypeOK, Single
    <2> DEFINE end == Least(b, n - 1)
    <2>3. {<<x, Least(y, n - 1)>> : x \in h.first, y \in (IF h.last = {} THEN {n} ELSE h.last)}
            = {<<a, end>>}
      BY <2>1, <2>2
    <2>4. ParseRange(h, n) = {r \in {<<a, end>>} : r[1] < n /\ r[1] <= r[2]}
      BY <1>2, <2>3 DEF ParseRange
    <2>5. ParseRange(h, n) = IF a < n /\ a <= end THEN {<<a, end>>} ELSE {}
      BY <2>4
    <2>6. end \in Nat /\ end < n
      BY DEF Least
    <2>7. BytesAsked(h, n) = {x \in 0..(n - 1) : a <= x /\ \A y \in h.last : x <= y}
      BY <1>2, <2>1 DEF BytesAsked
    <2>8. \A x \in 0..(n - 1) : (\A y \in h.last : x <= y) <=> x <= b
      BY <2>2
    <2>9. BytesAsked(h, n) = {x \in 0..(n - 1) : a <= x /\ x <= end}
      BY <2>7, <2>8 DEF Least
    <2> HIDE DEF end
    <2>10. a <= end => a..end = BytesAsked(h, n)
      BY <2>6, <2>9
    <2>11. ~(a <= end) => BytesAsked(h, n) = {}
      BY <2>6, <2>9
    <2>12. CASE a <= end
      <3>1. ParseRange(h, n) = {<<a, end>>}
        BY <2>5, <2>6, <2>12
      <3>2. Single(ParseRange(h, n))
        BY <3>1 DEF Single
      <3>3. \A r \in ParseRange(h, n) : r[1] = a /\ r[2] = end
        BY <3>1
      <3>4. ParseRange(h, n) # {}
        BY <3>1
      <3>5. QED
        BY <2>6, <2>10, <2>12, <3>2, <3>3, <3>4
    <2>13. CASE ~(a <= end)
      <3>1. ParseRange(h, n) = {}
        BY <2>5, <2>13
      <3>2. QED
        BY <2>11, <2>13, <3>1 DEF Single
    <2>14. QED
      BY <2>12, <2>13
  <1>3. QED
    BY <1>1, <1>2

\* range: the plan of a request without a time.
LEMMA RangePlanFacts ==
  ASSUME NEW range, Single(range), \A h \in range : RangeTypeOK(h), NEW n \in Nat
  PROVE  /\ Single(RangePlan(range, n))
         /\ \A p \in RangePlan(range, n) :
               /\ p.status \in {200, 206}
               /\ p.start \in Nat /\ p.end \in Nat /\ p.start <= p.end
               /\ n > 0 => p.end < n
               /\ n = 0 => p.end = 0
         /\ n > 0 => \A h \in range :
               /\ \A p \in RangePlan(range, n) : p.status = 206 /\ p.start..p.end = BytesAsked(h, n)
               /\ RangePlan(range, n) = {} => BytesAsked(h, n) = {}
         /\ range = {} => RangePlan(range, n) # {} /\ \A p \in RangePlan(range, n) : p.status = 200
  <1>1. CASE range = {} \/ n = 0
    <2>1. RangePlan(range, n) =
            {[start |-> 0, end |-> Most(n - 1, 0), status |-> 200, told |-> {}]}
      BY <1>1 DEF RangePlan
    <2>2. /\ Most(n - 1, 0) \in Nat /\ 0 <= Most(n - 1, 0)
          /\ n > 0 => Most(n - 1, 0) < n
          /\ n = 0 => Most(n - 1, 0) = 0
      BY DEF Most
    <2>3. Single(RangePlan(range, n))
      BY <2>1 DEF Single
    <2>4. QED
      BY <1>1, <2>1, <2>2, <2>3
  <1>2. CASE range # {} /\ n # 0
    <2>1. PICK h \in range : range = {h}
      BY <1>2 DEF Single
    <2> DEFINE named == ParseRange(h, n)
    <2>2. UNION {ParseRange(g, n) : g \in range} = named
      BY <2>1
    <2>3. RangePlan(range, n) =
            {[start |-> r[1], end |-> r[2], status |-> 206, told |-> {<<r[1], r[2], n>>}] : r \in named}
      <3> HIDE DEF named
      <3>1. QED
        BY <1>2, <2>2 DEF RangePlan
    <2>4. /\ Single(named)
          /\ \A r \in named :
                /\ r[1] \in Nat /\ r[2] \in Nat /\ r[1] <= r[2] /\ r[2] < n
                /\ r[1]..r[2] = BytesAsked(h, n)
          /\ named = {} => BytesAsked(h, n) = {}
      BY <1>2, <2>1, ParseRangeFacts
    <2> HIDE DEF named
    <2>5. \A p \in RangePlan(range, n) : \E r \in named :
             p = [start |-> r[1], end |-> r[2], status |-> 206, told |-> {<<r[1], r[2], n>>}]
      BY <2>3
    <2>6. Single(RangePlan(range, n))
      BY ZenonT(30), <2>4, <2>5 DEF Single
    <2>7. \A p \in RangePlan(range, n) :
             /\ p.status = 206 /\ p.start \in Nat /\ p.end \in Nat /\ p.start <= p.end /\ p.end < n
             /\ p.start..p.end = BytesAsked(h, n)
      BY <2>4, <2>5
    <2>8. RangePlan(range, n) = {} => BytesAsked(h, n) = {}
      BY <2>3, <2>4
    <2>9. \A g \in range : g = h
      BY <2>1
    <2> DEFINE P == RangePlan(range, n)
    <2> HIDE DEF P
    <2>10. /\ Single(P)
           /\ \A p \in P :
                 /\ p.status = 206 /\ p.start \in Nat /\ p.end \in Nat /\ p.start <= p.end /\ p.end < n
                 /\ p.start..p.end = BytesAsked(h, n)
           /\ P = {} => BytesAsked(h, n) = {}
      BY <2>6, <2>7, <2>8 DEF P
    <2>11. \A p \in P :
               /\ p.status \in {200, 206}
               /\ p.start \in Nat /\ p.end \in Nat /\ p.start <= p.end
               /\ n > 0 => p.end < n
               /\ n = 0 => p.end = 0
      BY <1>2, <2>10
    <2>12. \A g \in range :
               /\ \A p \in P : p.status = 206 /\ p.start..p.end = BytesAsked(g, n)
               /\ P = {} => BytesAsked(g, n) = {}
      BY <2>9, <2>10
    <2>13. QED
      BY <1>2, <2>10, <2>11, <2>12 DEF P
  <1>3. QED
    BY <1>1, <1>2

\* What the handler knows of the film before it reads its size.
DurationOK == duration \subseteq Nat /\ Single(duration)

\* serve_file: one plan, inside the file of n bytes, that answers the request.
Answers(plans, n) ==
    IF \A p \in plans : p.status = 206
    THEN \A h \in req.range :
            /\ \A p \in plans : p.start..p.end = BytesAsked(h, n)
            /\ plans = {} => BytesAsked(h, n) = {}
    ELSE \A h \in req.seek, p \in plans, d \in duration \ {0} :
            \A s \in ParseSeek(h) : BytesPlayed(s, d, n) \subseteq p.start..p.end

LEMMA MakePlanFacts ==
  ASSUME req \in Requests, DurationOK, NEW n \in Nat
  PROVE  /\ Single(MakePlan(n))
         /\ \A p \in MakePlan(n) :
               /\ p.status \in {200, 206}
               /\ p.start \in Nat /\ p.end \in Nat /\ p.start <= p.end
               /\ n > 0 => p.end < n
               /\ n = 0 => p.end = 0
         /\ n > 0 => Answers(MakePlan(n), n)
  <1> DEFINE seeks == UNION {ParseSeek(h) : h \in req.seek}
             known0 == {d \in duration : d > 0}
  <1>1. Single(req.range) /\ Single(req.seek) /\ \A h \in req.range : RangeTypeOK(h)
    BY RequestsAssumption DEF RangeTypeOK
  <1>2. Single(seeks) /\ \A s \in seeks : SeekTypeOK(s)
    <2>1. \A h \in req.seek : Single(ParseSeek(h)) /\ \A s \in ParseSeek(h) : SeekTypeOK(s)
      BY ParsedSeeks
    <2>2. QED
      BY <1>1, <2>1 DEF Single
  <1>3. known0 \subseteq Nat \ {0} /\ Single(known0) /\ known0 = duration \ {0}
    <2>1. \A d \in duration : d \in Nat /\ (d > 0 <=> d # 0)
      BY DEF DurationOK
    <2>2. QED
      BY <2>1 DEF DurationOK, Single
  <1>4. \A h \in req.seek : \A s \in ParseSeek(h) : s \in seeks
    OBVIOUS
  <1>5. MakePlan(n) = IF seeks # {} /\ known0 # {} /\ n > 0
                      THEN {SeekPlan(s, d, n) : s \in seeks, d \in known0}
                      ELSE RangePlan(req.range, n)
    BY DEF MakePlan
  <1> HIDE DEF seeks, known0
  <1>6. CASE seeks # {} /\ known0 # {} /\ n > 0
    <2>1. PICK s \in seeks, d \in known0 : seeks = {s} /\ known0 = {d}
      <3>1. PICK s \in seeks, d \in known0 : TRUE
        BY <1>6
      <3>2. seeks = {s} /\ known0 = {d}
        BY <1>2, <1>3, <3>1 DEF Single
      <3>3. QED
        BY <3>2
    <2> DEFINE p == SeekPlan(s, d, n)
    <2>2. MakePlan(n) = {SeekPlan(t, e, n) : t \in {s}, e \in {d}}
      BY <1>5, <1>6, <2>1
    <2>3. MakePlan(n) = {p}
      BY <2>2
    <2>4. SeekTypeOK(s) /\ d \in Nat \ {0} /\ n \in Nat \ {0}
      BY <1>2, <1>3, <1>6, <2>1
    <2>5. /\ p.status = 200 /\ p.start \in Nat /\ p.end \in Nat
          /\ p.start <= p.end /\ p.end < n
          /\ BytesPlayed(s, d, n) \subseteq p.start..p.end
      BY <2>4, SeekPlanFacts
    <2> HIDE DEF p
    <2>6. Single(MakePlan(n))
      BY <2>3 DEF Single
    <2>7. \A h \in req.seek, e \in duration \ {0} : \A t \in ParseSeek(h) : t = s /\ e = d
      BY <1>3, <1>4, <2>1
    <2>8. Answers(MakePlan(n), n)
      <3>1. ~ \A q \in MakePlan(n) : q.status = 206
        BY <2>3, <2>5
      <3>2. \A h \in req.seek, q \in MakePlan(n), e \in duration \ {0} :
               \A t \in ParseSeek(h) : BytesPlayed(t, e, n) \subseteq q.start..q.end
        BY <2>3, <2>5, <2>7
      <3>3. QED
        BY <3>1, <3>2 DEF Answers
    <2>9. QED
      BY <1>6, <2>3, <2>5, <2>6, <2>8
  <1>7. CASE ~(seeks # {} /\ known0 # {} /\ n > 0)
    <2>1. MakePlan(n) = RangePlan(req.range, n)
      BY <1>5, <1>7
    <2>2. n > 0 => Answers(MakePlan(n), n)
      <3>1. SUFFICES ASSUME n > 0 PROVE Answers(MakePlan(n), n)
        OBVIOUS
      <3>2. \A h \in req.seek, d \in duration \ {0} : ParseSeek(h) = {}
        BY <1>3, <1>4, <1>7, <3>1
      <3>3. \A h \in req.range :
               /\ \A p \in MakePlan(n) : p.start..p.end = BytesAsked(h, n)
               /\ MakePlan(n) = {} => BytesAsked(h, n) = {}
        BY <1>1, <2>1, <3>1, RangePlanFacts
      <3>4. QED
        BY <3>2, <3>3 DEF Answers
    <2>3. QED
      BY <1>1, <2>1, <2>2, RangePlanFacts
  <1>8. QED
    BY <1>6, <1>7

-----------------------------------------------------------------------------
(* The inductive invariant.                                                *)

\* What may be missing is there at most once, and times are numbers.
KnownOK ==
    /\ Single(file) /\ DurationOK /\ Single(known)
    /\ \A k \in known : k \subseteq Nat /\ Single(k)

\* Until the size is read, nothing of the answer is worked out.
EarlyIsEmpty ==
    step \in {"idle", "probe", "metadata"} => total = 0 /\ plan = {} /\ sent = 0 /\ shrank = FALSE

\* There is one plan, and nothing is sent before the file is open.
OnePlan ==
    /\ Single(plan) /\ \A p \in plan : p.status \in {200, 206}
    /\ step = "open" => plan # {} /\ sent = 0

\* A file smaller than its announced size is one that shrank since.
ShrunkIsSeen ==
    step \in {"open", "body"} /\ (\A n \in file : n < total) => shrank

FileInv == KnownOK /\ EarlyIsEmpty /\ OnePlan /\ ShrunkIsSeen /\ BytesAsPromised

LEMMA InitEstablishes == FileInit => FileInv
  <1>1. SUFFICES ASSUME FileInit PROVE FileInv
    OBVIOUS
  <1>2. FileTypeOK
    BY <1>1, FileAssumption DEF FileInit, FileTypeOK
  <1>3. KnownOK
    BY <1>1 DEF FileInit, KnownOK, DurationOK, Single
  <1>4. EarlyIsEmpty /\ OnePlan /\ ShrunkIsSeen /\ PlanInside /\ LengthKept /\ AskedForIsPlanned
    BY <1>1 DEF FileInit, EarlyIsEmpty, OnePlan, ShrunkIsSeen, PlanInside, LengthKept,
                AskedForIsPlanned, Single
  <1>5. QED
    BY <1>2, <1>3, <1>4 DEF FileInv, BytesAsPromised

LEMMA WriteKeeps ==
  ASSUME FileInv, NEW sizes \in {{}} \cup {{n} : n \in Sizes}, Write(sizes)
  PROVE  FileInv'
  <1> USE DEF FileInv, BytesAsPromised
  <1>1. /\ file' = sizes
        /\ shrank' = (shrank \/ (step \in {"open", "body"} /\ \A n \in sizes : n < total))
        /\ UNCHANGED <<listed, known, step, req, duration, total, plan, status, sent>>
    BY DEF Write
  <1>2. Single(sizes) /\ \A n \in sizes : n \in Sizes
    BY DEF Single
  <1>3. FileTypeOK' /\ KnownOK'
    <2>1. FileTypeOK'
      BY <1>1, <1>2 DEF FileTypeOK
    <2>2. KnownOK'
      BY <1>1, <1>2 DEF KnownOK, DurationOK, Single
    <2>3. QED
      BY <2>1, <2>2
  <1>4. EarlyIsEmpty'
    BY <1>1 DEF EarlyIsEmpty
  <1>5. OnePlan' /\ PlanInside' /\ AskedForIsPlanned'
    BY <1>1 DEF OnePlan, PlanInside, AskedForIsPlanned
  <1>6. ShrunkIsSeen'
    BY <1>1 DEF ShrunkIsSeen
  <1>7. LengthKept'
    BY <1>1 DEF LengthKept, FileTypeOK
  <1>8. QED
    BY <1>3, <1>4, <1>5, <1>6, <1>7

LEMMA RescanKeeps ==
  ASSUME FileInv, RescanForgetsDurations
  PROVE  FileInv'
  <1> USE DEF FileInv, BytesAsPromised
  <1>1. /\ known' = {} /\ listed' = (file # {})
        /\ UNCHANGED <<file, step, req, duration, total, plan, status, sent, shrank, writes>>
    BY DEF RescanForgetsDurations
  <1>2. FileTypeOK'
    BY <1>1 DEF FileTypeOK
  <1>3. KnownOK'
    BY <1>1 DEF KnownOK, DurationOK, Single
  <1>4. EarlyIsEmpty' /\ OnePlan' /\ PlanInside' /\ ShrunkIsSeen' /\ LengthKept' /\ AskedForIsPlanned'
    BY <1>1 DEF EarlyIsEmpty, OnePlan, PlanInside, ShrunkIsSeen, LengthKept, AskedForIsPlanned
  <1>5. QED
    BY <1>2, <1>3, <1>4

\* A step that leaves the request with nothing worked out.
LEMMA EmptyAnswerKeeps ==
  ASSUME FileTypeOK', KnownOK', total' = 0, plan' = {}, sent' = 0, shrank' = FALSE,
         step' \in {"idle", "probe", "metadata", "done"}
  PROVE  FileInv'
BY DEF FileInv, BytesAsPromised, EarlyIsEmpty, OnePlan, ShrunkIsSeen, PlanInside, LengthKept,
       AskedForIsPlanned, Single

LEMMA AsksKeeps ==
  ASSUME FileInv, NEW r \in Requests, Asks(r)
  PROVE  FileInv'
  <1>1. /\ step' \in {"probe", "done"} /\ req' = r /\ status' \in {status, 404}
        /\ total = 0 /\ plan = {} /\ sent = 0 /\ shrank = FALSE
        /\ UNCHANGED <<file, listed, known, duration, total, plan, sent, shrank, writes>>
    BY DEF Asks, Answer, FileInv, EarlyIsEmpty
  <1>2. FileTypeOK'
    BY <1>1 DEF FileInv, BytesAsPromised, FileTypeOK
  <1>3. KnownOK'
    BY <1>1 DEF FileInv, KnownOK, DurationOK, Single
  <1>4. QED
    BY <1>1, <1>2, <1>3, EmptyAnswerKeeps

LEMMA ProbeKeeps ==
  ASSUME FileInv, Probe
  PROVE  FileInv'
  <1>1. /\ step' = "metadata"
        /\ total = 0 /\ plan = {} /\ sent = 0 /\ shrank = FALSE
        /\ UNCHANGED <<file, listed, req, total, plan, status, sent, shrank, writes>>
    BY DEF Probe, FileInv, EarlyIsEmpty
  <1>2. FileTypeOK'
    BY <1>1 DEF FileInv, BytesAsPromised, FileTypeOK
  <1>3. KnownOK'
    <2>1. Single(file) /\ Single(known) /\ \A k \in known : k \subseteq Nat /\ Single(k)
      BY DEF FileInv, KnownOK
    <2>2. CASE ~ProbeDuration
      BY <1>1, <2>1, <2>2 DEF Probe, KnownOK, DurationOK, Single
    <2>3. CASE ProbeDuration
      <3> DEFINE found == UNION {LengthOf(n) : n \in file}
      <3>1. found \subseteq Nat /\ Single(found)
        <4>1. \A n \in file : LengthOf(n) \subseteq Nat /\ Single(LengthOf(n))
          BY FileAssumption DEF FileInv, BytesAsPromised, FileTypeOK
        <4>2. QED
          BY <2>1, <4>1 DEF Single
      <3>2. (known' = known \/ known' = {found}) /\ duration' = UNION known'
        BY <2>3 DEF Probe
      <3> HIDE DEF found
      <3>3. Single(known') /\ \A k \in known' : k \subseteq Nat /\ Single(k)
        BY <2>1, <3>1, <3>2 DEF Single
      <3>4. duration' \subseteq Nat /\ Single(duration')
        BY <3>2, <3>3 DEF Single
      <3>5. Single(file')
        BY <1>1, <2>1 DEF Single
      <3>6. QED
        BY <3>3, <3>4, <3>5 DEF KnownOK, DurationOK, Single
    <2>4. QED
      BY <2>2, <2>3
  <1>4. QED
    BY <1>1, <1>2, <1>3, EmptyAnswerKeeps

LEMMA MetadataKeeps ==
  ASSUME FileInv, Metadata
  PROVE  FileInv'
  <1>1. /\ step = "metadata" /\ total = 0 /\ plan = {} /\ sent = 0 /\ shrank = FALSE
        /\ UNCHANGED <<file, listed, known, req, duration, sent, shrank, writes>>
    BY DEF Metadata, FileInv, EarlyIsEmpty
  <1>2. KnownOK'
    BY <1>1 DEF FileInv, KnownOK, DurationOK, Single
  <1>3. CASE file = {} /\ Answer(404) /\ UNCHANGED <<total, plan>>
    <2>1. FileTypeOK'
      BY <1>1, <1>3 DEF FileInv, BytesAsPromised, FileTypeOK, Answer
    <2>2. QED
      BY <1>1, <1>2, <1>3, <2>1, EmptyAnswerKeeps DEF Answer
  <1>4. CASE \E n \in file :
             /\ total' = n /\ plan' = MakePlan(n)
             /\ IF plan' = {} THEN Answer(416) ELSE step' = "open" /\ UNCHANGED status
    <2>1. PICK n \in file : /\ total' = n /\ plan' = MakePlan(n)
                            /\ IF plan' = {} THEN Answer(416) ELSE step' = "open" /\ UNCHANGED status
      BY <1>4
    <2>2. n \in Nat /\ req \in Requests /\ DurationOK
      BY FileAssumption DEF FileInv, BytesAsPromised, FileTypeOK, KnownOK
    <2> DEFINE P == MakePlan(n)
    <2>3. /\ Single(P)
          /\ \A p \in P :
                /\ p.status \in {200, 206}
                /\ p.start \in Nat /\ p.end \in Nat /\ p.start <= p.end
                /\ n > 0 => p.end < n
                /\ n = 0 => p.end = 0
          /\ n > 0 => Answers(P, n)
      BY <2>2, MakePlanFacts
    <2> HIDE DEF P
    <2>4. /\ total' = n /\ plan' = P
          /\ \/ P = {} /\ status' = 416 /\ step' = "done"
             \/ P # {} /\ status' = status /\ step' = "open"
      BY <2>1 DEF P, Answer
    <2>5. FileTypeOK'
      <3>1. /\ \A m \in file : m \in Sizes
            /\ listed \in BOOLEAN /\ shrank \in BOOLEAN /\ sent \in Nat
            /\ status \in {0, 200, 206, 404, 416}
        BY DEF FileInv, BytesAsPromised, FileTypeOK
      <3>2. status' \in {0, 200, 206, 404, 416} /\ step' \in {"open", "done"} /\ total' \in Nat
        BY <2>2, <2>4, <3>1
      <3>3. QED
        BY <1>1, <2>2, <3>1, <3>2 DEF FileTypeOK
    <2>6. EarlyIsEmpty' /\ OnePlan' /\ PlanInside'
      BY <1>1, <2>3, <2>4 DEF EarlyIsEmpty, OnePlan, PlanInside, Single
    <2>7. ShrunkIsSeen'
      BY <1>1, <2>1, <2>2, <2>4 DEF ShrunkIsSeen
    <2>8. LengthKept'
      <3>1. \A p \in P : Length(p, n) \in Nat
        BY <2>2, <2>3 DEF Length
      <3>2. QED
        BY <1>1, <2>4, <3>1 DEF LengthKept
    <2>9. AskedForIsPlanned'
      BY <1>1, <2>3, <2>4 DEF AskedForIsPlanned, Answers
    <2>10. QED
      BY <1>2, <2>5, <2>6, <2>7, <2>8, <2>9 DEF FileInv, BytesAsPromised
  <1>5. QED
    BY <1>3, <1>4 DEF Metadata

LEMMA OpenKeeps ==
  ASSUME FileInv, Open
  PROVE  FileInv'
  <1>1. /\ step = "open" /\ plan # {} /\ sent = 0
        /\ UNCHANGED <<file, listed, known, req, duration, total, plan, sent, shrank, writes>>
    BY DEF Open, FileInv, OnePlan
  <1>2. \/ step' = "done" /\ status' = 404
        \/ step' = "done" /\ status' \in {200, 206} /\ req.head
        \/ step' = "body" /\ status' \in {200, 206}
    <2>1. (CHOOSE p \in plan : TRUE) \in plan
      BY <1>1
    <2>2. (CHOOSE p \in plan : TRUE).status \in {200, 206}
      BY <2>1 DEF FileInv, OnePlan
    <2>3. QED
      BY <2>2 DEF Open, Answer
  <1>3. FileTypeOK'
    BY <1>1, <1>2 DEF FileInv, BytesAsPromised, FileTypeOK
  <1>4. KnownOK'
    BY <1>1 DEF FileInv, KnownOK, DurationOK, Single
  <1>5. EarlyIsEmpty' /\ OnePlan' /\ PlanInside' /\ ShrunkIsSeen'
    BY <1>1, <1>2 DEF FileInv, BytesAsPromised, EarlyIsEmpty, OnePlan, PlanInside, ShrunkIsSeen
  <1>6. LengthKept'
    BY <1>1, <1>2 DEF FileInv, BytesAsPromised, LengthKept
  <1>7. AskedForIsPlanned'
    BY <1>1, <1>2 DEF FileInv, BytesAsPromised, AskedForIsPlanned
  <1>8. QED
    BY <1>3, <1>4, <1>5, <1>6, <1>7 DEF FileInv, BytesAsPromised

LEMMA BodyKeeps ==
  ASSUME FileInv, Body
  PROVE  FileInv'
  <1>1. /\ step = "body"
        /\ UNCHANGED <<file, listed, known, req, duration, total, plan, status, shrank, writes>>
    BY DEF Body
  <1>2. PICK p \in plan, n \in file :
             IF sent < Length(p, total) /\ p.start + sent < n
             THEN sent' = sent + 1 /\ UNCHANGED step
             ELSE step' = "done" /\ UNCHANGED sent
    BY DEF Body
  <1>3. /\ p.start \in Nat /\ p.end \in Nat /\ p.start <= p.end
        /\ total > 0 => p.end < total
        /\ total = 0 => p.end = 0
        /\ sent \in Nat /\ total \in Nat /\ n \in Nat
        /\ sent <= Length(p, total)
    <2>1. FileTypeOK /\ PlanInside /\ LengthKept
      BY DEF FileInv, BytesAsPromised
    <2>2. sent \in Nat /\ total \in Nat /\ n \in Nat
      BY <2>1, FileAssumption DEF FileTypeOK
    <2>3. /\ p.start \in Nat /\ p.end \in Nat /\ p.start <= p.end
          /\ total > 0 => p.end < total
          /\ total = 0 => p.end = 0
      BY <2>1 DEF PlanInside
    <2>4. sent <= Length(p, total)
      BY <2>1 DEF LengthKept
    <2>5. QED
      BY <2>2, <2>3, <2>4
  <1>4. \A q \in plan : q = p
    BY DEF FileInv, OnePlan, Single
  <1>5. \A m \in file : m = n
    BY DEF FileInv, KnownOK, Single
  <1>6. Length(p, total) \in Nat /\ (total > 0 => Length(p, total) = p.end - p.start + 1)
    BY <1>3 DEF Length
  <1>7. /\ step' \in {"body", "done"} /\ sent' \in Nat /\ sent' <= Length(p, total)
        /\ step' = "done" /\ ~shrank => sent' = Length(p, total)
    <2>1. CASE sent < Length(p, total) /\ p.start + sent < n
      BY <1>1, <1>2, <1>3, <1>6, <2>1
    <2>2. CASE ~(sent < Length(p, total))
      BY <1>1, <1>2, <1>3, <1>6, <2>2
    <2>3. CASE sent < Length(p, total) /\ ~(p.start + sent < n)
      <3>1. total > 0
        BY <1>3, <2>3 DEF Length
      <3>2. n < total
        BY <1>3, <1>6, <2>3, <3>1
      <3>3. shrank
        BY <1>1, <1>5, <3>2 DEF FileInv, ShrunkIsSeen
      <3>4. QED
        BY <1>1, <1>2, <1>3, <2>3, <3>3
    <2>4. QED
      BY <2>1, <2>2, <2>3
  <1>8. FileTypeOK'
    BY <1>1, <1>7 DEF FileInv, BytesAsPromised, FileTypeOK
  <1>9. KnownOK'
    BY <1>1 DEF FileInv, KnownOK, DurationOK, Single
  <1>10. EarlyIsEmpty' /\ OnePlan' /\ PlanInside' /\ ShrunkIsSeen'
    BY <1>1, <1>7 DEF FileInv, BytesAsPromised, EarlyIsEmpty, OnePlan, PlanInside, ShrunkIsSeen
  <1>11. LengthKept'
    BY <1>1, <1>4, <1>7 DEF LengthKept
  <1>12. AskedForIsPlanned'
    BY <1>1, <1>7 DEF FileInv, BytesAsPromised, AskedForIsPlanned
  <1>13. QED
    BY <1>8, <1>9, <1>10, <1>11, <1>12 DEF FileInv, BytesAsPromised

LEMMA EndsKeeps ==
  ASSUME FileInv, Ends
  PROVE  FileInv'
  <1>1. /\ step' = "idle" /\ duration' = {}
        /\ total' = 0 /\ plan' = {} /\ status' = 0 /\ sent' = 0 /\ shrank' = FALSE
        /\ UNCHANGED <<file, listed, known, req, writes>>
    BY DEF Ends
  <1>2. FileTypeOK'
    BY <1>1 DEF FileInv, BytesAsPromised, FileTypeOK
  <1>3. KnownOK'
    BY <1>1 DEF FileInv, KnownOK, DurationOK, Single
  <1>4. QED
    BY <1>1, <1>2, <1>3, EmptyAnswerKeeps

LEMMA StepKeeps == FileInv /\ [FileNext]_fileVars => FileInv'
  <1>1. SUFFICES ASSUME FileInv, [FileNext]_fileVars PROVE FileInv'
    OBVIOUS
  <1>2. CASE UNCHANGED fileVars
    BY <1>1, <1>2 DEF fileVars, FileInv, BytesAsPromised, FileTypeOK, KnownOK, DurationOK,
         EarlyIsEmpty, OnePlan, ShrunkIsSeen, PlanInside, LengthKept, AskedForIsPlanned
  <1>3. CASE FileNext
    BY <1>1, <1>3, WriteKeeps, RescanKeeps, AsksKeeps, ProbeKeeps, MetadataKeeps, OpenKeeps,
       BodyKeeps, EndsKeeps DEF FileNext
  <1>4. QED
    BY <1>1, <1>2, <1>3

-----------------------------------------------------------------------------
\* For every size of the file, every Range and time header and every probed
\* duration: the answer lies inside the file, has the bytes the header names or
\* every byte that plays in the time asked for, is refused only when none is
\* named, and is as long as announced unless the file shrank under it
\* (media.rs serve_file, range.rs, time_seek.rs).
THEOREM AnswersAsPromised == FileSpec => []BytesAsPromised
  <1>1. FileInit => FileInv
    BY InitEstablishes
  <1>2. FileInv /\ [FileNext]_fileVars => FileInv'
    BY StepKeeps
  <1>3. FileInv => BytesAsPromised
    BY DEF FileInv
  <1>4. QED
    BY <1>1, <1>2, <1>3, PTL DEF FileSpec

-----------------------------------------------------------------------------
(* Recognition: scores.                                                    *)

\* Every inhabited set of numbers has a least member.
LEMMA LeastNumber ==
  ASSUME NEW S \in SUBSET Nat, S # {}
  PROVE  \E m \in S : \A k \in S : ~(k < m)
  <1> DEFINE Lower == {p \in Nat \X Nat : p[1] < p[2]}
  <1>1. IsWellFoundedOn(Lower, Nat)
    BY NatLessThanWellFounded DEF OpToRel
  <1>2. \A a, b \in Nat : a < b => <<a, b>> \in Lower
    OBVIOUS
  <1> HIDE DEF Lower
  <1>3. PICK m \in S : \A k \in S : ~(<<k, m>> \in Lower)
    BY <1>1, WFMin
  <1>4. QED
    BY <1>2, <1>3

\* A set of numbers with a bound has a largest member.
LEMMA LargestNumber ==
  ASSUME NEW bound \in Nat, NEW S \in SUBSET Nat, S # {}, \A n \in S : n <= bound
  PROVE  \E m \in S : \A n \in S : n <= m
  <1> DEFINE Missing == {bound - n : n \in S}
  <1>1. \A n \in S : n \in Nat /\ n <= bound /\ bound - n \in Nat
    OBVIOUS
  <1>2. Missing \in SUBSET Nat /\ Missing # {}
    BY <1>1
  <1>3. PICK k \in Missing : \A j \in Missing : ~(j < k)
    <2> HIDE DEF Missing
    <2>1. QED
      BY <1>2, LeastNumber
  <1>4. PICK m \in S : k = bound - m
    BY <1>3
  <1>5. \A n \in S : ~(bound - n < bound - m)
    BY <1>3, <1>4
  <1>6. \A n \in S : n <= m
    BY <1>1, <1>5
  <1>7. QED
    BY <1>6

LEMMA SpecificityBounds ==
  ASSUME NEW r \in Texts, NEW max \in Nat
  PROVE  Specificity(r, max) \in Nat /\ Specificity(r, max) <= max
  <1>1. Long[r] \in Nat
    BY RecognitionAssumption
  <1>2. Long[r] \div 4 \in Nat
    BY <1>1
  <1>3. QED
    BY <1>2 DEF Specificity, AtMost

\* What a field of a profile is worth: the strongest rule and up to three.
LEMMA RuleScore ==
  ASSUME NEW said \in SUBSET Texts, NEW rules \in SUBSET Texts, NEW base \in Nat, NEW max \in Nat
  PROVE  LET score == BestRuleScore(said, rules, base, max)
         IN  /\ score \in Nat /\ score <= base + max + 3
             /\ \A r \in Matched(said, rules) : base + Specificity(r, max) + 1 <= score
             /\ \/ Matched(said, rules) = {} /\ score = 0
                \/ \E r \in Matched(said, rules) : score <= base + Specificity(r, max) + 3
  <1> DEFINE matched == Matched(said, rules)
             worth == {base + Specificity(r, max) : r \in matched}
             score == BestRuleScore(said, rules, base, max)
  <1>1. matched \in SUBSET Texts
    BY DEF Matched
  <1>2. CASE matched = {}
    BY <1>2 DEF BestRuleScore
  <1>3. CASE matched # {}
    <2> HIDE DEF matched
    <2>1. \A r \in matched : /\ Specificity(r, max) \in Nat
                             /\ base + Specificity(r, max) \in Nat
                             /\ base + Specificity(r, max) <= base + max
      BY <1>1, SpecificityBounds
    <2>2. worth \in SUBSET Nat /\ worth # {} /\ \A n \in worth : n <= base + max
      BY <1>3, <2>1
    <2>3. PICK m \in worth : \A n \in worth : n <= m
      <3> HIDE DEF worth
      <3>1. base + max \in Nat
        OBVIOUS
      <3>2. QED
        BY <2>2, <3>1, LargestNumber
    <2>4. Max(worth) \in worth /\ \A n \in worth : n <= Max(worth)
      <3> HIDE DEF worth
      <3>1. \A n \in worth : m >= n
        BY <2>2, <2>3
      <3>2. Max(worth) \in worth /\ \A n \in worth : Max(worth) >= n
        BY <3>1 DEF Max
      <3>3. QED
        BY <2>2, <3>2
    <2>5. Cardinality(matched) \in Nat /\ Cardinality(matched) # 0
      BY <1>1, <1>3, RecognitionAssumption, FS_Subset, FS_CardinalityType, FS_EmptySet
    <2>6. AtMost(Cardinality(matched), 3) \in 1 .. 3
      BY <2>5 DEF AtMost
    <2>7. score = Max(worth) + AtMost(Cardinality(matched), 3)
      BY <1>3 DEF BestRuleScore, matched
    <2>8. PICK r \in matched : Max(worth) = base + Specificity(r, max)
      BY <2>4
    <2>9. \A s \in matched : base + Specificity(s, max) <= Max(worth)
      BY <2>4
    <2> HIDE DEF worth, score
    <2>10. Max(worth) \in Nat /\ Max(worth) <= base + max
      BY <2>1, <2>8
    <2>11. /\ score \in Nat /\ score <= base + max + 3
           /\ \A s \in matched : base + Specificity(s, max) + 1 <= score
           /\ score <= base + Specificity(r, max) + 3
      BY <2>1, <2>6, <2>7, <2>8, <2>9, <2>10
    <2>12. QED
      BY <2>11 DEF matched, score
  <1>4. QED
    BY <1>2, <1>3

\* The texts cannot reach what the address is worth.
LEMMA ScoreBounds ==
  ASSUME NEW p \in Profile, NEW v \in Identity
  PROVE  /\ Score(p, v) \in Nat /\ Score(p, v) <= 197
         /\ v.ip \in p.rules.ip => Score(p, v) >= 100
         /\ v.ip \notin p.rules.ip => Score(p, v) <= 97
  <1> DEFINE agent == BestRuleScore(v.agent, p.rules.agent, 20, 25)
             name == BestRuleScore(v.name, p.rules.name, 10, 15)
             type == BestRuleScore(v.type, p.rules.type, 8, 10)
  <1>1. /\ v.agent \in SUBSET Texts /\ v.name \in SUBSET Texts /\ v.type \in SUBSET Texts
        /\ p.rules.agent \in SUBSET Texts /\ p.rules.name \in SUBSET Texts
        /\ p.rules.type \in SUBSET Texts
    BY DEF Identity, AtMostOne, Profile, Rules
  <1>2. agent \in Nat /\ agent <= 20 + 25 + 3
    BY <1>1, RuleScore, 20 \in Nat, 25 \in Nat, Zenon
  <1>3. name \in Nat /\ name <= 10 + 15 + 3
    BY <1>1, RuleScore, 10 \in Nat, 15 \in Nat, Zenon
  <1>4. type \in Nat /\ type <= 8 + 10 + 3
    BY <1>1, RuleScore, 8 \in Nat, 10 \in Nat, Zenon
  <1>5. Score(p, v) = AddressScore(p, v) + agent + name + type
    BY DEF Score
  <1> HIDE DEF agent, name, type
  <1>6. QED
    BY <1>2, <1>3, <1>4, <1>5 DEF AddressScore

\* Who is identified is the best, if anybody matches at all.
LEMMA IdentifiedIsBest ==
  ASSUME NEW list \in Seq(Profile), NEW v \in Identity, NEW p \in DOMAIN list,
         Score(list[p], v) > 0
  PROVE  \E i \in DOMAIN list : /\ Identify(list, v) = list[i]
                                /\ \A j \in DOMAIN list : Score(list[j], v) <= Score(list[i], v)
  <1> DEFINE S(i) == Score(list[i], v)
             scores == {S(i) : i \in DOMAIN list}
  <1>1. \A i \in DOMAIN list : list[i] \in Profile /\ i \in Nat
    OBVIOUS
  <1>2. \A i \in DOMAIN list : S(i) \in Nat /\ S(i) <= 197
    BY <1>1, ScoreBounds
  <1> HIDE DEF S
  <1>3. PICK best \in DOMAIN list : \A j \in DOMAIN list : S(j) <= S(best)
    <2>1. scores \in SUBSET Nat /\ scores # {} /\ \A n \in scores : n <= 197
      BY <1>2
    <2>2. PICK m \in scores : \A n \in scores : n <= m
      <3> HIDE DEF scores
      <3>1. QED
        BY <2>1, LargestNumber
    <2>3. QED
      BY <2>2
  <1> DEFINE firsts == {i \in DOMAIN list : S(i) = S(best)}
  <1>4. firsts \in SUBSET Nat /\ firsts # {}
    BY <1>1
  <1>5. PICK i \in firsts : \A k \in firsts : ~(k < i)
    <2> HIDE DEF firsts
    <2>1. QED
      BY <1>4, LeastNumber
  <1>6. i \in DOMAIN list /\ \A j \in DOMAIN list : S(j) <= S(i) /\ (j < i => S(j) < S(i))
    <2>1. \A j \in DOMAIN list : S(j) \in Nat /\ S(j) <= S(best) /\ S(i) = S(best)
      BY <1>2, <1>3, <1>5
    <2>2. \A j \in DOMAIN list : j < i => S(j) # S(best)
      BY <1>5
    <2>3. QED
      BY <1>5, <2>1, <2>2
  <1>7. S(i) > 0
    <2>1. S(p) \in Nat /\ S(i) \in Nat /\ S(p) <= S(i)
      BY <1>2, <1>6
    <2>2. S(p) > 0
      BY DEF S
    <2>3. QED
      BY <2>1, <2>2
  <1>8. IsBest(list, v, i)
    BY <1>6, <1>7 DEF IsBest, S
  <1>9. ~\A j \in DOMAIN list : Score(list[j], v) = 0
    BY ScoreBounds
  <1> DEFINE k == CHOOSE j \in DOMAIN list : IsBest(list, v, j)
  <1>10. k \in DOMAIN list /\ IsBest(list, v, k)
    BY <1>6, <1>8
  <1>11. Identify(list, v) = list[k]
    BY <1>9 DEF Identify
  <1> HIDE DEF k
  <1>12. QED
    BY <1>10, <1>11 DEF IsBest

\* The address decides, whatever the texts.
LEMMA AddressDecides ==
  ASSUME NEW list \in Seq(Profile), NEW v \in Identity, NEW p \in DOMAIN list,
         v.ip \in list[p].rules.ip
  PROVE  v.ip \in Identify(list, v).rules.ip
  <1>1. Score(list[p], v) \in Nat /\ Score(list[p], v) >= 100
    BY ScoreBounds
  <1>2. Score(list[p], v) > 0
    BY <1>1
  <1>3. PICK i \in DOMAIN list : /\ Identify(list, v) = list[i]
                                 /\ \A j \in DOMAIN list : Score(list[j], v) <= Score(list[i], v)
    BY <1>2, IdentifiedIsBest
  <1>4. Score(list[i], v) \in Nat /\ Score(list[p], v) <= Score(list[i], v)
    BY <1>3, ScoreBounds
  <1>5. v.ip \notin list[i].rules.ip => Score(list[i], v) <= 97
    BY ScoreBounds
  <1>6. QED
    BY <1>1, <1>3, <1>4, <1>5

\* A text that a device says is found in itself.
LEMMA OwnText ==
  ASSUME NEW said \in AtMostOne, NEW t \in said
  PROVE  said \in SUBSET Texts /\ said = {t} /\ t \in Texts /\ t \in Matched(said, said)
  <1>1. said \in SUBSET Texts /\ \A a, b \in said : a = b
    BY DEF AtMostOne
  <1>2. said = {t} /\ t \in Texts
    BY <1>1
  <1>3. <<t, t>> \in Within
    BY <1>2, RecognitionAssumption
  <1>4. QED
    BY <1>1, <1>2, <1>3 DEF Matched

\* What finds less in a text is worth no more than the text with margin to spare.
LEMMA BelowOwn ==
  ASSUME NEW said \in AtMostOne, NEW t \in said, NEW rules \in SUBSET Texts,
         NEW base \in Nat, NEW max \in Nat, NEW margin \in 0 .. 3,
         Below(said, rules, max, margin)
  PROVE  /\ BestRuleScore(said, rules, base, max) \in Nat
         /\ BestRuleScore(said, said, base, max) \in Nat
         /\ BestRuleScore(said, rules, base, max) + margin
              <= BestRuleScore(said, said, base, max) + 2
  <1> DEFINE other == BestRuleScore(said, rules, base, max)
             own == BestRuleScore(said, said, base, max)
  <1>1. said \in SUBSET Texts /\ t \in Texts /\ t \in Matched(said, said)
    BY OwnText
  <1>2. Specificity(t, max) \in Nat
    BY <1>1, SpecificityBounds
  <1>3. own \in Nat /\ base + Specificity(t, max) + 1 <= own
    BY <1>1, RuleScore
  <1>4. /\ other \in Nat
        /\ \/ other = 0
           \/ \E r \in Matched(said, rules) : other <= base + Specificity(r, max) + 3
    BY <1>1, RuleScore
  <1>5. \A r \in Matched(said, rules) : r \in Texts /\ Specificity(r, max) \in Nat
    BY SpecificityBounds DEF Matched
  <1>6. \A r \in Matched(said, rules) : Specificity(r, max) + margin <= Specificity(t, max)
    BY DEF Below
  <1>7. own >= 1
    BY <1>2, <1>3
  <1> HIDE DEF other, own
  <1>8. other + margin <= own + 2
    <2>1. CASE other = 0
      BY <1>3, <1>7, <2>1
    <2>2. CASE \E r \in Matched(said, rules) : other <= base + Specificity(r, max) + 3
      <3>1. PICK r \in Matched(said, rules) : other <= base + Specificity(r, max) + 3
        BY <2>2
      <3>2. Specificity(r, max) \in Nat /\ Specificity(r, max) + margin <= Specificity(t, max)
        BY <1>5, <1>6
      <3>3. QED
        BY <1>2, <1>3, <1>4, <3>1, <3>2
    <2>3. QED
      BY <1>4, <2>1, <2>2
  <1>9. QED
    BY <1>3, <1>4, <1>8 DEF other, own

LEMMA NothingSaid ==
  ASSUME NEW rules, NEW base, NEW max
  PROVE  BestRuleScore({}, rules, base, max) = 0
  BY DEF BestRuleScore, Matched

\* A profile far from what a device says scores less than one of its own texts.
LEMMA FarScoresLess ==
  ASSUME NEW p \in Profile, NEW q \in Profile, NEW v \in Identity,
         v.agent # {}, v.type = {}, p.rules.agent = v.agent,
         v.name = {} \/ p.rules.name = v.name, FarFrom(q, v)
  PROVE  Score(q, v) < Score(p, v)
  <1> DEFINE A(r) == BestRuleScore(v.agent, r.rules.agent, 20, 25)
             N(r) == BestRuleScore(v.name, r.rules.name, 10, 15)
  <1>1. /\ v.agent \in AtMostOne /\ v.name \in AtMostOne
        /\ p.rules.name \in SUBSET Texts /\ q.rules.agent \in SUBSET Texts
        /\ q.rules.name \in SUBSET Texts
    BY DEF Identity, Profile, Rules
  <1>2. PICK a \in v.agent : TRUE
    OBVIOUS
  <1>3. A(q) \in Nat /\ A(p) \in Nat /\ A(q) + 3 <= A(p) + 2
    <2>1. Below(v.agent, q.rules.agent, 25, 3)
      BY DEF FarFrom
    <2>2. 20 \in Nat /\ 25 \in Nat /\ 3 \in 0 .. 3
      OBVIOUS
    <2>3. QED
      BY <1>1, <1>2, <2>1, <2>2, BelowOwn, Zenon
  <1>4. N(q) \in Nat /\ N(p) \in Nat /\ N(q) <= N(p)
    <2>1. CASE v.name = {}
      BY <2>1, NothingSaid
    <2>2. CASE v.name # {} /\ q.rules.name = v.name
      <3>1. p.rules.name = q.rules.name
        BY <2>2
      <3>2. N(q) = N(p)
        BY <3>1
      <3>3. 10 \in Nat /\ 15 \in Nat /\ v.name \in SUBSET Texts
        BY <1>1 DEF AtMostOne
      <3>4. N(p) \in Nat
        BY <1>1, <3>3, RuleScore, Zenon
      <3>5. QED
        BY <3>2, <3>4
    <2>3. CASE v.name # {} /\ q.rules.name # v.name
      <3>1. Below(v.name, q.rules.name, 15, 2) /\ p.rules.name = v.name
        BY <2>3 DEF FarFrom
      <3>2. PICK n \in v.name : TRUE
        BY <2>3
      <3>3. 10 \in Nat /\ 15 \in Nat /\ 2 \in 0 .. 3
        OBVIOUS
      <3>4. /\ N(q) \in Nat /\ BestRuleScore(v.name, v.name, 10, 15) \in Nat
            /\ N(q) + 2 <= BestRuleScore(v.name, v.name, 10, 15) + 2
        BY <1>1, <3>1, <3>2, <3>3, BelowOwn, Zenon
      <3>5. QED
        BY <3>1, <3>4
    <2>4. QED
      BY <2>1, <2>2, <2>3
  <1>5. Score(p, v) = AddressScore(p, v) + A(p) + N(p) + 0
    BY NothingSaid DEF Score
  <1>6. Score(q, v) = 0 + A(q) + N(q) + 0
    BY NothingSaid DEF Score, AddressScore, FarFrom
  <1>7. AddressScore(p, v) \in Nat
    BY DEF AddressScore
  <1> HIDE DEF A, N
  <1>8. QED
    BY <1>3, <1>4, <1>5, <1>6, <1>7

\* A profile made from a device is given to it by the list it stands in.
LEMMA OwnTextDecides ==
  ASSUME NEW list \in Seq(Profile), NEW v \in Identity, NEW p \in DOMAIN list,
         v.agent # {}, v.type = {}, list[p].rules.agent = v.agent,
         v.name = {} \/ list[p].rules.name = v.name,
         \A i \in DOMAIN list : list[i].rules.agent = v.agent \/ FarFrom(list[i], v)
  PROVE  Identify(list, v).rules.agent = v.agent
  <1>1. \A i \in DOMAIN list : list[i] \in Profile
    OBVIOUS
  <1>2. \A i \in DOMAIN list : Score(list[i], v) \in Nat
    BY <1>1, ScoreBounds
  <1>3. Score(list[p], v) > 0
    <2>1. PICK a \in v.agent : TRUE
      OBVIOUS
    <2>2. v.agent \in AtMostOne /\ v.agent \in SUBSET Texts
      BY DEF Identity, AtMostOne
    <2>3. a \in Texts /\ a \in Matched(v.agent, list[p].rules.agent)
      BY <2>1, <2>2, OwnText
    <2>4. Specificity(a, 25) \in Nat
      BY <2>3, SpecificityBounds
    <2>5. 20 \in Nat /\ 25 \in Nat
      OBVIOUS
    <2>6. 20 + Specificity(a, 25) + 1 <= BestRuleScore(v.agent, list[p].rules.agent, 20, 25)
      BY <2>2, <2>3, <2>5, RuleScore, Zenon
    <2> DEFINE A == BestRuleScore(v.agent, list[p].rules.agent, 20, 25)
               N == BestRuleScore(v.name, list[p].rules.name, 10, 15)
    <2>7. v.name \in SUBSET Texts /\ list[p].rules.name \in SUBSET Texts
      BY <1>1 DEF Identity, AtMostOne, Profile, Rules
    <2>8. 10 \in Nat /\ 15 \in Nat
      OBVIOUS
    <2>9. A \in Nat /\ N \in Nat
      BY <2>2, <2>5, <2>7, <2>8, RuleScore, Zenon
    <2>10. Score(list[p], v) = AddressScore(list[p], v) + A + N + 0
      BY NothingSaid DEF Score
    <2>11. AddressScore(list[p], v) \in Nat
      BY DEF AddressScore
    <2> HIDE DEF A, N
    <2>12. 20 + Specificity(a, 25) + 1 <= A
      BY <2>6 DEF A
    <2>13. QED
      BY <2>4, <2>9, <2>10, <2>11, <2>12
  <1>4. PICK i \in DOMAIN list : /\ Identify(list, v) = list[i]
                                 /\ \A j \in DOMAIN list : Score(list[j], v) <= Score(list[i], v)
    BY <1>3, IdentifiedIsBest
  <1>5. ~FarFrom(list[i], v)
    <2>1. SUFFICES ASSUME FarFrom(list[i], v)
                   PROVE  FALSE
      OBVIOUS
    <2>2. Score(list[i], v) < Score(list[p], v)
      BY <1>1, <2>1, FarScoresLess
    <2>3. Score(list[p], v) <= Score(list[i], v)
      BY <1>4
    <2>4. QED
      BY <1>2, <2>2, <2>3
  <1>6. QED
    BY <1>4, <1>5

-----------------------------------------------------------------------------
(* What the list has to do with the files.                                 *)

FilesGood(files) == \A id \in DOMAIN files : files[id] \in Profile /\ files[id].id = id
FilesListed(files, list) == \A id \in DOMAIN files : \E i \in DOMAIN list : list[i] = files[id]
FilesWin(files, list) ==
  \A i \in DOMAIN list : list[i].id \in DOMAIN files => list[i] = files[list[i].id]

LEMMA IdsFinite ==
  ASSUME NEW files, FilesGood(files)
  PROVE  IsFiniteSet(DOMAIN files \ ShippedIds)
  <1>1. IsFiniteSet(UserIds \cup {"generic"})
    BY RecognitionAssumption, FS_AddElement
  <1>2. DOMAIN files \ ShippedIds \subseteq UserIds \cup {"generic"}
    BY DEF FilesGood, Profile, ProfileIds, ShippedIds
  <1>3. QED
    BY <1>1, <1>2, FS_Subset

\* A reload lists every file once, and nothing it replaces.
LEMMA LoadsGood ==
  ASSUME NEW files, FilesGood(files), NEW list \in Loads(files)
  PROVE  list \in Seq(Profile) /\ FilesListed(files, list) /\ FilesWin(files, list)
  <1> DEFINE own == DOMAIN files \ ShippedIds
             places == 1 .. Cardinality(own)
             front == Overlay(files)
  <1>1. Cardinality(own) \in Nat
    BY IdsFinite, FS_CardinalityType
  <1>2. PICK order \in Bijection(places, own) : list = front \o [n \in places |-> files[order[n]]]
    BY DEF Loads
  <1> DEFINE back == [n \in places |-> files[order[n]]]
  <1>3. /\ \A n \in places : order[n] \in own
        /\ \A id \in own : \E n \in places : order[n] = id
    BY DEF Bijection, Injection, Surjection
  <1>4. back \in Seq(Profile) /\ Len(back) = Cardinality(own)
    <2>1. \A n \in places : back[n] \in Profile
      BY <1>3 DEF FilesGood
    <2>2. back = [n \in 1 .. Cardinality(own) |-> back[n]]
      OBVIOUS
    <2> HIDE DEF back, own
    <2>3. QED
      BY <1>1, <2>1, <2>2
  <1>5. /\ Shipped \in Seq(Profile) /\ DOMAIN Shipped = 1 .. Len(Shipped) /\ Len(Shipped) \in Nat
    BY RecognitionAssumption
  <1>6. \A i \in DOMAIN Shipped : front[i] \in Profile /\ DOMAIN front = DOMAIN Shipped
    BY <1>5 DEF Overlay, FilesGood
  <1>7. front \in Seq(Profile) /\ Len(front) = Len(Shipped)
    <2>1. DOMAIN front = 1 .. Len(Shipped) /\ front = [i \in 1 .. Len(Shipped) |-> front[i]]
      BY <1>5 DEF Overlay
    <2> HIDE DEF front
    <2>2. QED
      BY <1>5, <1>6, <2>1
  <1>8. \A i \in DOMAIN Shipped : front[i].id \in DOMAIN files => front[i] = files[front[i].id]
    BY <1>5 DEF Overlay, FilesGood
  <1>9. \A id \in DOMAIN files \cap ShippedIds : \E i \in DOMAIN Shipped : front[i] = files[id]
    BY <1>5 DEF Overlay, ShippedIds
  <1>10. \A n \in places : back[n].id \in DOMAIN files /\ back[n] = files[back[n].id]
    BY <1>3 DEF FilesGood
  <1>11. \A id \in own : \E n \in places : back[n] = files[id]
    BY <1>3
  <1> HIDE DEF front, back, places, own
  <1>12. /\ list \in Seq(Profile) /\ Len(list) = Len(Shipped) + Cardinality(own)
         /\ \A i \in 1 .. Len(Shipped) : list[i] = front[i]
         /\ \A n \in 1 .. Cardinality(own) : list[Len(Shipped) + n] = back[n]
    BY <1>1, <1>2, <1>4, <1>5, <1>7 DEF back
  <1>13. DOMAIN list = 1 .. Len(Shipped) + Cardinality(own)
    BY <1>1, <1>5, <1>12
  <1>14. \A i \in DOMAIN list : \/ i \in DOMAIN Shipped
                                \/ \E n \in places : i = Len(Shipped) + n
    <2>1. TAKE i \in DOMAIN list
    <2>2. CASE i > Len(Shipped)
      <3>1. i - Len(Shipped) \in places /\ i = Len(Shipped) + (i - Len(Shipped))
        BY <1>1, <1>5, <1>13, <2>2 DEF places
      <3>2. QED
        BY <3>1
    <2>3. QED
      BY <1>1, <1>5, <1>13, <2>2
  <1>15. FilesWin(files, list)
    BY <1>5, <1>8, <1>10, <1>12, <1>14 DEF FilesWin, places
  <1>16. FilesListed(files, list)
    <2>1. SUFFICES ASSUME NEW id \in DOMAIN files
                   PROVE  \E i \in DOMAIN list : list[i] = files[id]
      BY DEF FilesListed
    <2>2. CASE id \in ShippedIds
      <3>1. PICK i \in DOMAIN Shipped : front[i] = files[id]
        BY <1>9, <2>2
      <3>2. i \in DOMAIN list /\ list[i] = files[id]
        BY <1>1, <1>5, <1>12, <1>13, <3>1
      <3>3. QED
        BY <3>2
    <2>3. CASE id \notin ShippedIds
      <3>1. PICK n \in places : back[n] = files[id]
        BY <1>11, <2>3 DEF own
      <3>2. Len(Shipped) + n \in DOMAIN list /\ list[Len(Shipped) + n] = files[id]
        BY <1>1, <1>5, <1>12, <1>13, <3>1 DEF places
      <3>3. QED
        BY <3>2
    <2>4. QED
      BY <2>2, <2>3
  <1>17. QED
    BY <1>12, <1>15, <1>16

-----------------------------------------------------------------------------
(* The inductive invariant: the list holds what the files say, and what    *)
(* was saved from a device is still in its file.                           *)

SavedStand ==
  /\ DOMAIN savedFor \subseteq DOMAIN userFiles
  /\ \A id \in DOMAIN savedFor :
       /\ userFiles[id].rules.agent = savedFor[id].agent
       /\ savedFor[id].name = {} \/ userFiles[id].rules.name = savedFor[id].name
RecordsGood ==
  \A k \in DOMAIN deviceRecords :
    deviceRecords[k].agent \in SUBSET Texts /\ deviceRecords[k].name \in SUBSET Texts
ListGood ==
  /\ FilesGood(userFiles) /\ profileList \in Seq(Profile)
  /\ FilesListed(userFiles, profileList) /\ FilesWin(userFiles, profileList)
RecognitionIInv == ListGood /\ SavedStand /\ RecordsGood

LEMMA ReloadsGood ==
  ASSUME NEW files, FilesGood(files), Reloads(files)
  PROVE  ListGood' /\ userFiles' = files
  <1>1. userFiles' = files /\ profileList' \in Loads(files)
    BY DEF Reloads
  <1>2. /\ profileList' \in Seq(Profile) /\ FilesListed(files, profileList')
        /\ FilesWin(files, profileList')
    BY <1>1, LoadsGood
  <1>3. QED
    BY <1>1, <1>2 DEF ListGood, FilesGood, FilesListed, FilesWin

LEMMA WithGood ==
  ASSUME NEW files, FilesGood(files), NEW p \in Profile
  PROVE  /\ FilesGood(With(files, p)) /\ DOMAIN With(files, p) = DOMAIN files \cup {p.id}
         /\ With(files, p)[p.id] = p
         /\ \A id \in DOMAIN files : id # p.id => With(files, p)[id] = files[id]
  BY DEF FilesGood, With

LEMMA FoundIsProfile ==
  ASSUME profileList \in Seq(Profile), NEW id
  PROVE  Find(id) \in Profile
  <1>1. Generic \in Profile
    BY DEF Generic, NoRules, Profile, Rules, ProfileIds
  <1>2. \A i \in DOMAIN profileList : profileList[i] \in Profile
    OBVIOUS
  <1>3. QED
    BY <1>1, <1>2 DEF Find

LEMMA InitGood ==
  ASSUME RecognitionInit
  PROVE  RecognitionIInv
  <1>1. DOMAIN userFiles = {} /\ DOMAIN savedFor = {} /\ DOMAIN deviceRecords = {}
    BY DEF RecognitionInit
  <1>2. profileList \in Seq(Profile)
    BY RecognitionAssumption DEF RecognitionInit
  <1>3. QED
    BY <1>1, <1>2 DEF RecognitionIInv, ListGood, SavedStand, RecordsGood,
                      FilesGood, FilesListed, FilesWin

LEMMA CallsKeep ==
  ASSUME RecognitionIInv, NEW v \in Identities, Calls(v)
  PROVE  RecognitionIInv'
  <1>1. UNCHANGED <<userFiles, profileList, savedFor>>
    BY DEF Calls
  <1>2. v.agent \in SUBSET Texts /\ v.name \in SUBSET Texts
    BY RecognitionAssumption DEF Identity, AtMostOne
  <1>3. RecordsGood'
    <2> DEFINE k == DeviceKey(v)
               old == IF k \in DOMAIN deviceRecords THEN deviceRecords[k] ELSE NoRecord
               new == [agent |-> IF v.agent # {} THEN v.agent ELSE old.agent,
                       name |-> IF v.name # {} THEN v.name ELSE old.name,
                       by |-> Identify(profileList, v).id]
    <2>1. old.agent \in SUBSET Texts /\ old.name \in SUBSET Texts
      BY DEF RecognitionIInv, RecordsGood, NoRecord
    <2>2. new.agent \in SUBSET Texts /\ new.name \in SUBSET Texts
      BY <1>2, <2>1
    <2>3. deviceRecords' = [d \in DOMAIN deviceRecords \cup {k} |->
                              IF d = k THEN new ELSE deviceRecords[d]]
      BY DEF Calls
    <2> HIDE DEF new, k
    <2>4. QED
      BY <2>2, <2>3 DEF RecognitionIInv, RecordsGood
  <1>4. QED
    BY <1>1, <1>3 DEF RecognitionIInv, ListGood, SavedStand, FilesGood, FilesListed, FilesWin

LEMMA SavesKeep ==
  ASSUME RecognitionIInv, NEW k \in DOMAIN deviceRecords, NEW id \in UserIds,
         SavesFromDevice(k, id)
  PROVE  RecognitionIInv'
  <1> DEFINE record == deviceRecords[k]
             made == ProfileToml(record, id)
             base == Find(record.by)
  <1>1. base \in Profile
    BY FoundIsProfile DEF RecognitionIInv, ListGood
  <1>2. record.agent \in SUBSET Texts /\ record.name \in SUBSET Texts
    BY DEF RecognitionIInv, RecordsGood
  <1>3. /\ made \in Profile /\ made.id = id /\ made.rules.agent = record.agent
        /\ record.name = {} \/ made.rules.name = record.name
    <2>1. base.rules.name \in SUBSET Texts /\ base.rules.type \in SUBSET Texts
      BY <1>1 DEF Profile, Rules
    <2>2. id \in ProfileIds
      BY DEF ProfileIds
    <2>3. QED
      BY <1>2, <2>1, <2>2 DEF ProfileToml, Profile, Rules
  <1> HIDE DEF made, record
  <1>4. Reloads(With(userFiles, made))
    BY DEF SavesFromDevice, made, record
  <1>5. ListGood' /\ userFiles' = With(userFiles, made)
    BY <1>3, <1>4, WithGood, ReloadsGood DEF RecognitionIInv, ListGood
  <1>6. savedFor' = [i \in DOMAIN savedFor \cup {id} |-> IF i = id THEN record ELSE savedFor[i]]
    BY DEF SavesFromDevice, record
  <1>7. /\ DOMAIN userFiles' = DOMAIN userFiles \cup {id} /\ userFiles'[id] = made
        /\ \A i \in DOMAIN userFiles : i # id => userFiles'[i] = userFiles[i]
    BY <1>3, <1>5, WithGood DEF RecognitionIInv, ListGood
  <1>8. SavedStand'
    BY <1>3, <1>6, <1>7 DEF RecognitionIInv, SavedStand
  <1>9. RecordsGood'
    BY DEF SavesFromDevice, RecognitionIInv, RecordsGood
  <1>10. QED
    BY <1>5, <1>8, <1>9 DEF RecognitionIInv

LEMMA CreatesKeep ==
  ASSUME RecognitionIInv, NEW id \in UserIds, CreatesCopy(id)
  PROVE  RecognitionIInv'
  <1> DEFINE made == [id |-> id, rules |-> NoRules]
  <1>1. made \in Profile /\ made.id = id
    BY DEF Profile, Rules, NoRules, ProfileIds
  <1> HIDE DEF made
  <1>2. ListGood' /\ userFiles' = With(userFiles, made)
    BY <1>1, WithGood, ReloadsGood DEF CreatesCopy, RecognitionIInv, ListGood, made
  <1>3. /\ DOMAIN userFiles' = DOMAIN userFiles \cup {id}
        /\ \A j \in DOMAIN userFiles : j # id => userFiles'[j] = userFiles[j]
    BY <1>1, <1>2, WithGood DEF RecognitionIInv, ListGood
  <1>4. id \notin DOMAIN userFiles /\ UNCHANGED <<deviceRecords, savedFor>>
    BY DEF CreatesCopy
  <1>5. SavedStand' /\ RecordsGood'
    BY <1>3, <1>4 DEF RecognitionIInv, SavedStand, RecordsGood
  <1>6. QED
    BY <1>2, <1>5 DEF RecognitionIInv

LEMMA BindsKeep ==
  ASSUME RecognitionIInv, NEW id \in ProfileIds, NEW address \in Addresses,
         BindsToAddress(id, address)
  PROVE  RecognitionIInv'
  <1>1. PICK i \in DOMAIN profileList :
          /\ profileList[i].id = id
          /\ Reloads(With(userFiles, [id |-> id,
                            rules |-> [profileList[i].rules EXCEPT !.ip = {address}]]))
    BY DEF BindsToAddress
  <1> DEFINE made == [id |-> id, rules |-> [profileList[i].rules EXCEPT !.ip = {address}]]
  <1>2. profileList[i] \in Profile
    BY DEF RecognitionIInv, ListGood
  <1>3. /\ made \in Profile /\ made.id = id
        /\ made.rules.agent = profileList[i].rules.agent
        /\ made.rules.name = profileList[i].rules.name
    BY <1>2 DEF Profile, Rules
  <1>4. id \in DOMAIN userFiles => profileList[i] = userFiles[id]
    BY <1>1 DEF RecognitionIInv, ListGood, FilesWin
  <1> HIDE DEF made
  <1>5. ListGood' /\ userFiles' = With(userFiles, made)
    BY <1>1, <1>3, WithGood, ReloadsGood DEF RecognitionIInv, ListGood, made
  <1>6. /\ DOMAIN userFiles' = DOMAIN userFiles \cup {id} /\ userFiles'[id] = made
        /\ \A j \in DOMAIN userFiles : j # id => userFiles'[j] = userFiles[j]
    BY <1>3, <1>5, WithGood DEF RecognitionIInv, ListGood
  <1>7. UNCHANGED <<deviceRecords, savedFor>>
    BY DEF BindsToAddress
  <1>8. SavedStand'
    BY <1>3, <1>4, <1>6, <1>7 DEF RecognitionIInv, SavedStand
  <1>9. RecordsGood'
    BY <1>7 DEF RecognitionIInv, RecordsGood
  <1>10. QED
    BY <1>5, <1>8, <1>9 DEF RecognitionIInv

LEMMA RemovesKeep ==
  ASSUME RecognitionIInv, NEW id \in DOMAIN userFiles, RemovesProfile(id)
  PROVE  RecognitionIInv'
  <1>1. FilesGood(NoLonger(userFiles, id))
    BY DEF RecognitionIInv, ListGood, FilesGood, NoLonger
  <1>2. ListGood' /\ userFiles' = NoLonger(userFiles, id)
    BY <1>1, ReloadsGood DEF RemovesProfile
  <1>3. savedFor' = NoLonger(savedFor, id) /\ deviceRecords' = deviceRecords
    BY DEF RemovesProfile
  <1>4. SavedStand'
    BY <1>2, <1>3 DEF RecognitionIInv, SavedStand, NoLonger
  <1>5. RecordsGood'
    BY <1>3 DEF RecognitionIInv, RecordsGood
  <1>6. QED
    BY <1>2, <1>4, <1>5 DEF RecognitionIInv

LEMMA ReloadsKeep ==
  ASSUME RecognitionIInv, ReloadsProfiles
  PROVE  RecognitionIInv'
  <1>1. ListGood' /\ userFiles' = userFiles
    BY ReloadsGood DEF ReloadsProfiles, RecognitionIInv, ListGood
  <1>2. UNCHANGED <<deviceRecords, savedFor>>
    BY DEF ReloadsProfiles
  <1>3. SavedStand' /\ RecordsGood'
    BY <1>1, <1>2 DEF RecognitionIInv, SavedStand, RecordsGood
  <1>4. QED
    BY <1>1, <1>3 DEF RecognitionIInv

-----------------------------------------------------------------------------
(* Why the invariant is enough.                                            *)

LEMMA IInvGivesInv ==
  ASSUME RecognitionIInv
  PROVE  RecognitionInv
  <1>1. RecognitionTypeOK
    BY DEF RecognitionIInv, ListGood, SavedStand, FilesGood, RecognitionTypeOK
  <1>2. AddressWins
    BY AddressDecides, RecognitionAssumption DEF AddressWins, RecognitionIInv, ListGood
  <1>3. OwnTextWins
    <2>1. SUFFICES ASSUME NEW id \in DOMAIN savedFor, NEW v \in Identities,
                          savedFor[id].agent # {}, v.agent = savedFor[id].agent,
                          v.name = savedFor[id].name, v.type = {},
                          \A i \in DOMAIN profileList :
                            profileList[i].rules.agent = v.agent \/ FarFrom(profileList[i], v)
                   PROVE  Identify(profileList, v).rules.agent = v.agent
      BY DEF OwnTextWins
    <2>2. PICK p \in DOMAIN profileList : profileList[p] = userFiles[id]
      BY DEF RecognitionIInv, ListGood, SavedStand, FilesListed
    <2>3. /\ profileList[p].rules.agent = v.agent
          /\ v.name = {} \/ profileList[p].rules.name = v.name
      BY <2>1, <2>2 DEF RecognitionIInv, SavedStand
    <2>4. v \in Identity /\ profileList \in Seq(Profile)
      BY RecognitionAssumption DEF RecognitionIInv, ListGood
    <2>5. v.agent # {} /\ v.type = {}
      BY <2>1
    <2>6. QED
      BY <2>1, <2>3, <2>4, <2>5, OwnTextDecides, Zenon
  <1>4. QED
    BY <1>1, <1>2, <1>3 DEF RecognitionInv

\* Whatever devices say, pages save and files are put in the place of: a
\* profile for an address is found by it, and a profile made from a device
\* by what the device says.
THEOREM RecognisedAsSaved == RecognitionSpec => []RecognitionInv
  <1>1. RecognitionInit => RecognitionIInv
    BY InitGood
  <1>2. RecognitionIInv /\ [RecognitionNext]_recognitionVars => RecognitionIInv'
    <2>1. SUFFICES ASSUME RecognitionIInv, [RecognitionNext]_recognitionVars
                   PROVE  RecognitionIInv'
      OBVIOUS
    <2>2. CASE \E v \in Identities : Calls(v)
      BY <2>1, <2>2, CallsKeep
    <2>3. CASE \E k \in DOMAIN deviceRecords, id \in UserIds : SavesFromDevice(k, id)
      BY <2>1, <2>3, SavesKeep
    <2>4. CASE \E id \in ProfileIds, address \in Addresses : BindsToAddress(id, address)
      BY <2>1, <2>4, BindsKeep
    <2>5. CASE \E id \in DOMAIN userFiles : RemovesProfile(id)
      BY <2>1, <2>5, RemovesKeep
    <2>6. CASE UNCHANGED recognitionVars
      BY <2>1, <2>6 DEF recognitionVars, RecognitionIInv, ListGood, SavedStand, RecordsGood,
                        FilesGood, FilesListed, FilesWin
    <2>7. CASE ReloadsProfiles
      BY <2>1, <2>7, ReloadsKeep
    <2>8. CASE \E id \in UserIds : CreatesCopy(id)
      BY <2>1, <2>8, CreatesKeep
    <2>9. QED
      BY <2>1, <2>2, <2>3, <2>4, <2>5, <2>6, <2>7, <2>8 DEF RecognitionNext
  <1>3. RecognitionIInv => RecognitionInv
    BY IInvGivesInv
  <1>4. QED
    BY <1>1, <1>2, <1>3, PTL DEF RecognitionSpec

-----------------------------------------------------------------------------
(* PlayState: the writes.                                                  *)

PlayRow == [position : Nat, duration : SUBSET Nat, played : BOOLEAN, at : Nat]

PlayTypes ==
  /\ items \subseteq Items
  /\ watched = [q \in DOMAIN watched |-> watched[q]]
  /\ DOMAIN watched \subseteq Devices \X items
  /\ \A q \in DOMAIN watched : watched[q] \in PlayRow
  /\ heard = [q \in Devices \X Items |-> heard[q]]

WithinTheFilm ==
  \A q \in DOMAIN watched : \A n \in watched[q].duration :
    n > 0 => watched[q].position <= n

InTheMiddle(q) ==
  /\ q \in DOMAIN watched
  /\ ~watched[q].played
  /\ watched[q].position >= MinResumeMs

\* What was heard last, when it left the film in the middle.
Left(row) == {[position |-> row.position, at |-> row.at]}

\* The table says in the middle where the last report left it there.
HeardIsKept ==
  \A q \in Devices \X Items :
    heard[q] = IF InTheMiddle(q) THEN Left(watched[q]) ELSE {}

PlayIInv == PlayTypes /\ WithinTheFilm /\ HeardIsKept

\* What a report does to the table: the row of the pair is gone or a new one,
\* written now, and what was heard of the pair is what the row says.
Gone(pair) ==
  /\ watched' = Without(watched, pair)
  /\ heard' = [heard EXCEPT ![pair] = {}]
Written(pair, row) ==
  /\ watched' = Upsert(watched, pair, row)
  /\ heard' = [heard EXCEPT ![pair] =
       IF ~row.played /\ row.position >= MinResumeMs THEN Left(row) ELSE {}]

GoodRow(row) ==
  /\ row \in PlayRow
  /\ \A n \in row.duration : n > 0 => row.position <= n

\* A position is cut to the duration only if it is past it, and then the film
\* counted as played.
LEMMA KeptPositionFacts ==
  ASSUME NEW position \in Nat, NEW length \in SUBSET Nat,
         \A m, n \in length : m = n
  PROVE  /\ KeptPosition(position, length) \in Nat
         /\ \A n \in length : n > 0 => KeptPosition(position, length) <= n
         /\ ~PlayedThrough(position, length) => KeptPosition(position, length) = position
         /\ PlayedThrough(position, length) \in BOOLEAN
  <1>1. CASE \E d \in length : d > 0 /\ position > d
    <2>1. PICK d \in length : d > 0 /\ position > d
      BY <1>1
    <2>2. (CHOOSE e \in length : TRUE) = d
      BY <2>1
    <2>3. KeptPosition(position, length) = d
      BY <1>1, <2>2 DEF KeptPosition
    <2>4. d \in Nat /\ position >= d - 30000 /\ position * 100 >= d * 95
      BY <2>1
    <2>5. PlayedThrough(position, length)
      BY <2>1, <2>4 DEF PlayedThrough
    <2>6. QED
      BY <2>1, <2>3, <2>4, <2>5 DEF PlayedThrough
  <1>2. CASE ~\E d \in length : d > 0 /\ position > d
    BY <1>2 DEF KeptPosition, PlayedThrough
  <1>3. QED
    BY <1>1, <1>2

LEMMA DurationsKnown ==
  /\ \A d \in Durations : d \in SUBSET Nat /\ \A m, n \in d : m = n
  /\ \A i \in Items : RowDuration(i) \in SUBSET Nat
  BY PlayStateAssumption

LEMMA SetPositionDoes ==
  ASSUME PlayIInv, NEW r \in Reports, NEW now \in Seconds, r.what = "position",
         SetPosition(r, now)
  PROVE  \/ Gone(<<r.by, r.item>>)
         \/ \E row : GoodRow(row) /\ Written(<<r.by, r.item>>, row)
  <1> DEFINE played == PlayedThrough(r.position, r.duration)
             kept == KeptPosition(r.position, r.duration)
             row == Row(kept, r.duration, played, now)
  <1>1. r.position \in Nat /\ r.duration \in Durations /\ now \in Nat
    BY PlayStateAssumption DEF Reports
  <1>2. /\ r.duration \in SUBSET Nat /\ (\A m, n \in r.duration : m = n)
    BY <1>1, DurationsKnown
  <1>3. /\ kept \in Nat /\ (\A n \in r.duration : n > 0 => kept <= n)
        /\ (~played => kept = r.position) /\ played \in BOOLEAN
    BY <1>1, <1>2, KeptPositionFacts
  <1> HIDE DEF kept, played
  <1>4. /\ row.position = kept /\ row.duration = r.duration
        /\ row.played = played /\ row.at = now
    BY DEF Row
  <1>5. GoodRow(row)
    <2>1. row \in PlayRow
      BY <1>1, <1>2, <1>3 DEF Row, PlayRow
    <2>2. QED
      BY <1>3, <1>4, <2>1 DEF GoodRow
  <1>6. CASE r.position < MinResumeMs /\ ~played
    BY <1>6 DEF SetPosition, Gone, played
  <1>7. CASE ~(r.position < MinResumeMs /\ ~played)
    <2>1. (~row.played /\ row.position >= MinResumeMs) <=> ~played
      BY <1>1, <1>3, <1>4, <1>7 DEF MinResumeMs
    <2>2. watched' = Upsert(watched, <<r.by, r.item>>, row)
      BY <1>7 DEF SetPosition, kept, played
    <2>3. heard' = [heard EXCEPT ![<<r.by, r.item>>] = IF played THEN {} ELSE {[position |-> kept, at |-> now]}]
      BY <1>7 DEF SetPosition, kept, played
    <2>4. (IF played THEN {} ELSE {[position |-> kept, at |-> now]})
           = IF ~row.played /\ row.position >= MinResumeMs THEN Left(row) ELSE {}
      BY <2>1, <1>4, <1>3 DEF Left
    <2>5. Written(<<r.by, r.item>>, row)
      BY <2>2, <2>3, <2>4 DEF Written
    <2>6. QED
      BY <1>5, <2>5
  <1>8. QED
    BY <1>6, <1>7

LEMMA MarkPlayedDoes ==
  ASSUME PlayIInv, NEW r \in Reports, NEW now \in Seconds, r.item \in items, MarkPlayed(r, now)
  PROVE  \E row : GoodRow(row) /\ Written(<<r.by, r.item>>, row)
  <1> DEFINE pair == <<r.by, r.item>>
  <1>1. pair \in Devices \X Items /\ r.item \in Items /\ now \in Nat
    BY PlayStateAssumption DEF Reports
  <1>2. heard' = [heard EXCEPT ![pair] = {}]
    BY DEF MarkPlayed
  <1>3. CASE pair \in DOMAIN watched
    <2> DEFINE row == [watched[pair] EXCEPT !.played = TRUE, !.at = now]
    <2>1. watched[pair] \in PlayRow
      BY <1>3 DEF PlayIInv, PlayTypes
    <2>2. row \in PlayRow /\ row.at = now /\ row.played = TRUE
          /\ row.position = watched[pair].position /\ row.duration = watched[pair].duration
      BY <1>1, <2>1 DEF PlayRow
    <2>3. watched' = [watched EXCEPT ![pair].played = TRUE, ![pair].at = now]
      BY <1>3 DEF MarkPlayed
    <2>4. watched' = [watched EXCEPT ![pair] = row]
      BY <2>1, <2>3 DEF PlayRow
    <2> HIDE DEF row
    <2>5. watched' = Upsert(watched, pair, row)
      BY <1>3, <2>4 DEF Upsert, PlayIInv, PlayTypes
    <2>6. GoodRow(row)
      BY <1>3, <2>2 DEF GoodRow, PlayIInv, WithinTheFilm
    <2>7. QED
      BY <1>2, <2>2, <2>5, <2>6 DEF Written
  <1>4. CASE pair \notin DOMAIN watched
    <2> DEFINE row == Row(0, RowDuration(r.item), TRUE, now)
    <2>1. RowDuration(r.item) \in SUBSET Nat
      BY <1>1, DurationsKnown
    <2>2. row \in PlayRow /\ row.at = now /\ row.played = TRUE
          /\ row.position = 0 /\ row.duration = RowDuration(r.item)
      BY <1>1, <2>1 DEF Row, PlayRow
    <2>3. watched' = Upsert(watched, pair, row)
      BY <1>4 DEF MarkPlayed
    <2> HIDE DEF row
    <2>4. GoodRow(row)
      BY <2>1, <2>2 DEF GoodRow
    <2>5. QED
      BY <1>2, <2>2, <2>3, <2>4 DEF Written
  <1>5. QED
    BY <1>3, <1>4

LEMMA GoneKeeps ==
  ASSUME PlayIInv, NEW pair \in Devices \X Items, Gone(pair), items' = items
  PROVE  PlayIInv'
  <1>1. /\ DOMAIN watched' = DOMAIN watched \ {pair}
        /\ \A q \in DOMAIN watched' : watched'[q] = watched[q]
        /\ watched' = [q \in DOMAIN watched' |-> watched'[q]]
    BY DEF Gone, Without
  <1>2. /\ heard' = [q \in Devices \X Items |-> heard'[q]]
        /\ \A q \in Devices \X Items : heard'[q] = IF q = pair THEN {} ELSE heard[q]
    BY DEF Gone, PlayIInv, PlayTypes
  <1>3. PlayTypes'
    BY <1>1, <1>2 DEF PlayIInv, PlayTypes
  <1>4. WithinTheFilm'
    BY <1>1 DEF PlayIInv, WithinTheFilm
  <1>5. HeardIsKept'
    BY <1>1, <1>2 DEF PlayIInv, HeardIsKept, InTheMiddle
  <1>6. QED
    BY <1>3, <1>4, <1>5 DEF PlayIInv

LEMMA WrittenKeeps ==
  ASSUME PlayIInv, NEW pair \in Devices \X Items, pair[2] \in items,
         NEW row, GoodRow(row), Written(pair, row), items' = items
  PROVE  PlayIInv'
  <1>1. /\ DOMAIN watched' = DOMAIN watched \cup {pair}
        /\ \A q \in DOMAIN watched' : q # pair => q \in DOMAIN watched /\ watched'[q] = watched[q]
        /\ watched'[pair] = row
        /\ watched' = [q \in DOMAIN watched' |-> watched'[q]]
    BY DEF Written, Upsert
  <1>2. /\ heard' = [q \in Devices \X Items |-> heard'[q]]
        /\ \A q \in Devices \X Items : q # pair => heard'[q] = heard[q]
        /\ heard'[pair] = IF ~row.played /\ row.position >= MinResumeMs THEN Left(row) ELSE {}
    BY DEF Written, PlayIInv, PlayTypes
  <1>3. pair \in Devices \X items
    OBVIOUS
  <1>4. PlayTypes'
    <2>1. (DOMAIN watched \subseteq Devices \X items)'
      BY <1>1, <1>3 DEF PlayIInv, PlayTypes
    <2>2. (\A q \in DOMAIN watched : watched[q] \in PlayRow)'
      BY <1>1 DEF GoodRow, PlayIInv, PlayTypes
    <2>3. QED
      BY <1>1, <1>2, <2>1, <2>2 DEF PlayIInv, PlayTypes
  <1>5. WithinTheFilm'
    BY <1>1 DEF PlayIInv, WithinTheFilm, GoodRow
  <1>6. HeardIsKept'
    <2> SUFFICES ASSUME NEW q \in Devices \X Items
                 PROVE  heard'[q] = IF InTheMiddle(q)' THEN Left(watched'[q]) ELSE {}
      BY DEF HeardIsKept
    <2>1. CASE q = pair
      BY <1>1, <1>2, <2>1 DEF InTheMiddle
    <2>2. CASE q # pair
      BY <1>1, <1>2, <2>2 DEF InTheMiddle, PlayIInv, HeardIsKept
    <2>3. QED
      BY <2>1, <2>2
  <1>7. QED
    BY <1>4, <1>5, <1>6 DEF PlayIInv

LEMMA WritesKeep ==
  ASSUME PlayIInv, NEW r \in Reports, NEW now \in Seconds, Writes(r, now)
  PROVE  PlayIInv'
  <1> DEFINE pair == <<r.by, r.item>>
  <1>1. pair \in Devices \X Items /\ pair[2] = r.item
    BY DEF Reports
  <1>2. items' = items /\ r.item \in items
    BY DEF Writes
  <1>3. CASE r.what = "position" /\ SetPosition(r, now)
    BY <1>1, <1>2, <1>3, SetPositionDoes, GoneKeeps, WrittenKeeps
  <1>4. CASE r.what = "played" /\ MarkPlayed(r, now)
    BY <1>1, <1>2, <1>4, MarkPlayedDoes, WrittenKeeps
  <1>5. CASE r.what = "clear" /\ Clear(r)
    <2>1. Gone(pair)
      BY <1>5 DEF Clear, Gone
    <2>2. QED
      BY <1>1, <1>2, <2>1, GoneKeeps
  <1>6. QED
    BY <1>3, <1>4, <1>5 DEF Writes

LEMMA ItemGoneKeeps ==
  ASSUME PlayIInv, NEW i \in Items, ItemGone(i)
  PROVE  PlayIInv'
  <1>1. /\ DOMAIN watched' = {q \in DOMAIN watched : q[2] # i}
        /\ \A q \in DOMAIN watched' : watched'[q] = watched[q]
        /\ watched' = [q \in DOMAIN watched' |-> watched'[q]]
        /\ items' = items \ {i}
    BY DEF ItemGone
  <1>2. /\ heard' = [q \in Devices \X Items |-> heard'[q]]
        /\ \A q \in Devices \X Items : heard'[q] = IF q[2] = i THEN {} ELSE heard[q]
    BY DEF ItemGone, PlayIInv, PlayTypes
  <1>3. PlayTypes'
    <2>1. (DOMAIN watched \subseteq Devices \X items)'
      BY <1>1 DEF PlayIInv, PlayTypes
    <2>2. QED
      BY <1>1, <1>2, <2>1 DEF PlayIInv, PlayTypes
  <1>4. WithinTheFilm'
    BY <1>1 DEF PlayIInv, WithinTheFilm
  <1>5. HeardIsKept'
    BY <1>1, <1>2 DEF PlayIInv, HeardIsKept, InTheMiddle
  <1>6. QED
    BY <1>3, <1>4, <1>5 DEF PlayIInv

-----------------------------------------------------------------------------
(* PlayState: the list.                                                    *)

LEMMA UnfinishedIsHeard ==
  ASSUME PlayIInv, NEW d \in Devices
  PROVE  /\ Unfinished(d) = {i \in VideoItems : heard[<<d, i>>] # {}}
         /\ \A i \in Unfinished(d) : heard[<<d, i>>] = Left(watched[<<d, i>>])
  <1>1. \A i \in VideoItems : <<d, i>> \in Devices \X Items
    BY PlayStateAssumption
  <1>2. \A i \in VideoItems : i \in Unfinished(d) <=> InTheMiddle(<<d, i>>)
    BY DEF Unfinished, InTheMiddle
  <1>3. \A i \in VideoItems : heard[<<d, i>>] =
          IF InTheMiddle(<<d, i>>) THEN Left(watched[<<d, i>>]) ELSE {}
    BY <1>1 DEF PlayIInv, HeardIsKept
  <1>4. Unfinished(d) \subseteq VideoItems
    BY DEF Unfinished
  <1>5. QED
    BY <1>2, <1>3, <1>4 DEF Left

LEMMA AsManyImages ==
  ASSUME NEW S, IsFiniteSet(S), NEW f, \A i, j \in S : f[i] = f[j] => i = j
  PROVE  Cardinality({f[i] : i \in S}) = Cardinality(S)
  <1> DEFINE T == {f[i] : i \in S}
             g == [i \in S |-> f[i]]
  <1>1. g \in Bijection(S, T)
    BY DEF Bijection, Injection, Surjection, IsInjective
  <1> HIDE DEF g, T
  <1>2. Cardinality(T) = Cardinality(S)
    BY <1>1, FS_Bijection DEF ExistsBijection
  <1>3. QED
    BY <1>2 DEF T

\* A row of the answer for every film.
LEMMA EntriesCount ==
  ASSUME NEW d \in Devices
  PROVE  Cardinality({ContinueEntry(d, i) : i \in Unfinished(d)}) = Cardinality(Unfinished(d))
  <1> DEFINE f == [i \in Unfinished(d) |-> ContinueEntry(d, i)]
  <1>1. IsFiniteSet(Unfinished(d))
    <2>1. Unfinished(d) \in SUBSET Items
      BY PlayStateAssumption DEF Unfinished
    <2>2. QED
      BY <2>1, FS_Subset, PlayStateAssumption
  <1>2. /\ \A i \in Unfinished(d) : f[i].item = i
        /\ {f[i] : i \in Unfinished(d)} = {ContinueEntry(d, i) : i \in Unfinished(d)}
    BY DEF ContinueEntry
  <1>3. \A i, j \in Unfinished(d) : f[i] = f[j] => i = j
    BY <1>2
  <1> HIDE DEF f
  <1>4. Cardinality({f[i] : i \in Unfinished(d)}) = Cardinality(Unfinished(d))
    BY <1>1, <1>3, AsManyImages
  <1>5. QED
    BY <1>2, <1>4

LEMMA OfferIsHeard ==
  ASSUME PlayIInv
  PROVE  OfferedWhereLeft
  <1> SUFFICES ASSUME NEW d \in Devices, NEW limit \in Limits, NEW list \in ContinueWatching(d, limit)
      PROVE  LET middle == {i \in VideoItems : heard[<<d, i>>] # {}}
                 item(n) == list[n].item
             IN  /\ DOMAIN list = 1..Smaller(Cardinality(middle), limit)
                 /\ \A n \in DOMAIN list :
                        /\ item(n) \in middle
                        /\ \E h \in heard[<<d, item(n)>>] : h.position = list[n].position
                        /\ \A i \in middle : LeftBefore(<<d, item(n)>>, <<d, i>>) =>
                               \E m \in DOMAIN list : m < n /\ item(m) = i
                 /\ \A m, n \in DOMAIN list : m # n => item(m) # item(n)
    BY DEF OfferedWhereLeft
  <1> DEFINE U == Unfinished(d)
             rows == {ContinueEntry(d, i) : i \in U}
             places == 1..Smaller(Cardinality(U), limit)
  <1>1. Cardinality(rows) = Cardinality(U)
    BY EntriesCount
  <1>2. /\ U = {i \in VideoItems : heard[<<d, i>>] # {}}
        /\ \A i \in U : heard[<<d, i>>] = Left(watched[<<d, i>>])
    BY UnfinishedIsHeard
  <1>3. /\ list \in [places -> rows]
        /\ \A m, n \in places : m # n => list[m] # list[n]
        /\ \A row \in rows, n \in places :
               row.at > list[n].at => \E m \in places : m < n /\ list[m] = row
    BY <1>1 DEF ContinueWatching, NewestFirst
  <1>4. \A i \in U : /\ ContinueEntry(d, i).item = i
                     /\ \A h \in heard[<<d, i>>] :
                          h.position = ContinueEntry(d, i).position /\ h.at = ContinueEntry(d, i).at
                     /\ heard[<<d, i>>] # {}
    BY <1>2 DEF ContinueEntry, Left
  <1>5. \A n \in places : list[n].item \in U /\ list[n] = ContinueEntry(d, list[n].item)
    <2>1. TAKE n \in places
    <2>2. PICK i \in U : list[n] = ContinueEntry(d, i)
      BY <1>3
    <2>3. QED
      BY <1>4, <2>2
  <1> HIDE DEF places, U
  <1>6. ASSUME NEW n \in places, NEW i \in U, LeftBefore(<<d, list[n].item>>, <<d, i>>)
        PROVE  \E m \in places : m < n /\ list[m].item = i
    <2>1. PICK h \in heard[<<d, list[n].item>>], g \in heard[<<d, i>>] : h.at < g.at
      BY <1>6 DEF LeftBefore
    <2>2. /\ i \in Items /\ list[n].item \in U
          /\ h.at = list[n].at /\ g.at = ContinueEntry(d, i).at
      BY <1>2, <1>4, <1>5, <2>1, PlayStateAssumption
    <2>3. h.at \in Nat /\ g.at \in Nat
      <3>1. \A j \in U : watched[<<d, j>>].at \in Nat
        BY DEF U, Unfinished, PlayIInv, PlayTypes, PlayRow
      <3>2. \A j \in U : ContinueEntry(d, j).at = watched[<<d, j>>].at
        BY DEF ContinueEntry
      <3>3. QED
        BY <1>5, <2>2, <3>1, <3>2
    <2>4. ContinueEntry(d, i).at > list[n].at
      BY <2>1, <2>2, <2>3
    <2>5. PICK m \in places : m < n /\ list[m] = ContinueEntry(d, i)
      BY <1>3, <2>4
    <2>6. QED
      BY <1>4, <2>5
  <1>7. \A n \in places : \E h \in heard[<<d, list[n].item>>] : h.position = list[n].position
    BY <1>4, <1>5
  <1>8. \A m, n \in places : m # n => list[m].item # list[n].item
    BY <1>3, <1>5
  <1>9. DOMAIN list = places
    BY <1>3
  <1>10. DOMAIN list = 1..Smaller(Cardinality({i \in VideoItems : heard[<<d, i>>] # {}}), limit)
    BY <1>2, <1>9 DEF places
  <1>11. \A n \in DOMAIN list : list[n].item \in {i \in VideoItems : heard[<<d, i>>] # {}}
    BY <1>2, <1>5, <1>9
  <1>12. \A n \in DOMAIN list, i \in {j \in VideoItems : heard[<<d, j>>] # {}} :
           LeftBefore(<<d, list[n].item>>, <<d, i>>) => \E m \in DOMAIN list : m < n /\ list[m].item = i
    BY <1>2, <1>6, <1>9
  <1> HIDE DEF rows
  <1>13. QED
    BY <1>7, <1>8, <1>9, <1>10, <1>11, <1>12

\* play_state.rs set, mark_played, clear and continue_watching, for any number
\* of devices and films: what a device may go on with is what was last written
\* for that device and film, at the place where it left, the latest first, in
\* whatever order reports arrive and rows are removed.
THEOREM OfferedAsLeft == PlaySpec => []PlayInv
  <1>1. PlayInit => PlayIInv
    <2>1. ASSUME PlayInit PROVE PlayIInv
      <3>1. watched = [q \in {} |-> watched[q]] /\ DOMAIN watched = {}
        BY <2>1 DEF PlayInit
      <3>2. QED
        BY <2>1, <3>1 DEF PlayInit, PlayIInv, PlayTypes, WithinTheFilm, HeardIsKept, InTheMiddle
    <2>2. QED
      BY <2>1
  <1>2. PlayIInv /\ [PlayNext]_playVars => PlayIInv'
    <2>1. ASSUME PlayIInv, UNCHANGED playVars PROVE PlayIInv'
      BY <2>1 DEF playVars, PlayIInv, PlayTypes, WithinTheFilm, HeardIsKept, InTheMiddle
    <2>2. ASSUME PlayIInv, PlayNext PROVE PlayIInv'
      BY <2>2, WritesKeep, ItemGoneKeeps DEF PlayNext
    <2>3. QED
      BY <2>1, <2>2
  <1>3. PlayIInv => PlayInv
    BY OfferIsHeard DEF PlayIInv, PlayTypes, WithinTheFilm, PlayInv, PlayTypeOK
  <1>4. QED
    BY <1>1, <1>2, <1>3, PTL DEF PlaySpec

-----------------------------------------------------------------------------
(* Migration: the statements and the versions.                             *)

Phases == {"down", "migrate", "open", "failed"}
SchemaTexts == {Schema[k] : k \in 1 .. 12}

\* Twelve statements, no two alike, of which the version is the last.
LEMMA SchemaFacts ==
  /\ Len(Schema) = 12 /\ Schema[12] = "user_version"
  /\ \A i, j \in 1 .. 12 : Schema[i] = Schema[j] => i = j
  /\ \A i \in 1 .. 12 : Schema[i] \in SchemaTexts
  <1>1. Len(Schema) = 12 /\ Schema[12] = "user_version"
    BY DEF Schema
  <1>2. \A i, j \in 1 .. 12 : Schema[i] = Schema[j] => i = j
    BY DEF Schema
  <1>3. \A i \in 1 .. 12 : Schema[i] \in SchemaTexts
    BY DEF SchemaTexts
  <1>4. QED
    BY <1>1, <1>2, <1>3

\* What each version has is a beginning of them, and the last has all.
LEMMA CountFacts ==
  /\ \A v \in 0 .. 7 : Count[v] \in 0 .. 11
  /\ Count[7] = 11
  /\ \A v \in 0 .. 7 : "user_version" \notin Columns(v)
  <1>1. (\A v \in 0 .. 7 : Count[v] \in 0 .. 11) /\ Count[7] = 11
    BY DEF Count, VERSION
  <1>2. ASSUME NEW v \in 0 .. 7, "user_version" \in Columns(v)
        PROVE  FALSE
    <2>1. PICK k \in 1 .. Count[v] : Schema[k] = Schema[12]
      BY <1>2, SchemaFacts DEF Columns
    <2>2. k \in 1 .. 11
      BY <1>1
    <2>3. QED
      BY <2>1, <2>2, SchemaFacts
  <1>3. QED
    BY <1>1, <1>2

\* What is left to say is the rest of them.
IsRest(todo) ==
  /\ todo \in Seq(SchemaTexts) /\ Len(todo) <= 12
  /\ \A j \in 1 .. Len(todo) : todo[j] = Schema[12 - Len(todo) + j]

\* At the end nothing is left.
LEMMA NothingIsRest == IsRest(<<>>)
  BY DEF IsRest

\* A migration says all that come after its version.
LEMMA StatementsOf ==
  ASSUME NEW v \in 0 .. 7
  PROVE  /\ IsRest(Statements(v))
         /\ v < 7 => Len(Statements(v)) = 12 - Count[v]
         /\ v = 7 => Statements(v) = <<>>
  <1>1. CASE v = 7
    BY <1>1, NothingIsRest DEF Statements, VERSION
  <1>2. CASE v < 7
    <2>1. PICK c \in 0 .. 11 : c = Count[v]
      BY CountFacts
    <2>2. Statements(v) = SubSeq(Schema, c + 1, 12)
      <3>1. ~(v >= 7)
        BY <1>2
      <3>2. Statements(v) = SubSeq(Schema, Count[v] + 1, Len(Schema))
        BY <3>1 DEF Statements, VERSION
      <3>3. QED
        BY <2>1, <3>2, SchemaFacts
    <2>3. \A i \in c + 1 .. 12 : Schema[i] \in SchemaTexts
      BY SchemaFacts
    <2>4. /\ SubSeq(Schema, c + 1, 12) \in Seq(SchemaTexts)
          /\ Len(SubSeq(Schema, c + 1, 12)) = 12 - c
          /\ \A j \in 1 .. 12 - c : SubSeq(Schema, c + 1, 12)[j] = Schema[c + j]
      <3>1. c + 1 \in Int /\ c + 1 <= 12 /\ 12 - (c + 1) + 1 = 12 - c
        OBVIOUS
      <3>2. /\ SubSeq(Schema, c + 1, 12) \in Seq(SchemaTexts)
            /\ Len(SubSeq(Schema, c + 1, 12)) = 12 - (c + 1) + 1
            /\ \A j \in 1 .. 12 - (c + 1) + 1 : SubSeq(Schema, c + 1, 12)[j] = Schema[(c + 1) + j - 1]
        BY <2>3, <3>1, SubSeqProperties
      <3>3. \A j \in 1 .. 12 - c : (c + 1) + j - 1 = c + j
        OBVIOUS
      <3>4. QED
        BY <3>1, <3>2, <3>3
    <2>5. 12 - c <= 12 /\ \A j \in 1 .. 12 - c : 12 - (12 - c) + j = c + j
      OBVIOUS
    <2>6. IsRest(SubSeq(Schema, c + 1, 12))
      BY <2>4, <2>5 DEF IsRest
    <2>7. QED
      BY <1>2, <2>1, <2>2, <2>4, <2>6
  <1>3. QED
    BY <1>1, <1>2

\* After the next statement the rest is a rest.
LEMMA TailIsRest ==
  ASSUME NEW todo, IsRest(todo), todo # <<>>
  PROVE  /\ IsRest(Tail(todo)) /\ Len(Tail(todo)) = Len(todo) - 1 /\ Len(todo) \in 1 .. 12
         /\ Head(todo) = Schema[13 - Len(todo)] /\ Head(todo) = todo[1] /\ Head(todo) \in SchemaTexts
         /\ \A j \in 1 .. Len(todo) - 1 : Tail(todo)[j] = todo[j + 1]
         /\ \A j \in 1 .. Len(todo) - 1 : todo[j + 1] # Head(todo)
         /\ Len(todo) = 1 => Head(todo) = "user_version"
         /\ Tail(todo) = <<>> => Len(todo) = 1
         /\ Head(todo) = "user_version" => Len(todo) = 1
  <1>1. todo \in Seq(SchemaTexts) /\ Len(todo) <= 12
        /\ \A j \in 1 .. Len(todo) : todo[j] = Schema[12 - Len(todo) + j]
    BY DEF IsRest
  <1>2. PICK n \in 1 .. 12 : n = Len(todo)
    <2>1. Len(todo) \in Nat \ {0} /\ Len(todo) <= 12
      BY <1>1, EmptySeq
    <2>2. \A l \in Nat \ {0} : l <= 12 => l \in 1 .. 12
      OBVIOUS
    <2>3. QED
      BY <2>1, <2>2, Zenon
  <1>3. /\ Tail(todo) \in Seq(SchemaTexts) /\ Len(Tail(todo)) = n - 1 /\ Head(todo) \in SchemaTexts
        /\ \A j \in 1 .. n - 1 : Tail(todo)[j] = todo[j + 1]
    BY <1>1, <1>2, HeadTailProperties
  <1>4. Head(todo) = todo[1]
    BY <1>1, <1>2
  <1>5. todo[1] = Schema[13 - n] /\ \A j \in 1 .. n : todo[j] = Schema[12 - n + j]
    BY <1>1, <1>2
  <1>6. ASSUME NEW j \in 1 .. n - 1
        PROVE  todo[j + 1] = Schema[13 - n + j] /\ todo[j + 1] # todo[1]
    <2>1. j + 1 \in 1 .. n /\ 12 - n + (j + 1) = 13 - n + j
      OBVIOUS
    <2>2. todo[j + 1] = Schema[13 - n + j]
      BY <1>5, <2>1
    <2>3. 13 - n + j \in 1 .. 12 /\ 13 - n \in 1 .. 12 /\ 13 - n + j # 13 - n
      OBVIOUS
    <2>4. QED
      BY <1>5, <2>2, <2>3, SchemaFacts
  <1>7. IsRest(Tail(todo))
    <2>1. \A j \in 1 .. n - 1 : Tail(todo)[j] = Schema[12 - (n - 1) + j]
      <3>1. TAKE j \in 1 .. n - 1
      <3>2. 12 - (n - 1) + j = 13 - n + j
        OBVIOUS
      <3>3. QED
        BY <1>3, <1>6, <3>2
    <2>2. n - 1 <= 12
      OBVIOUS
    <2>3. QED
      BY <1>3, <2>1, <2>2 DEF IsRest
  <1>8. /\ n = 1 => Head(todo) = "user_version"
        /\ Tail(todo) = <<>> => n = 1
        /\ Head(todo) = "user_version" => n = 1
    <2>1. n = 1 => Head(todo) = "user_version"
      BY <1>4, <1>5, SchemaFacts
    <2>2. Tail(todo) = <<>> => n = 1
      <3>1. Tail(todo) = <<>> => n - 1 = 0
        BY <1>3, EmptySeq, Zenon
      <3>2. QED
        BY <3>1
    <2>3. Head(todo) = "user_version" => n = 1
      <3>1. Head(todo) = "user_version" => Schema[13 - n] = Schema[12]
        BY <1>4, <1>5, SchemaFacts
      <3>2. 13 - n \in 1 .. 12 /\ (13 - n = 12 => n = 1)
        OBVIOUS
      <3>3. QED
        BY <3>1, <3>2, SchemaFacts
    <2>4. QED
      BY <2>1, <2>2, <2>3
  <1>9. QED
    BY <1>2, <1>3, <1>4, <1>5, <1>6, <1>7, <1>8

-----------------------------------------------------------------------------
(* Migration: the steps.                                                   *)

OpenersTyped ==
  /\ oldVersion \in 0 .. 7 /\ log \in Seq(SchemaTexts) /\ halfway \in BOOLEAN /\ together \in BOOLEAN
  /\ opener \in [Openers -> [phase : Phases, todo : Seq(SchemaTexts)]]
  /\ \A o \in Openers : /\ IsRest(opener[o].todo)
                        /\ opener[o].phase # "migrate" => opener[o].todo = <<>>

\* The version is written after every column, so what is left of the log after
\* a loss of power has the columns if it has the version.
VersionComesLast ==
  \A i \in 1 .. Len(log) : log[i] = "user_version" =>
      \A c \in Columns(7) : c \in Columns(oldVersion) \/ \E j \in 1 .. i : log[j] = c

\* What a migration has behind it is there.
BehindIsThere ==
  \A o \in Openers : opener[o].phase = "migrate" =>
      \A k \in 1 .. 11 : k <= 12 - Len(opener[o].todo) => Schema[k] \in There

\* As long as no migration was ended half way and no two ran at once: one
\* migrates at most, what it has before it is not there yet, and what was begun
\* by others can be said again.
Undivided ==
  ~halfway /\ ~together =>
    /\ \A o, p \in Openers : opener[o].todo # <<>> /\ opener[p].todo # <<>> => o = p
    /\ \A o \in Openers : \A j \in 1 .. Len(opener[o].todo) :
           opener[o].todo[j] \notin There \ Repeatable
    /\ (\A o \in Openers : opener[o].todo = <<>>) => ~HalfDone
    /\ \A o \in Openers : opener[o].phase # "failed"

MigrationHolds ==
  OpenersTyped /\ VersionComesLast /\ BehindIsThere /\ OpenIsWhole /\ Undivided

\* A database with the version has the columns.
LEMMA VersionMeansColumns ==
  ASSUME OpenersTyped, VersionComesLast, UserVersion = 7
  PROVE  Columns(7) \subseteq There
  <1>1. CASE "user_version" \in Committed
    BY <1>1 DEF Committed, VersionComesLast, There, OpenersTyped
  <1>2. CASE "user_version" \notin Committed
    BY <1>2 DEF UserVersion, There, VERSION
  <1>3. QED
    BY <1>1, <1>2

\* A process that opens the database has before it what is not there.
LEMMA OpensHolds ==
  ASSUME MigrationHolds, NEW o \in Openers, Opens(o)
  PROVE  MigrationHolds'
  <1>1. OpenersTyped /\ VersionComesLast /\ BehindIsThere /\ OpenIsWhole /\ Undivided
    BY DEF MigrationHolds
  <1> DEFINE v == UserVersion
             new == Statements(v)
  <1>2. v \in 0 .. 7
    BY <1>1 DEF UserVersion, OpenersTyped, VERSION
  <1>3. /\ IsRest(new)
        /\ v < 7 => Len(new) = 12 - Count[v]
        /\ v = 7 => new = <<>>
    BY <1>2, StatementsOf
  <1>4. new \in Seq(SchemaTexts)
    BY <1>3 DEF IsRest
  <1>5. /\ opener' = [opener EXCEPT ![o] = [phase |-> "migrate", todo |-> new]]
        /\ together' = (together \/ \E p \in Openers \ {o} : opener[p].todo # <<>>)
        /\ UNCHANGED <<oldVersion, log, halfway>> /\ opener[o].phase \in {"down", "failed"}
    BY DEF Opens
  <1>6. There' = There /\ Committed' = Committed
    BY <1>5 DEF There, Committed
  <1> HIDE DEF new
  <1>7. OpenersTyped'
    <2>1. opener' \in [Openers -> [phase : Phases, todo : Seq(SchemaTexts)]]
      BY <1>1, <1>4, <1>5 DEF OpenersTyped, Phases
    <2>2. together' \in BOOLEAN
      BY <1>5
    <2>3. \A p \in Openers : /\ IsRest(opener'[p].todo)
                             /\ opener'[p].phase # "migrate" => opener'[p].todo = <<>>
      BY <1>1, <1>3, <1>5 DEF OpenersTyped
    <2>4. QED
      BY <1>1, <1>5, <2>1, <2>2, <2>3 DEF OpenersTyped
  <1>8. VersionComesLast'
    BY <1>1, <1>5 DEF VersionComesLast
  <1>9. \A k \in 1 .. 11 : k <= 12 - Len(new) => Schema[k] \in There
    <2>1. CASE v = 7
      <3>1. Columns(7) \subseteq There
        BY <1>1, <2>1, VersionMeansColumns
      <3>2. QED
        BY <3>1, CountFacts DEF Columns
    <2>2. CASE v < 7
      <3>1. v = oldVersion /\ Count[v] \in 0 .. 11
        BY <1>2, <2>2, CountFacts DEF UserVersion, VERSION
      <3>2. PICK c \in 0 .. 11 : c = Count[v]
        BY <3>1
      <3>3. \A k \in 1 .. c : Schema[k] \in There
        BY <3>1, <3>2 DEF Columns, There
      <3>4. 12 - Len(new) = c
        BY <1>3, <2>2, <3>2
      <3>5. QED
        BY <3>3, <3>4
    <2>3. QED
      BY <1>2, <2>1, <2>2
  <1>10. BehindIsThere'
    <2>1. \A p \in Openers \ {o} : opener'[p] = opener[p]
      BY <1>1, <1>5 DEF OpenersTyped
    <2>2. opener'[o].todo = new
      BY <1>1, <1>5 DEF OpenersTyped
    <2>3. QED
      BY <1>1, <1>6, <1>9, <2>1, <2>2 DEF BehindIsThere
  <1>11. OpenIsWhole'
    BY <1>1, <1>5, <1>6 DEF OpenIsWhole, OpenersTyped
  <1>12. Undivided'
    <2>1. SUFFICES ASSUME ~halfway, ~together, \A p \in Openers \ {o} : opener[p].todo = <<>>
                   PROVE  Undivided'
      BY <1>5 DEF Undivided
    <2>2. opener[o].todo = <<>>
      BY <1>1, <1>5 DEF OpenersTyped
    <2>3. ~HalfDone /\ \A p \in Openers : opener[p].phase # "failed"
      BY <1>1, <2>1, <2>2 DEF Undivided
    <2>4. \A j \in 1 .. Len(new) : new[j] \notin There \ Repeatable
      <3>1. CASE v = 7
        BY <1>3, <3>1
      <3>2. CASE v < 7
        <4>1. v = oldVersion /\ "user_version" \notin Committed /\ Count[v] \in 0 .. 11
          BY <1>2, <3>2, CountFacts DEF UserVersion, VERSION
        <4>2. Committed \subseteq Repeatable
          BY <2>3, <4>1 DEF HalfDone
        <4>3. ASSUME NEW j \in 1 .. Len(new), new[j] \in Columns(oldVersion)
              PROVE  FALSE
          <5>1. PICK c \in 0 .. 11 : c = Count[v] /\ c = Count[oldVersion] /\ Len(new) = 12 - c
            BY <1>3, <3>2, <4>1
          <5>2. new[j] = Schema[12 - (12 - c) + j] /\ j \in 1 .. 12 - c
            BY <1>3, <4>3, <5>1 DEF IsRest
          <5>3. PICK k \in 1 .. c : new[j] = Schema[k]
            BY <4>3, <5>1 DEF Columns
          <5>4. 12 - (12 - c) + j \in 1 .. 12 /\ k \in 1 .. 12 /\ 12 - (12 - c) + j # k
            BY <5>2
          <5>5. QED
            BY <5>2, <5>3, <5>4, SchemaFacts
        <4>4. QED
          BY <4>2, <4>3 DEF There
      <3>3. QED
        BY <1>2, <3>1, <3>2
    <2>5. \A p \in Openers \ {o} : opener'[p] = opener[p]
      BY <1>1, <1>5 DEF OpenersTyped
    <2>6. opener'[o].todo = new /\ opener'[o].phase = "migrate"
      BY <1>1, <1>5 DEF OpenersTyped
    <2>7. HalfDone' = HalfDone
      BY <1>6 DEF HalfDone
    <2>8. \A p \in Openers : \A j \in 1 .. Len(opener'[p].todo) :
              opener'[p].todo[j] \notin There \ Repeatable
      BY <2>1, <2>4, <2>5, <2>6
    <2>9. QED
      BY <1>6, <2>1, <2>3, <2>5, <2>6, <2>7, <2>8 DEF Undivided
  <1>13. QED
    BY <1>7, <1>8, <1>10, <1>11, <1>12 DEF MigrationHolds

\* A statement that is said again ends the process.
LEMMA FailsHolds ==
  ASSUME MigrationHolds, NEW o \in Openers, opener[o].phase = "migrate", opener[o].todo # <<>>,
         Head(opener[o].todo) \in There \ Repeatable,
         opener' = [opener EXCEPT ![o] = [Down EXCEPT !.phase = "failed"]],
         UNCHANGED <<oldVersion, log, halfway, together>>
  PROVE  MigrationHolds'
  <1>1. OpenersTyped /\ VersionComesLast /\ BehindIsThere /\ OpenIsWhole /\ Undivided
    BY DEF MigrationHolds
  <1>2. There' = There /\ [Down EXCEPT !.phase = "failed"] = [phase |-> "failed", todo |-> <<>>]
    BY DEF There, Committed, Down
  <1>3. IsRest(<<>>)
    BY DEF IsRest
  <1>4. OpenersTyped'
    <2>1. opener' = [opener EXCEPT ![o] = [phase |-> "failed", todo |-> <<>>]]
      BY <1>2
    <2>2. <<>> \in Seq(SchemaTexts)
      BY <1>3 DEF IsRest
    <2>3. opener' \in [Openers -> [phase : Phases, todo : Seq(SchemaTexts)]]
      <3>1. [phase |-> "failed", todo |-> <<>>] \in [phase : Phases, todo : Seq(SchemaTexts)]
        BY <2>2 DEF Phases
      <3>2. QED
        BY <1>1, <2>1, <3>1 DEF OpenersTyped
    <2>4. \A p \in Openers : /\ IsRest(opener'[p].todo)
                             /\ opener'[p].phase # "migrate" => opener'[p].todo = <<>>
      BY <1>1, <1>3, <2>1 DEF OpenersTyped
    <2>5. QED
      BY <1>1, <2>3, <2>4 DEF OpenersTyped
  <1>5. VersionComesLast'
    BY <1>1 DEF VersionComesLast
  <1>6. BehindIsThere'
    BY <1>1, <1>2 DEF BehindIsThere, OpenersTyped
  <1>7. OpenIsWhole'
    BY <1>1, <1>2 DEF OpenIsWhole, OpenersTyped
  <1>8. halfway \/ together
    <2>1. IsRest(opener[o].todo)
      BY <1>1 DEF OpenersTyped
    <2>2. Len(opener[o].todo) \in 1 .. 12 /\ Head(opener[o].todo) = opener[o].todo[1]
      BY <1>1, <2>1, TailIsRest DEF OpenersTyped
    <2>3. QED
      BY <1>1, <2>2 DEF Undivided
  <1>9. Undivided'
    BY <1>8 DEF Undivided
  <1>10. QED
    BY <1>4, <1>5, <1>6, <1>7, <1>9 DEF MigrationHolds

\* One that is not adds what it says.
LEMMA SaysHolds ==
  ASSUME MigrationHolds, NEW o \in Openers, opener[o].phase = "migrate", opener[o].todo # <<>>,
         Head(opener[o].todo) \notin There \ Repeatable,
         opener' = [opener EXCEPT ![o].todo = Tail(@)],
         log' = IF Head(opener[o].todo) \in There THEN log ELSE Append(log, Head(opener[o].todo)),
         UNCHANGED <<oldVersion, halfway, together>>
  PROVE  MigrationHolds'
  <1>1. OpenersTyped /\ VersionComesLast /\ BehindIsThere /\ OpenIsWhole /\ Undivided
    BY DEF MigrationHolds
  <1>2. PICK todo : todo = opener[o].todo
    OBVIOUS
  <1>3. PICK s : s = Head(todo)
    OBVIOUS
  <1>4. /\ IsRest(todo) /\ todo # <<>> /\ todo \in Seq(SchemaTexts) /\ log \in Seq(SchemaTexts)
        /\ oldVersion \in 0 .. 7
    BY <1>1, <1>2 DEF OpenersTyped, IsRest
  <1>5. PICK n \in 1 .. 12 : n = Len(todo)
    BY <1>4, TailIsRest
  <1>6. /\ IsRest(Tail(todo)) /\ Tail(todo) \in Seq(SchemaTexts) /\ Len(Tail(todo)) = n - 1
        /\ s = Schema[13 - n] /\ s \in SchemaTexts
        /\ \A j \in 1 .. n - 1 : Tail(todo)[j] = todo[j + 1] /\ todo[j + 1] # s
        /\ n = 1 => s = "user_version"
        /\ Tail(todo) = <<>> => n = 1
        /\ s = "user_version" => n = 1
    <2>1. IsRest(Tail(todo)) /\ s = Head(todo)
      BY <1>3, <1>4, TailIsRest
    <2>2. QED
      BY <1>4, <1>5, <2>1, TailIsRest DEF IsRest
  <1>7. /\ opener' = [opener EXCEPT ![o].todo = Tail(@)]
        /\ s \notin There \ Repeatable
        /\ log' = IF s \in There THEN log ELSE Append(log, s)
    BY <1>2, <1>3
  <1>8. /\ opener'[o].todo = Tail(todo) /\ opener'[o].phase = "migrate"
        /\ \A p \in Openers \ {o} : opener'[p] = opener[p]
    BY <1>1, <1>2, <1>7 DEF OpenersTyped
  <1>9. Committed' \subseteq Committed \cup {s} /\ Committed \subseteq Committed'
        /\ There' = There \cup {s}
    <2>1. CASE s \in There
      BY <1>7, <2>1 DEF There, Committed
    <2>2. CASE s \notin There
      <3>1. log' = Append(log, s)
        BY <1>7, <2>2
      <3>2. Len(log') = Len(log) + 1 /\ log'[Len(log) + 1] = s /\ \A k \in 1 .. Len(log) : log'[k] = log[k]
        BY <1>4, <1>6, <3>1, AppendProperties
      <3>3. Committed' = Committed \cup {s}
        <4>1. \A k \in 1 .. Len(log) + 1 : k \in 1 .. Len(log) \/ k = Len(log) + 1
          BY <1>4
        <4>2. Len(log) + 1 \in 1 .. Len(log') /\ \A k \in 1 .. Len(log) : k \in 1 .. Len(log')
          BY <1>4, <3>2
        <4>3. QED
          BY <3>2, <4>1, <4>2 DEF Committed
      <3>4. QED
        BY <3>3 DEF There
    <2>3. QED
      BY <2>1, <2>2
  <1>10. OpenersTyped'
    <2>1. log' \in Seq(SchemaTexts)
      BY <1>4, <1>6, <1>7, AppendProperties
    <2>2. opener' \in [Openers -> [phase : Phases, todo : Seq(SchemaTexts)]]
      BY <1>1, <1>2, <1>6, <1>7 DEF OpenersTyped
    <2>3. QED
      BY <1>1, <1>6, <1>8, <2>1, <2>2 DEF OpenersTyped
  <1>11. BehindIsThere'
    <2>1. \A k \in 1 .. 11 : k <= 12 - n => Schema[k] \in There
      BY <1>1, <1>2, <1>5 DEF BehindIsThere
    <2>2. \A k \in 1 .. 11 : k <= 12 - (n - 1) => Schema[k] \in There'
      <3>1. TAKE k \in 1 .. 11
      <3>2. k <= 12 - (n - 1) => k <= 12 - n \/ k = 13 - n
        OBVIOUS
      <3>3. QED
        BY <1>6, <1>9, <2>1, <3>2
    <2>3. \A k \in 1 .. 11 : k <= 12 - Len(opener'[o].todo) => Schema[k] \in There'
      BY <1>8, <1>6, <2>2
    <2>4. QED
      BY <1>1, <1>8, <1>9, <2>3 DEF BehindIsThere
  <1>12. OpenIsWhole'
    BY <1>1, <1>8, <1>9 DEF OpenIsWhole
  <1>13. VersionComesLast'
    <2>1. CASE s \in There
      BY <1>1, <1>7, <2>1 DEF VersionComesLast
    <2>2. CASE s \notin There
      <3>1. /\ Len(log') = Len(log) + 1 /\ log'[Len(log) + 1] = s /\ Len(log) \in Nat
            /\ \A k \in 1 .. Len(log) : log'[k] = log[k]
        BY <1>4, <1>6, <1>7, <2>2, AppendProperties
      <3>2. ASSUME s = "user_version", NEW c \in Columns(7)
            PROVE  c \in Columns(oldVersion) \/ \E j \in 1 .. Len(log) : log[j] = c
        <4>1. n = 1
          BY <1>6, <3>2
        <4>2. \A k \in 1 .. 11 : Schema[k] \in There
          <5>1. \A k \in 1 .. 11 : k <= 12 - n => Schema[k] \in There
            BY <1>1, <1>2, <1>5 DEF BehindIsThere
          <5>2. \A k \in 1 .. 11 : k <= 12 - 1
            OBVIOUS
          <5>3. QED
            BY <4>1, <5>1, <5>2
        <4>3. c \in There
          BY <3>2, <4>2, CountFacts DEF Columns
        <4>4. QED
          BY <4>3, SchemaFacts DEF There, Committed
      <3>3. ASSUME NEW i \in 1 .. Len(log'), log'[i] = "user_version", NEW c \in Columns(7)
            PROVE  c \in Columns(oldVersion) \/ \E j \in 1 .. i : log'[j] = c
        <4>1. CASE i = Len(log) + 1
          BY <3>1, <3>2, <3>3, <4>1
        <4>2. CASE i \in 1 .. Len(log)
          <5>1. c \in Columns(oldVersion) \/ \E j \in 1 .. i : log[j] = c
            BY <1>1, <3>1, <3>3, <4>2 DEF VersionComesLast
          <5>2. QED
            BY <3>1, <4>2, <5>1
        <4>3. QED
          BY <3>1, <4>1, <4>2
      <3>4. QED
        BY <3>3 DEF VersionComesLast
    <2>3. QED
      BY <2>1, <2>2
  <1>14. Undivided'
    <2>1. SUFFICES ASSUME ~halfway, ~together
                   PROVE  Undivided'
      BY DEF Undivided
    <2>2. \A p \in Openers \ {o} : opener[p].todo = <<>>
      BY <1>1, <1>2, <1>4, <2>1 DEF Undivided
    <2>3. \A j \in 1 .. n - 1 : Tail(todo)[j] \notin There' \ Repeatable
      <3>1. TAKE j \in 1 .. n - 1
      <3>2. Tail(todo)[j] = todo[j + 1] /\ todo[j + 1] # s /\ j + 1 \in 1 .. n
        BY <1>6
      <3>3. todo[j + 1] \notin There \ Repeatable
        BY <1>1, <1>2, <1>5, <2>1, <3>2 DEF Undivided
      <3>4. QED
        BY <1>9, <3>2, <3>3
    <2>4. (\A p \in Openers : opener'[p].todo = <<>>) => ~HalfDone'
      <3>1. SUFFICES ASSUME Tail(todo) = <<>>
                     PROVE  "user_version" \in Committed'
        BY <1>8 DEF HalfDone
      <3>2. s = "user_version"
        BY <1>6, <3>1
      <3>3. s \in There' /\ s \notin Columns(oldVersion) /\ oldVersion' = oldVersion
        BY <1>4, <1>9, <3>2, CountFacts
      <3>4. QED
        BY <3>2, <3>3 DEF There
    <2>5. \A p \in Openers : opener'[p].phase # "failed"
      BY <1>1, <1>8, <2>1 DEF Undivided
    <2>6. \A p \in Openers : \A j \in 1 .. Len(opener'[p].todo) :
              opener'[p].todo[j] \notin There' \ Repeatable
      BY <1>8, <1>6, <2>2, <2>3
    <2>7. QED
      BY <1>8, <2>2, <2>4, <2>5, <2>6 DEF Undivided
  <1>15. QED
    BY <1>10, <1>11, <1>12, <1>13, <1>14 DEF MigrationHolds

\* With everything said the database is whole.
LEMMA OpenedHolds ==
  ASSUME MigrationHolds, NEW o \in Openers, Opened(o)
  PROVE  MigrationHolds'
  <1>1. OpenersTyped /\ VersionComesLast /\ BehindIsThere /\ OpenIsWhole /\ Undivided
    BY DEF MigrationHolds
  <1>2. /\ opener[o].phase = "migrate" /\ opener[o].todo = <<>>
        /\ opener'[o].todo = <<>> /\ opener'[o].phase = "open"
        /\ \A p \in Openers \ {o} : opener'[p] = opener[p]
        /\ UNCHANGED <<oldVersion, log, halfway, together>>
    BY <1>1 DEF Opened, OpenersTyped
  <1>3. There' = There /\ HalfDone' = HalfDone
    BY <1>2 DEF There, Committed, HalfDone
  <1>4. OpenersTyped'
    <2>1. opener' \in [Openers -> [phase : Phases, todo : Seq(SchemaTexts)]]
      BY <1>1 DEF Opened, OpenersTyped, Phases
    <2>2. QED
      BY <1>1, <1>2, <2>1 DEF OpenersTyped
  <1>5. Columns(7) \subseteq There
    <2>1. \A k \in 1 .. 11 : Schema[k] \in There
      <3>1. TAKE k \in 1 .. 11
      <3>2. Len(<<>>) = 0 /\ k <= 12 - 0
        OBVIOUS
      <3>3. QED
        BY <1>1, <1>2, <3>2 DEF BehindIsThere
    <2>2. QED
      BY <2>1, CountFacts DEF Columns
  <1>6. OpenIsWhole'
    BY <1>1, <1>2, <1>3, <1>5 DEF OpenIsWhole, VERSION
  <1>7. VersionComesLast' /\ BehindIsThere'
    BY <1>1, <1>2, <1>3 DEF VersionComesLast, BehindIsThere
  <1>8. Undivided'
    BY <1>1, <1>2, <1>3 DEF Undivided
  <1>9. QED
    BY <1>4, <1>6, <1>7, <1>8 DEF MigrationHolds

\* Whoever stops leaves nothing half done or is remembered for it.
LEMMA OpenerStopsHolds ==
  ASSUME MigrationHolds, NEW o \in Openers, OpenerStops(o)
  PROVE  MigrationHolds'
  <1>1. OpenersTyped /\ VersionComesLast /\ BehindIsThere /\ OpenIsWhole /\ Undivided
    BY DEF MigrationHolds
  <1>2. /\ opener'[o].todo = <<>> /\ opener'[o].phase = "down"
        /\ \A p \in Openers \ {o} : opener'[p] = opener[p]
        /\ UNCHANGED <<oldVersion, log, together>>
        /\ halfway' = (halfway \/ (opener[o].todo # <<>> /\ HalfDone))
    BY <1>1 DEF OpenerStops, OpenersTyped, Down
  <1>3. There' = There /\ HalfDone' = HalfDone
    BY <1>2 DEF There, Committed, HalfDone
  <1>4. OpenersTyped'
    <2>1. opener' \in [Openers -> [phase : Phases, todo : Seq(SchemaTexts)]]
      BY <1>1 DEF OpenerStops, OpenersTyped, Phases, Down
    <2>2. halfway' \in BOOLEAN
      BY <1>1, <1>2 DEF OpenersTyped
    <2>3. IsRest(<<>>)
      BY DEF IsRest
    <2>4. QED
      BY <1>1, <1>2, <2>1, <2>2, <2>3 DEF OpenersTyped
  <1>5. VersionComesLast' /\ BehindIsThere' /\ OpenIsWhole'
    BY <1>1, <1>2, <1>3 DEF VersionComesLast, BehindIsThere, OpenIsWhole
  <1>6. Undivided'
    <2>1. SUFFICES ASSUME ~halfway, ~together, opener[o].todo = <<>> \/ ~HalfDone
                   PROVE  Undivided'
      BY <1>2 DEF Undivided
    <2>2. (\A p \in Openers : opener'[p].todo = <<>>) => ~HalfDone
      BY <1>1, <1>2, <2>1 DEF Undivided
    <2>3. QED
      BY <1>1, <1>2, <1>3, <2>1, <2>2 DEF Undivided
  <1>7. QED
    BY <1>4, <1>5, <1>6 DEF MigrationHolds

\* A loss of power leaves a beginning of the log.
LEMMA PowerLostHolds ==
  ASSUME MigrationHolds, PowerLost
  PROVE  MigrationHolds'
  <1>1. OpenersTyped /\ VersionComesLast
    BY DEF MigrationHolds
  <1>2. PICK n \in 0 .. Len(log) : log' = SubSeq(log, 1, n) /\ halfway' = (halfway \/ HalfDone')
    BY DEF PowerLost
  <1>3. opener' = [o \in Openers |-> [phase |-> "down", todo |-> <<>>]]
        /\ UNCHANGED <<oldVersion, together>>
    BY DEF PowerLost, Down
  <1>4. log \in Seq(SchemaTexts) /\ n <= Len(log) /\ n \in Nat
    BY <1>1 DEF OpenersTyped
  <1>5. log' \in Seq(SchemaTexts) /\ Len(log') = n /\ \A k \in 1 .. n : log'[k] = log[k]
    <2>1. \A i \in 1 .. n : log[i] \in SchemaTexts
      BY <1>4
    <2>2. /\ SubSeq(log, 1, n) \in Seq(SchemaTexts)
          /\ Len(SubSeq(log, 1, n)) = IF 1 <= n THEN n - 1 + 1 ELSE 0
          /\ \A i \in 1 .. n - 1 + 1 : SubSeq(log, 1, n)[i] = log[1 + i - 1]
      BY <1>4, <2>1, SubSeqProperties
    <2>3. QED
      BY <1>2, <1>4, <2>2
  <1>6. OpenersTyped'
    <2>1. IsRest(<<>>) /\ <<>> \in Seq(SchemaTexts)
      BY DEF IsRest
    <2>2. halfway' \in BOOLEAN
      BY <1>1, <1>2 DEF OpenersTyped, HalfDone
    <2>3. QED
      BY <1>1, <1>3, <1>5, <2>1, <2>2 DEF OpenersTyped, Phases
  <1>7. VersionComesLast'
    BY <1>1, <1>3, <1>4, <1>5 DEF VersionComesLast
  <1>8. BehindIsThere' /\ OpenIsWhole'
    BY <1>3 DEF BehindIsThere, OpenIsWhole
  <1>9. Undivided'
    <2>1. \A o \in Openers : opener'[o].todo = <<>> /\ opener'[o].phase = "down" /\ Len(<<>>) = 0
      BY <1>3
    <2>2. \A o \in Openers : \A j \in 1 .. Len(opener'[o].todo) : FALSE
      BY <2>1
    <2>3. ~halfway' => ~HalfDone'
      BY <1>2
    <2>4. QED
      BY <2>1, <2>2, <2>3 DEF Undivided
  <1>10. QED
    BY <1>6, <1>7, <1>8, <1>9 DEF MigrationHolds

\* In any number of processes and opens, from any version: the version never
\* claims a column that is not there, who has the database open finds it whole,
\* and it opens unless a migration was ended half way or ran beside another.
THEOREM DatabaseOpensWhole == MigrationSpec => []MigrationInv
  <1>1. MigrationInit => MigrationHolds
    <2>1. SUFFICES ASSUME MigrationInit
                   PROVE  MigrationHolds
      OBVIOUS
    <2>2. /\ opener = [o \in Openers |-> [phase |-> "down", todo |-> <<>>]] /\ log = <<>>
          /\ oldVersion \in 0 .. 7 /\ halfway = FALSE /\ together = FALSE
      <3>1. oldVersion \in FoundVersions /\ FoundVersions \subseteq 0 .. 7
        BY <2>1, MigrationAssumption DEF MigrationInit
      <3>2. QED
        BY <2>1, <3>1 DEF MigrationInit, Down
    <2>3. IsRest(<<>>) /\ <<>> \in Seq(SchemaTexts)
      BY DEF IsRest
    <2>4. Committed = {}
      BY <2>2 DEF Committed
    <2>5. OpenersTyped
      BY <2>2, <2>3 DEF OpenersTyped, Phases
    <2>6. VersionComesLast /\ BehindIsThere /\ OpenIsWhole
      BY <2>2 DEF VersionComesLast, BehindIsThere, OpenIsWhole
    <2>7. Undivided
      BY <2>2, <2>4 DEF Undivided, HalfDone
    <2>8. QED
      BY <2>5, <2>6, <2>7 DEF MigrationHolds
  <1>2. MigrationHolds /\ [MigrationNext]_migrationVars => MigrationHolds'
    <2>1. SUFFICES ASSUME MigrationHolds, [MigrationNext]_migrationVars
                   PROVE  MigrationHolds'
      OBVIOUS
    <2>2. ASSUME NEW o \in Openers, Executes(o)
          PROVE  MigrationHolds'
      <3>1. CASE Head(opener[o].todo) \in There \ Repeatable
        BY <2>1, <2>2, <3>1, FailsHolds DEF Executes
      <3>2. CASE Head(opener[o].todo) \notin There \ Repeatable
        BY <2>1, <2>2, <3>2, SaysHolds DEF Executes
      <3>3. QED
        BY <3>1, <3>2
    <2>3. CASE UNCHANGED migrationVars
      BY <2>1, <2>3 DEF migrationVars, MigrationHolds, OpenersTyped, VersionComesLast, BehindIsThere,
                        OpenIsWhole, Undivided, There, Committed, HalfDone
    <2>4. QED
      BY <2>1, <2>2, <2>3, OpensHolds, OpenedHolds, OpenerStopsHolds, PowerLostHolds
      DEF MigrationNext
  <1>3. MigrationHolds => MigrationInv
    <2>1. MigrationHolds => VersionTellsTheTruth
      BY VersionMeansColumns DEF MigrationHolds, VersionTellsTheTruth, VERSION
    <2>2. MigrationHolds => OpensUnlessCut
      BY DEF MigrationHolds, Undivided, OpensUnlessCut
    <2>3. QED
      BY <2>1, <2>2 DEF MigrationHolds, MigrationInv
  <1>4. QED
    BY <1>1, <1>2, <1>3, PTL DEF MigrationSpec

-----------------------------------------------------------------------------
(* Settings: the encoders.                                                 *)

\* Of some measured encoders one is the fastest, and the last that is so fast.
Measurement(probes, length) ==
  /\ \A p \in probes : p.fps \in Int /\ p.nth \in 1 .. length
  /\ \A p, q \in probes : p.nth = q.nth \/ p.encoder = q.encoder => p = q

LEMMA FastestIsOne ==
  ASSUME NEW length \in Nat, NEW probes, Measurement(probes, length), probes # {}
  PROVE  \E p \in probes : Fastest(probes) = {p}
  <1> DEFINE IsAhead(q, p) == q.fps > p.fps \/ (q.fps = p.fps /\ q.nth > p.nth)
             Ahead(p) == {q.nth : q \in {r \in probes : IsAhead(r, p)}}
             Ranks == {Cardinality(Ahead(p)) : p \in probes}
  <1>1. \A p \in probes : p.fps \in Int /\ p.nth \in Int /\ p.nth \in 1 .. length
    BY DEF Measurement
  <1>2. \A p \in probes : IsFiniteSet(Ahead(p)) /\ Cardinality(Ahead(p)) \in Nat
    <2>1. TAKE p \in probes
    <2>2. Ahead(p) \in SUBSET (1 .. length)
      BY <1>1
    <2>3. IsFiniteSet(1 .. length)
      BY FS_Interval
    <2> HIDE DEF Ahead
    <2>4. QED
      BY <2>2, <2>3, FS_Subset, FS_CardinalityType
  <1>3. PICK p \in probes : \A q \in probes : ~(Cardinality(Ahead(q)) < Cardinality(Ahead(p)))
    <2>1. Ranks \in SUBSET Nat /\ Ranks # {}
      <3> HIDE DEF Ahead
      <3>1. QED
        BY <1>2
    <2>2. PICK m \in Ranks : \A k \in Ranks : ~(k < m)
      <3> HIDE DEF Ranks
      <3>1. QED
        BY <2>1, LeastNumber
    <2>3. QED
      BY <2>2
  <1>4. ASSUME NEW q \in probes, IsAhead(q, p)
        PROVE  FALSE
    <2>1. \A r \in probes : IsAhead(r, q) => IsAhead(r, p)
      BY <1>1, <1>4
    <2>2. Ahead(q) \in SUBSET Ahead(p)
      <3> HIDE DEF IsAhead
      <3>1. QED
        BY <2>1
    <2>3. q.nth \in Ahead(p)
      BY <1>4
    <2>4. q.nth \notin Ahead(q)
      <3>1. ~IsAhead(q, q)
        BY <1>1
      <3>2. \A r \in probes : r.nth = q.nth => r = q
        BY DEF Measurement
      <3> HIDE DEF IsAhead
      <3>3. QED
        BY <3>1, <3>2
    <2> HIDE DEF Ahead
    <2>5. Cardinality(Ahead(q)) <= Cardinality(Ahead(p)) /\ Cardinality(Ahead(p)) # Cardinality(Ahead(q))
      BY <1>2, <2>2, <2>3, <2>4, FS_Subset
    <2>6. Cardinality(Ahead(q)) < Cardinality(Ahead(p))
      BY <1>2, <2>5
    <2>7. QED
      BY <1>3, <2>6
  <1>5. \A q \in probes : q.fps < p.fps \/ (q.fps = p.fps /\ q.nth <= p.nth)
    BY <1>1, <1>4
  <1>6. p \in Fastest(probes)
    BY <1>5 DEF Fastest
  <1>7. ASSUME NEW q \in Fastest(probes)
        PROVE  q = p
    <2>1. q \in probes /\ (p.fps < q.fps \/ (p.fps = q.fps /\ p.nth <= q.nth))
      BY DEF Fastest
    <2>2. q.nth = p.nth
      BY <1>1, <1>5, <2>1
    <2>3. QED
      BY <2>1, <2>2 DEF Measurement
  <1>8. QED
    BY <1>6, <1>7

\* The best of the encoders on a card, or of the others.
H264(grupa) == {q \in grupa : ~IsHevc(q.encoder)}
BestOf(grupa, c) ==
  /\ IF \E q \in H264(grupa) : q.fps >= 60
     THEN c \in H264(grupa) /\ \A q \in H264(grupa) : q.fps <= c.fps
     ELSE \A q \in grupa : q.fps <= c.fps
  /\ \A q \in H264(grupa) : q.fps <= c.fps

LEMMA NajboljiFacts ==
  ASSUME NEW length \in Nat, NEW probes, Measurement(probes, length), NEW hardver
  PROVE  /\ Grupa(probes, hardver) = {} => Najbolji(probes, hardver) = {}
         /\ Grupa(probes, hardver) # {} =>
              \E c \in Grupa(probes, hardver) :
                 Najbolji(probes, hardver) = {c} /\ BestOf(Grupa(probes, hardver), c)
  <1>grupa. PICK grupa, plain : grupa = Grupa(probes, hardver) /\ plain = H264(grupa)
    OBVIOUS
  <1> DEFINE h264 == {p \in Fastest(plain) : p.fps >= 60}
  <1>1. Najbolji(probes, hardver) = IF h264 # {} THEN h264 ELSE Fastest(grupa)
    BY <1>grupa DEF Najbolji, PRAG, H264
  <1>g. grupa \subseteq probes /\ plain = {q \in grupa : ~IsHevc(q.encoder)}
    BY <1>grupa DEF Grupa, H264
  <1>2. Measurement(grupa, length) /\ Measurement(plain, length) /\ plain \subseteq grupa
    BY <1>g DEF Measurement
  <1>3. \A q \in grupa : q.fps \in Int
    BY <1>2 DEF Measurement
  <1>4. CASE grupa = {}
    <2>1. plain = {} /\ Fastest(grupa) = {} /\ Fastest(plain) = {}
      BY <1>2, <1>4 DEF Fastest
    <2>2. QED
      BY <1>1, <1>4, <1>grupa, <2>1
  <1>5. CASE grupa # {}
    <2>1. PICK f \in grupa : Fastest(grupa) = {f}
      BY <1>2, <1>5, FastestIsOne
    <2>2. \A q \in grupa : q.fps <= f.fps
      <3>1. \A q \in grupa : q.fps < f.fps \/ q.fps = f.fps
        BY <2>1 DEF Fastest
      <3>2. QED
        BY <1>3, <3>1
    <2>3. CASE h264 # {}
      <3>1. plain # {}
        BY <2>3 DEF Fastest
      <3>2. PICK g \in plain : Fastest(plain) = {g}
        BY <1>2, <3>1, FastestIsOne
      <3>3. h264 = {g} /\ g.fps >= 60
        BY <2>3, <3>2
      <3>4. \A q \in plain : q.fps < g.fps \/ q.fps = g.fps
        BY <3>2 DEF Fastest
      <3>5. \A q \in plain : q.fps <= g.fps
        BY <1>2, <1>3, <3>4
      <3> HIDE DEF h264
      <3>6. QED
        BY <1>1, <1>2, <1>5, <1>grupa, <2>3, <3>2, <3>3, <3>5 DEF BestOf
    <2>4. CASE h264 = {}
      <3>1. ASSUME NEW q \in plain, q.fps >= 60
            PROVE  FALSE
        <4>1. PICK g \in plain : Fastest(plain) = {g}
          BY <1>2, <3>1, FastestIsOne
        <4>2. q.fps < g.fps \/ q.fps = g.fps
          BY <4>1 DEF Fastest
        <4>3. g.fps >= 60
          BY <1>2, <1>3, <3>1, <4>2
        <4>4. QED
          BY <2>4, <4>1, <4>3
      <3> HIDE DEF h264
      <3>2. QED
        BY <1>1, <1>2, <1>5, <1>grupa, <2>1, <2>2, <2>4, <3>1 DEF BestOf
    <2>5. QED
      BY <2>3, <2>4
  <1>6. QED
    BY <1>4, <1>5

AskedModes == {"auto", "cpu", "gpu", "hybrid"}

\* What is recommended of a measurement.
Recommended(probes, mode, r) ==
  LET e == r.encoder
      mine == {q \in probes : IsHardware(q.encoder) = IsHardware(e)}
      plain == {q \in mine : ~IsHevc(q.encoder)}
      chosen == {q \in probes : q.encoder = e}
  IN /\ r.mode \in AskedModes
     /\ chosen = {} => mine = {} /\ e = "libx264"
     /\ mode = "cpu" => ~IsHardware(e)
     /\ mode \in {"gpu", "hybrid"} /\ ~IsHardware(e) => \A q \in probes : ~IsHardware(q.encoder)
     /\ mode = "auto" => \A q \in probes, c \in chosen : IsHevc(q.encoder) \/ q.fps <= c.fps
     /\ \A c \in chosen :
          IF \E q \in plain : q.fps >= 60
          THEN c \in plain /\ \A q \in plain : q.fps <= c.fps
          ELSE \A q \in mine : q.fps <= c.fps
     /\ ~IsHardware(e) => r.threads \in 1 .. Threads

LEMMA RecommendFacts ==
  ASSUME NEW length \in Nat, NEW probes, Measurement(probes, length), NEW mode \in AskedModes,
         NEW ffmpeg
  PROVE  /\ Recommend(ffmpeg, probes, mode).ffmpeg = ffmpeg
         /\ Recommended(probes, mode, Recommend(ffmpeg, probes, mode))
  <1>r. PICK r, e, mine, plain, chosen :
           /\ r = Recommend(ffmpeg, probes, mode) /\ e = r.encoder
           /\ mine = {q \in probes : IsHardware(q.encoder) = IsHardware(e)}
           /\ plain = {q \in mine : ~IsHevc(q.encoder)}
           /\ chosen = {q \in probes : q.encoder = e}
    OBVIOUS
  <1> DEFINE softver == Najbolji(probes, FALSE)
             hardver == Najbolji(probes, TRUE)
             faster == \A hw \in hardver, sw \in softver : hw.fps >= sw.fps
             odabran == IF hardver # {} /\ (mode \in {"gpu", "hybrid"} \/ (mode = "auto" /\ faster))
                        THEN hardver ELSE softver
  <1>soft. PICK soft, softPlain :
             /\ soft = Grupa(probes, FALSE)
             /\ softPlain = H264(soft)
    OBVIOUS
  <1>hard. PICK hard, hardPlain :
             /\ hard = Grupa(probes, TRUE)
             /\ hardPlain = H264(hard)
    OBVIOUS
  <1>1. /\ soft = {} => softver = {}
        /\ soft # {} => \E c \in soft : softver = {c} /\ BestOf(soft, c)
    BY <1>soft, NajboljiFacts
  <1>2. /\ hard = {} => hardver = {}
        /\ hard # {} => \E c \in hard : hardver = {c} /\ BestOf(hard, c)
    BY <1>hard, NajboljiFacts
  <1>kind. /\ \A x : IsHardware(x) \in BOOLEAN
           /\ soft = {q \in probes : ~IsHardware(q.encoder)}
           /\ hard = {q \in probes : IsHardware(q.encoder)}
    <2>1. \A x : IsHardware(x) \in BOOLEAN
      BY DEF IsHardware
    <2>2. QED
      BY <2>1, <1>soft, <1>hard DEF Grupa
  <1>3. /\ e = IF odabran = {} THEN "libx264" ELSE (CHOOSE p \in odabran : TRUE).encoder
        /\ r.ffmpeg = ffmpeg
        /\ r.mode = IF mode # "auto" /\ (mode # "gpu" \/ hardver # {}) THEN mode
                    ELSE IF IsHardware(e) THEN "gpu" ELSE "cpu"
        /\ r.threads = IF IsHardware(e) THEN 0 ELSE AtLeast(1, (Threads * 3) \div 4)
    BY <1>r DEF Recommend
  <1>4. r.mode \in AskedModes
    BY <1>3 DEF AskedModes
  <1>5. AtLeast(1, (Threads * 3) \div 4) \in 1 .. Threads
    BY HardwareAssumption DEF AtLeast
  <1>6. ~IsHardware("libx264")
    BY DEF IsHardware, Family
  <1>7. \A q \in probes : q.fps \in Int
    BY DEF Measurement
  <1>8. \A p, q \in probes : p.encoder = q.encoder => p = q
    BY DEF Measurement
  <1> HIDE DEF softver, hardver, faster
  <1>9. CASE odabran = {}
    <2>1. softver = {} /\ soft = {}
      BY <1>1, <1>9
    <2>2. e = "libx264" /\ mine = soft /\ chosen = {}
      BY <1>r, <1>3, <1>6, <1>9, <1>soft, <1>kind, <2>1
    <2>3. mode \in {"gpu", "hybrid"} => \A q \in probes : ~IsHardware(q.encoder)
      <3>1. mode \in {"gpu", "hybrid"} => hardver = {}
        BY <1>9
      <3>2. QED
        BY <1>2, <1>hard, <1>kind, <3>1
    <2>4. Recommended(probes, mode, r)
      BY <1>r, <1>3, <1>4, <1>5, <1>6, <2>1, <2>2, <2>3 DEF Recommended
    <2>5. QED
      BY <1>r, <1>3, <2>4
  <1>10. CASE odabran # {}
    <2>1. PICK c \in probes :
            /\ odabran = {c}
            /\ IsHardware(c.encoder) => /\ odabran = hardver /\ mode # "cpu" /\ BestOf(hard, c)
                                        /\ mode = "auto" => faster
            /\ ~IsHardware(c.encoder) => /\ odabran = softver /\ BestOf(soft, c)
                                         /\ mode \in {"gpu", "hybrid"} => hardver = {}
                                         /\ mode = "auto" => hardver = {} \/ ~faster
      <3>1. CASE hardver # {} /\ (mode \in {"gpu", "hybrid"} \/ (mode = "auto" /\ faster))
        <4>1. PICK c \in hard : hardver = {c} /\ BestOf(hard, c)
          BY <1>2, <1>hard, <1>kind, <3>1
        <4>2. odabran = hardver /\ mode # "cpu" /\ (mode = "auto" => faster)
          BY <3>1
        <4> HIDE DEF odabran
        <4>3. QED
          BY <1>kind, <4>1, <4>2
      <3>2. CASE ~(hardver # {} /\ (mode \in {"gpu", "hybrid"} \/ (mode = "auto" /\ faster)))
        <4>1. odabran = softver
          BY <3>2
        <4>2. PICK c \in soft : softver = {c} /\ BestOf(soft, c)
          BY <1>1, <1>10, <4>1
        <4> HIDE DEF odabran
        <4>3. QED
          BY <1>kind, <3>2, <4>1, <4>2
      <3>3. QED
        BY <3>1, <3>2
    <2>2. e = c.encoder /\ chosen = {c}
      BY <1>r, <1>3, <1>8, <1>10, <2>1
    <2>3. IsHardware(e) => mine = hard /\ plain = hardPlain
      BY <1>r, <1>hard, <1>kind, <2>2 DEF H264
    <2>4. ~IsHardware(e) => mine = soft /\ plain = softPlain
      BY <1>r, <1>soft, <1>kind, <2>2 DEF H264
    <2>5. mode = "cpu" => ~IsHardware(e)
      BY <2>1, <2>2
    <2>6. mode \in {"gpu", "hybrid"} /\ ~IsHardware(e) => \A q \in probes : ~IsHardware(q.encoder)
      BY <1>2, <1>hard, <1>kind, <2>1, <2>2
    <2>7. IF \E q \in plain : q.fps >= 60
          THEN c \in plain /\ \A q \in plain : q.fps <= c.fps
          ELSE \A q \in mine : q.fps <= c.fps
      BY <1>soft, <1>hard, <2>1, <2>2, <2>3, <2>4 DEF BestOf
    <2>8. ASSUME mode = "auto", NEW q \in probes, ~IsHevc(q.encoder)
          PROVE  q.fps <= c.fps
      <3>1. CASE IsHardware(c.encoder) /\ IsHardware(q.encoder)
        BY <1>hard, <1>kind, <2>1, <2>8, <3>1 DEF BestOf, H264
      <3>2. CASE IsHardware(c.encoder) /\ ~IsHardware(q.encoder)
        <4>1. q \in softPlain /\ soft # {}
          BY <1>soft, <1>kind, <2>8, <3>2 DEF H264
        <4>2. PICK s \in soft : softver = {s} /\ BestOf(soft, s)
          BY <1>1, <4>1
        <4>3. q.fps <= s.fps /\ c.fps >= s.fps
          BY <1>soft, <2>1, <2>8, <3>2, <4>1, <4>2 DEF faster, BestOf
        <4>4. QED
          BY <1>7, <1>kind, <4>2, <4>3
      <3>3. CASE ~IsHardware(c.encoder) /\ ~IsHardware(q.encoder)
        BY <1>soft, <1>kind, <2>1, <2>8, <3>3 DEF BestOf, H264
      <3>4. CASE ~IsHardware(c.encoder) /\ IsHardware(q.encoder)
        <4>1. q \in hardPlain /\ hard # {}
          BY <1>hard, <1>kind, <2>8, <3>4 DEF H264
        <4>2. PICK h \in hard : hardver = {h} /\ BestOf(hard, h)
          BY <1>2, <4>1
        <4>3. softver = {c} /\ ~faster
          BY <2>1, <2>8, <3>4, <4>2
        <4>4. ~(h.fps >= c.fps)
          BY <4>2, <4>3 DEF faster
        <4>5. q.fps <= h.fps
          BY <1>hard, <4>1, <4>2 DEF BestOf
        <4>6. QED
          BY <1>7, <1>kind, <4>2, <4>4, <4>5
      <3>5. QED
        BY <3>1, <3>2, <3>3, <3>4
    <2>9. Recommended(probes, mode, r)
      BY <1>r, <1>3, <1>4, <1>5, <2>2, <2>5, <2>6, <2>7, <2>8 DEF Recommended
    <2>10. QED
      BY <1>r, <1>3, <2>9
  <1>11. QED
    BY <1>9, <1>10

\* The ffmpeg that was measured is the one that the next boot resolves.
LEMMA BestToolIsResolved ==
  ASSUME BundleIsSound, BundleStarts, NEW configured, NEW e,
         Encodes(machine, BestTool(machine, configured), e)
  PROVE  Encodes(machine, ResolveTool(machine, BestTool(machine, configured)), e)
  <1> DEFINE best == BestTool(machine, configured)
             places == <<BesideProgram>> \o InBundleDirs
             bundled == {i \in DOMAIN places : places[i] \in machine.exists}
             tools == <<BesideProgram, configured>> \o OnPath
             starting == {i \in ToolCandidates(machine, configured) : Starts(machine, tools[i])}
  <1>1. ResolveTool(machine, best) = IF best # "ffmpeg" \/ bundled = {} THEN best ELSE places[FirstOf(bundled)]
    BY DEF ResolveTool
  <1>2. CASE best # "ffmpeg" \/ bundled = {}
    BY <1>1, <1>2
  <1>3. CASE best = "ffmpeg" /\ bundled # {}
    <2>1. /\ places[1] = BesideProgram
          /\ \A i \in DOMAIN places :
               i # 1 => i - 1 \in DOMAIN InBundleDirs /\ places[i] = InBundleDirs[i - 1]
      BY HardwareAssumption
    <2>2. bundled = {1}
      BY <1>3, <2>1 DEF BundleIsSound
    <2>3. FirstOf(bundled) = 1 /\ BesideProgram \in machine.exists
      BY <2>1, <2>2 DEF FirstOf
    <2>4. 1 \in DOMAIN tools /\ tools[1] = BesideProgram /\ \A i \in DOMAIN tools : i \in Nat /\ 1 <= i
      BY HardwareAssumption
    <2>5. 1 \in starting
      BY <2>3, <2>4 DEF ToolCandidates, ToolPlaces, BundleStarts
    <2>6. \A i \in starting : i \in Nat /\ 1 <= i
      BY <2>4 DEF ToolCandidates, ToolPlaces
    <2>7. FirstOf(starting) = 1
      <3> HIDE DEF starting
      <3>1. QED
        BY <2>5, <2>6 DEF FirstOf
    <2>8. best = BesideProgram
      BY <2>4, <2>5, <2>7 DEF BestTool, ToolPlaces
    <2>9. QED
      BY <1>1, <1>3, <2>1, <2>3, <2>8
  <1>4. QED
    BY <1>2, <1>3

\* A configuration: at most one UDN, made by a boot, and a mode there is.
IsConfig(c) ==
  /\ c = [udn |-> c.udn, language |-> c.language, hw_accel |-> c.hw_accel, ffmpeg |-> c.ffmpeg,
          mode |-> c.mode, encoder |-> c.encoder, threads |-> c.threads,
          max_concurrent |-> c.max_concurrent]
  /\ c.udn = {} \/ \E n \in 1 .. MaxBoots : c.udn = {n}
  /\ c.mode \in AskedModes

IsWork(w, n) ==
  /\ w = [step |-> w.step, kind |-> w.kind, config |-> w.config, mode |-> w.mode,
          report |-> w.report, read |-> w.read]
  /\ w.step \in {"idle", "open", "scan", "write"}
  /\ w.kind \in {"put", "apply", "own"} /\ (w.step = "open" => w.kind = "put")
  /\ IsConfig(w.config) /\ w.mode \in AskedModes
  /\ w.read \in Int /\ w.read <= n

ConfigsTyped ==
  /\ SettingsTypeOK
  /\ boots > 0 \/ proc.phase = "down"
  /\ toml = [state |-> toml.state, config |-> toml.config] /\ IsConfig(toml.config)
  /\ proc = [phase |-> proc.phase, config |-> proc.config, boot |-> proc.boot,
             language |-> proc.language, hw |-> proc.hw, saves |-> proc.saves]
  /\ IsConfig(proc.config) /\ IsConfig(proc.boot)
  /\ DOMAIN work = Pages /\ \A p \in Pages : IsWork(work[p], saves)

IsWriting(p) == work[p].step = "write"
HasCopy(p) == work[p].step \in {"open", "scan"}

\* What runs is what the file said at the boot, until the first save.
ServedWhileUp == \A p \in Pages : work[p].step \in {"scan", "write"} => proc.phase = "up"
CopiesKnown == \A p, q \in Pages : IsWriting(p) /\ HasCopy(q) => work[q].read # saves
BootRead ==
  /\ proc.phase = "start" => toml = WholeFile(proc.config) /\ proc.config.udn # {}
  /\ proc.phase = "ensure" => toml = WholeFile(proc.config) \/ proc.config.udn = {}
  /\ proc.phase = "identity" => proc.config.udn # {}
RunsTheFile ==
  proc.phase = "up" =>
    /\ proc.config = [proc.boot EXCEPT !.ffmpeg = ResolveTool(machine, proc.boot.ffmpeg)]
    /\ proc.hw = Detect(machine, proc.config.ffmpeg, proc.config.hw_accel)
    /\ proc.saves <= saves /\ proc.saves \in Int
    /\ saves = proc.saves => toml = WholeFile(proc.boot) /\ \A p \in Pages : ~IsWriting(p)
FileOfBoot == ServedWhileUp /\ CopiesKnown /\ BootRead /\ RunsTheFile

Agrees(c) == c.language = wished.language /\ c.hw_accel = wished.hw_accel

\* As long as no save was cut off or of a stale copy, the file is whole or one
\* writer is at work, and whole copies carry the identity and the edits.
FileInOrder ==
  /\ toml.state # "garbled"
  /\ toml.state = "absent" => proc.phase = "down" /\ announced = {} /\ Agrees(DefaultConfig)
  /\ toml.state = "empty" => proc.phase \in {"create", "identity"} \/ \E p \in Pages : IsWriting(p)
  /\ toml.state = "whole" => Agrees(toml.config) /\ (announced # {} => announced = toml.config.udn)
WritersInOrder ==
  /\ \A p \in Pages : IsWriting(p) => toml.state = "empty"
  /\ \A p, q \in Pages : IsWriting(p) /\ IsWriting(q) => p = q
BootInOrder ==
  /\ proc.phase = "ensure" => toml = WholeFile(proc.config)
  /\ proc.phase \in {"create", "identity"} => announced = {} /\ Agrees(proc.config)
  /\ proc.phase = "up" =>
       announced # {} /\ announced = proc.config.udn /\ proc.language = wished.language
CopiesInOrder ==
  \A p \in Pages :
     IsWriting(p) \/ (HasCopy(p) /\ work[p].read = saves) =>
       /\ announced # {} /\ work[p].config.udn = announced
       /\ (IsWriting(p) /\ work[p].kind = "put") \/ Agrees(work[p].config)
Order == FileInOrder /\ WritersInOrder /\ BootInOrder /\ CopiesInOrder
Orderly == ordered /\ ~cut => Order

LEMMA ConfigFacts ==
  /\ IsConfig(DefaultConfig) /\ DefaultConfig.udn = {}
  /\ \A c : IsConfig(c) => /\ \A n \in 1 .. MaxBoots : IsConfig([c EXCEPT !.udn = {n}])
                           /\ \A f : IsConfig([c EXCEPT !.ffmpeg = f])
                           /\ \A d \in Edited(c) : IsConfig(d) /\ d.udn = c.udn
  <1>1. IsConfig(DefaultConfig) /\ DefaultConfig.udn = {}
    BY DEF IsConfig, DefaultConfig, AskedModes
  <1>2. ASSUME NEW c, IsConfig(c)
        PROVE  /\ \A n \in 1 .. MaxBoots : IsConfig([c EXCEPT !.udn = {n}])
               /\ \A f : IsConfig([c EXCEPT !.ffmpeg = f])
               /\ \A d \in Edited(c) : IsConfig(d) /\ d.udn = c.udn
    <2>1. \A n \in 1 .. MaxBoots : IsConfig([c EXCEPT !.udn = {n}])
      BY <1>2 DEF IsConfig
    <2>2. \A f : IsConfig([c EXCEPT !.ffmpeg = f])
      BY <1>2 DEF IsConfig
    <2>3. \A d \in Edited(c) : IsConfig(d) /\ d.udn = c.udn
      BY <1>2 DEF IsConfig, Edited
    <2>4. QED
      BY <2>1, <2>2, <2>3
  <1>3. QED
    BY <1>1, <1>2

\* What is applied of a report: the identity and the edits remain.
LEMMA AppliedFacts ==
  ASSUME NEW c, IsConfig(c), NEW r, r.mode \in AskedModes, NEW d, d = Applied(c, r)
  PROVE  /\ IsConfig(d) /\ d.udn = c.udn /\ d.language = c.language /\ d.hw_accel = c.hw_accel
         /\ d.ffmpeg = r.ffmpeg /\ d.encoder = r.encoder /\ d.threads = r.threads
  BY DEF Applied, IsConfig

\* Nor does what a caller gives itself.
LEMMA OverruledFacts ==
  ASSUME NEW c, IsConfig(c), NEW d \in Overruled(c)
  PROVE  IsConfig(d) /\ d.udn = c.udn /\ d.language = c.language /\ d.hw_accel = c.hw_accel
  <1>1. PICK recoded : recoded = {[c EXCEPT !.encoder = e] : e \in OwnEncoders \cup {c.encoder}}
    OBVIOUS
  <1>2. ASSUME NEW b \in recoded
        PROVE  IsConfig(b) /\ b.udn = c.udn /\ b.language = c.language /\ b.hw_accel = c.hw_accel
    BY <1>1 DEF IsConfig
  <1>3. ASSUME NEW n, NEW b \in recoded, d = [b EXCEPT !.threads = n]
        PROVE  IsConfig(d) /\ d.udn = b.udn /\ d.language = b.language /\ d.hw_accel = b.hw_accel
    BY <1>2, <1>3 DEF IsConfig
  <1>4. d \in recoded \/ \E n \in OwnThreads : d \in {[b EXCEPT !.threads = n] : b \in recoded}
    BY <1>1 DEF Overruled
  <1>5. QED
    BY <1>2, <1>3, <1>4

\* A scan measures, and applies what is recommended of it.
LEMMA ScanFacts ==
  ASSUME machine \in Machines, NEW speed \in Speeds, NEW best,
         NEW probes, probes = Measured(machine, best, speed)
  PROVE  /\ Len(machine.lists) \in Nat /\ Measurement(probes, Len(machine.lists))
         /\ \A q \in probes : Encodes(machine, best, q.encoder)
  <1>1. /\ machine.lists \in Seq(STRING)
        /\ \A i, j \in DOMAIN machine.lists : machine.lists[i] = machine.lists[j] => i = j
        /\ \A e \in KANDIDATI : speed[e] \in Int
    BY SettingsAssumption
  <1>2. PICK n \in Nat : Len(machine.lists) = n /\ DOMAIN machine.lists = 1 .. n
    BY <1>1
  <1>3. \A q \in probes : \E i \in 1 .. n :
           /\ q = [encoder |-> machine.lists[i], fps |-> speed[machine.lists[i]], nth |-> i]
           /\ machine.lists[i] \in KANDIDATI /\ Encodes(machine, best, machine.lists[i])
    BY <1>2 DEF Measured
  <1>4. \A q \in probes : q.fps \in Int /\ q.nth \in 1 .. n /\ q.encoder = machine.lists[q.nth]
    BY <1>1, <1>3
  <1>5. \A p, q \in probes : p.nth = q.nth => p = q
    BY <1>3
  <1>6. \A p, q \in probes : p.encoder = q.encoder => p = q
    BY <1>1, <1>2, <1>4, <1>5
  <1>7. Measurement(probes, n)
    BY <1>4, <1>5, <1>6 DEF Measurement
  <1>8. QED
    BY <1>2, <1>3, <1>7

\* What each handler does to the page.
LEMMA PageJobs ==
  ASSUME ConfigsTyped, NEW p \in Pages
  PROVE  /\ PageGets(p) => \E w : /\ work' = [work EXCEPT ![p] = w] /\ IsWork(w, saves)
                                  /\ w.step = "open" /\ w.read = ReadNow
                                  /\ w.config \in LoadConfig(toml)
                                       \/ (LoadConfig(toml) = {} /\ w.config = proc.config)
         /\ PagePuts(p) =>
              \E w : /\ work' = [work EXCEPT ![p] = w] /\ IsWork(w, saves)
                     /\ \/ w.step = "idle" /\ UNCHANGED <<toml, saves, ordered>>
                        \/ /\ w.step = "write" /\ w.kind = "put"
                           /\ w.config.udn = work[p].config.udn /\ saves' = saves + 1
                           /\ toml' = CutFile /\ ordered' = (ordered /\ work[p].read = saves)
         /\ ApplyReads(p) => \E w : /\ work' = [work EXCEPT ![p] = w] /\ IsWork(w, saves)
                                    /\ w.step = "scan" /\ w.kind = "apply" /\ w.read = ReadNow
                                    /\ w.config \in LoadConfig(toml)
  <1>1. ReadNow \in Int /\ ReadNow <= saves
    BY DEF ReadNow, ConfigsTyped, SettingsTypeOK
  <1>2. IsConfig(toml.config) /\ IsConfig(proc.config) /\ IsWork(work[p], saves) /\ IsWork(NoWork, saves)
    <2>1. saves \in Nat
      BY SettingsAssumption DEF ConfigsTyped, SettingsTypeOK
    <2>2. QED
      BY <2>1, ConfigFacts DEF ConfigsTyped, IsWork, NoWork, AskedModes
  <1>3. \A c \in LoadConfig(toml) : IsConfig(c)
    BY <1>2, ConfigFacts DEF LoadConfig
  <1>4. ASSUME PageGets(p)
        PROVE  \E w : /\ work' = [work EXCEPT ![p] = w] /\ IsWork(w, saves)
                      /\ w.step = "open" /\ w.read = ReadNow
                      /\ w.config \in LoadConfig(toml)
                           \/ (LoadConfig(toml) = {} /\ w.config = proc.config)
    <2>1. PICK c \in IF LoadConfig(toml) = {} THEN {proc.config} ELSE LoadConfig(toml) :
             work' = [work EXCEPT ![p] = [NoWork EXCEPT !.step = "open", !.config = c, !.read = ReadNow]]
      BY <1>4 DEF PageGets
    <2>2. PICK w : w = [NoWork EXCEPT !.step = "open", !.config = c, !.read = ReadNow]
      OBVIOUS
    <2>3. /\ IsConfig(c)
          /\ c \in LoadConfig(toml) \/ (LoadConfig(toml) = {} /\ c = proc.config)
      BY <1>2, <1>3, <2>1
    <2>4. IsWork(w, saves) /\ w.step = "open" /\ w.read = ReadNow /\ w.config = c
      BY <1>1, <2>2, <2>3 DEF IsWork, NoWork, AskedModes
    <2>5. QED
      BY <2>1, <2>2, <2>3, <2>4
  <1>5. ASSUME PagePuts(p)
        PROVE  \E w : /\ work' = [work EXCEPT ![p] = w] /\ IsWork(w, saves)
                      /\ \/ w.step = "idle" /\ UNCHANGED <<toml, saves, ordered>>
                         \/ /\ w.step = "write" /\ w.kind = "put"
                            /\ w.config.udn = work[p].config.udn /\ saves' = saves + 1
                            /\ toml' = CutFile /\ ordered' = (ordered /\ work[p].read = saves)
    <2>1. CASE work[p].config.udn = {}
      BY <1>2, <1>5, <2>1 DEF PagePuts, NoWork
    <2>2. CASE work[p].config.udn # {}
      <3>1. PICK c \in Edited(work[p].config) : BeginSave(p, [work[p] EXCEPT !.config = c])
        BY <1>5, <2>2 DEF PagePuts
      <3>2. IsConfig(c) /\ c.udn = work[p].config.udn
        BY <1>2, ConfigFacts DEF IsWork
      <3>3. PICK job : job = [work[p] EXCEPT !.config = c]
        OBVIOUS
      <3>4. PICK w : w = [job EXCEPT !.step = "write"]
        OBVIOUS
      <3>5. job.read = work[p].read
        BY <1>2, <3>3 DEF IsWork
      <3>6. IsWork(w, saves) /\ w.step = "write" /\ w.kind = "put" /\ w.config = c
        BY <1>2, <1>5, <3>2, <3>3, <3>4 DEF IsWork, PagePuts
      <3>7. /\ saves' = saves + 1 /\ ordered' = (ordered /\ job.read = saves)
            /\ work' = [work EXCEPT ![p] = w] /\ toml' = CutFile
        BY <3>1, <3>3, <3>4 DEF BeginSave
      <3>8. QED
        BY <3>2, <3>5, <3>6, <3>7
    <2>3. QED
      BY <2>1, <2>2
  <1>6. ASSUME ApplyReads(p)
        PROVE  \E w : /\ work' = [work EXCEPT ![p] = w] /\ IsWork(w, saves)
                      /\ w.step = "scan" /\ w.kind = "apply" /\ w.read = ReadNow
                      /\ w.config \in LoadConfig(toml)
    <2>0. PICK c \in LoadConfig(toml) : \E mode \in Modes \cup {c.mode} :
             work' = [work EXCEPT ![p] = [NoWork EXCEPT !.step = "scan", !.kind = "apply", !.config = c,
                                                  !.mode = mode, !.read = ReadNow]]
      BY <1>6 DEF ApplyReads
    <2>1. PICK mode \in Modes \cup {c.mode} :
             work' = [work EXCEPT ![p] = [NoWork EXCEPT !.step = "scan", !.kind = "apply", !.config = c,
                                                  !.mode = mode, !.read = ReadNow]]
      BY <2>0
    <2>2. PICK w : w = [NoWork EXCEPT !.step = "scan", !.kind = "apply", !.config = c,
                                      !.mode = mode, !.read = ReadNow]
      OBVIOUS
    <2>3. IsConfig(c) /\ mode \in AskedModes
      BY <1>3, <2>1, SettingsAssumption DEF IsConfig, AskedModes
    <2>4. /\ IsWork(w, saves) /\ w.step = "scan" /\ w.kind = "apply" /\ w.read = ReadNow
          /\ w.config = c
      BY <1>1, <2>2, <2>3 DEF IsWork, NoWork, AskedModes
    <2>5. QED
      BY <2>1, <2>2, <2>4
  <1>7. QED
    BY <1>4, <1>5, <1>6

SoundJob(job) ==
  LET probes == job.report
      e == job.config.encoder
      mine == {q \in probes : IsHardware(q.encoder) = IsHardware(e)}
      plain == {q \in mine : ~IsHevc(q.encoder)}
      chosen == {q \in probes : q.encoder = e}
  IN job.step = "write" /\ job.kind = "apply" =>
       /\ IF chosen = {} THEN mine = {} /\ e = "libx264"
          ELSE BundleIsSound /\ BundleStarts =>
                 Encodes(machine, ResolveTool(machine, job.config.ffmpeg), e)
       /\ job.mode = "cpu" => ~IsHardware(e)
       /\ job.mode \in {"gpu", "hybrid"} /\ ~IsHardware(e) => \A q \in probes : ~IsHardware(q.encoder)
       /\ job.mode = "auto" => \A q \in probes, c \in chosen : IsHevc(q.encoder) \/ q.fps <= c.fps
       /\ \A c \in chosen :
            IF \E q \in plain : q.fps >= PRAG
            THEN c \in plain /\ \A q \in plain : q.fps <= c.fps
            ELSE \A q \in mine : q.fps <= c.fps
       /\ ~IsHardware(e) => job.config.threads \in 1 .. Threads

\* A scan ends with the save of what it recommends.
LEMMA ScanJob ==
  ASSUME ConfigsTyped, NEW p \in Pages, ApplyScans(p)
  PROVE  \E w : /\ work' = [work EXCEPT ![p] = w] /\ IsWork(w, saves) /\ SoundJob(w)
                /\ w.step = "write" /\ w.config.udn = work[p].config.udn
                /\ w.config.language = work[p].config.language
                /\ w.config.hw_accel = work[p].config.hw_accel
                /\ saves' = saves + 1 /\ toml' = CutFile /\ ordered' = (ordered /\ work[p].read = saves)
  <1>1. PICK c : c = work[p].config
    OBVIOUS
  <1>2. PICK best : best = BestTool(machine, c.ffmpeg)
    OBVIOUS
  <1>3. PICK speed \in Speeds :
           LET probes == Measured(machine, best, speed)
               applied == Applied(c, Recommend(best, probes, work[p].mode))
           IN \E own \in Overruled(applied) :
                BeginSave(p, [work[p] EXCEPT !.report = probes, !.config = own,
                                             !.kind = IF own = applied THEN "apply" ELSE "own"])
    BY <1>1, <1>2 DEF ApplyScans
  <1>4. PICK probes : probes = Measured(machine, best, speed)
    OBVIOUS
  <1>5. PICK r : r = Recommend(best, probes, work[p].mode)
    OBVIOUS
  <1>6. IsConfig(c) /\ work[p].mode \in AskedModes /\ machine \in Machines
    BY <1>1 DEF ConfigsTyped, IsWork, SettingsTypeOK
  <1>7. PICK applied : applied = Applied(c, r)
    OBVIOUS
  <1>8. PICK d, kind, job :
           /\ d \in Overruled(applied) /\ kind \in {"apply", "own"}
           /\ kind = "apply" <=> d = applied
           /\ job = [work[p] EXCEPT !.report = probes, !.config = d, !.kind = kind]
           /\ BeginSave(p, job)
    BY <1>3, <1>4, <1>5, <1>7
  <1>9. PICK w : w = [job EXCEPT !.step = "write"]
    OBVIOUS
  <1>10. /\ saves' = saves + 1 /\ ordered' = (ordered /\ job.read = saves)
         /\ work' = [work EXCEPT ![p] = w] /\ toml' = CutFile
    BY <1>8, <1>9 DEF BeginSave
  <1>12. /\ Len(machine.lists) \in Nat /\ Measurement(probes, Len(machine.lists))
         /\ \A q \in probes : Encodes(machine, best, q.encoder)
    BY <1>4, <1>6, ScanFacts
  <1>13. r.ffmpeg = best /\ Recommended(probes, work[p].mode, r)
    BY <1>5, <1>6, <1>12, RecommendFacts
  <1>14. /\ IsConfig(d) /\ d.udn = c.udn /\ d.language = c.language /\ d.hw_accel = c.hw_accel
         /\ d = applied => d.ffmpeg = best /\ d.encoder = r.encoder /\ d.threads = r.threads
    <2>1. /\ IsConfig(applied) /\ applied.udn = c.udn /\ applied.language = c.language
          /\ applied.hw_accel = c.hw_accel /\ applied.ffmpeg = best
          /\ applied.encoder = r.encoder /\ applied.threads = r.threads
      BY <1>6, <1>7, <1>13, AppliedFacts DEF Recommended
    <2>2. QED
      BY <1>8, <2>1, OverruledFacts
  <1>15. /\ IsWork(w, saves) /\ w.step = "write" /\ w.config = d /\ w.report = probes
         /\ w.mode = work[p].mode /\ w.kind = kind /\ job.read = work[p].read
    <2>1. IsWork(work[p], saves)
      BY DEF ConfigsTyped
    <2>2. PICK k : k = work[p]
      OBVIOUS
    <2>3. IsWork(k, saves) /\ w = [k EXCEPT !.report = probes, !.config = d, !.kind = kind, !.step = "write"]
      BY <1>8, <1>9, <2>1, <2>2 DEF IsWork
    <2>4. kind \in {"put", "apply", "own"}
      BY <1>8
    <2>5. /\ IsWork(w, saves) /\ w.step = "write" /\ w.config = d /\ w.report = probes
          /\ w.mode = k.mode /\ w.kind = kind
      BY <1>14, <2>3, <2>4 DEF IsWork
    <2>6. job.read = k.read
      BY <1>8, <2>1, <2>2 DEF IsWork
    <2>7. QED
      BY <2>2, <2>5, <2>6
  <1>16. ASSUME BundleIsSound, BundleStarts, NEW q \in probes
         PROVE  Encodes(machine, ResolveTool(machine, best), q.encoder)
    BY <1>2, <1>12, <1>16, BestToolIsResolved
  <1>17. CASE d # applied
    BY <1>8, <1>10, <1>14, <1>15, <1>17, <1>1 DEF SoundJob
  <1>18. ASSUME d = applied PROVE SoundJob(w)
    <2>1. PRAG = 60
      BY DEF PRAG
    <2>2. w.config.encoder = r.encoder /\ w.config.threads = r.threads /\ w.config.ffmpeg = best
      BY <1>14, <1>15, <1>18
    <2>3. Recommended(w.report, w.mode, r)
      BY <1>13, <1>15
    <2>4. ASSUME NEW q \in w.report, q.encoder = r.encoder, BundleIsSound, BundleStarts
          PROVE  Encodes(machine, ResolveTool(machine, w.config.ffmpeg), r.encoder)
      BY <1>15, <1>16, <2>2, <2>4
    <2> HIDE DEF PRAG
    <2>5. QED
      BY <2>1, <2>2, <2>3, <2>4 DEF SoundJob, Recommended
  <1>19. QED
    BY <1>1, <1>10, <1>14, <1>15, <1>17, <1>18

LEMMA WorkIsTyped ==
  ASSUME ConfigsTyped, saves' \in {saves, saves + 1}
  PROVE  /\ saves \in Nat
         /\ \A q \in Pages : IsWork(work[q], saves') /\ IsWork(NoWork, saves')
         /\ \A p \in Pages : \A w :
              work' = [work EXCEPT ![p] = w] /\ IsWork(w, saves) =>
                DOMAIN work' = Pages /\ \A q \in Pages : IsWork(work'[q], saves')
  <1>1. saves \in Nat
    BY SettingsAssumption DEF ConfigsTyped, SettingsTypeOK
  <1>2. \A w : IsWork(w, saves) => IsWork(w, saves')
    BY <1>1 DEF IsWork
  <1>3. IsWork(NoWork, saves)
    BY <1>1, ConfigFacts DEF IsWork, NoWork, AskedModes
  <1>4. \A q \in Pages : IsWork(work[q], saves) /\ IsWork(work[q], saves')
    BY <1>2 DEF ConfigsTyped
  <1>5. ASSUME NEW p \in Pages, NEW w, work' = [work EXCEPT ![p] = w], IsWork(w, saves)
        PROVE  DOMAIN work' = Pages /\ \A q \in Pages : IsWork(work'[q], saves')
    BY <1>2, <1>4, <1>5 DEF ConfigsTyped
  <1>6. QED
    BY <1>1, <1>2, <1>3, <1>4, <1>5

\* Whether each value stays of its kind.
LEMMA WorkStep ==
  ASSUME ConfigsTyped, [SettingsNext]_settingsVars
  PROVE  /\ saves' \in 0 .. MaxSaves /\ machine' = machine
         /\ DOMAIN work' = Pages /\ \A q \in Pages : IsWork(work'[q], saves')
  <1>0. /\ saves \in 0 .. MaxSaves /\ DOMAIN work = Pages /\ MaxSaves \in Nat
        /\ \A q \in Pages : IsWork(work[q], saves)
    BY SettingsAssumption DEF ConfigsTyped, SettingsTypeOK
  <1>1. CASE UNCHANGED <<saves, work, machine>>
    BY <1>0, <1>1
  <1>2. CASE ProcessExits
    <2>1. saves' = saves /\ machine' = machine
      BY <1>2 DEF ProcessExits
    <2>2. work' = [p \in Pages |-> IF work[p].step \in {"scan", "write"} THEN NoWork ELSE work[p]]
      BY <1>2 DEF ProcessExits
    <2>3. IsWork(NoWork, saves')
      BY <1>0, <2>1, ConfigFacts DEF IsWork, NoWork, AskedModes
    <2>4. QED
      BY <1>0, <2>1, <2>2, <2>3
  <1>3. ASSUME NEW p \in Pages,
               PageGets(p) \/ PagePuts(p) \/ ApplyReads(p) \/ ApplyScans(p) \/ PageSaves(p) \/ SaveFails(p)
        PROVE  /\ saves' \in 0 .. MaxSaves /\ machine' = machine
               /\ DOMAIN work' = Pages /\ \A q \in Pages : IsWork(work'[q], saves')
    <2>1. saves' = saves \/ (saves < MaxSaves /\ saves' = saves + 1)
      BY <1>3 DEF PageGets, PagePuts, ApplyReads, ApplyScans, PageSaves, SaveFails, BeginSave
    <2>2. machine' = machine
      BY <1>3 DEF PageGets, PagePuts, ApplyReads, ApplyScans, PageSaves, SaveFails
    <2>3. saves' \in 0 .. MaxSaves
      BY <1>0, <2>1
    <2>4. IsWork(NoWork, saves)
      BY <1>0, ConfigFacts DEF IsWork, NoWork, AskedModes
    <2>5. PICK w : work' = [work EXCEPT ![p] = w] /\ IsWork(w, saves)
      <3>1. CASE PageSaves(p) \/ SaveFails(p)
        BY <2>4, <3>1 DEF PageSaves, SaveFails
      <3>2. CASE PageGets(p) \/ PagePuts(p) \/ ApplyReads(p)
        BY <3>2, PageJobs
      <3>3. CASE ApplyScans(p)
        BY <3>3, ScanJob
      <3>4. QED
        BY <1>3, <3>1, <3>2, <3>3
    <2>6. QED
      BY <2>1, <2>2, <2>3, <2>5, WorkIsTyped
  <1>4. QED
    BY <1>1, <1>2, <1>3 DEF SettingsNext, settingsVars, BootLoads, BootEnsures, BootWrites, BootComesUp

IsFile(f) ==
  /\ f = [state |-> f.state, config |-> f.config] /\ IsConfig(f.config)
  /\ f.state \in {"absent", "empty", "garbled", "whole"}
IsProcess(q) ==
  /\ q = [phase |-> q.phase, config |-> q.config, boot |-> q.boot, language |-> q.language,
          hw |-> q.hw, saves |-> q.saves]
  /\ q.phase \in {"down", "create", "ensure", "identity", "start", "up"}
  /\ IsConfig(q.config) /\ IsConfig(q.boot)

LEMMA FileStep ==
  ASSUME ConfigsTyped, [SettingsNext]_settingsVars
  PROVE  IsFile(toml')
  <1>0. IsFile(toml) /\ IsConfig(proc.config) /\ \A p \in Pages : IsConfig(work[p].config)
    BY DEF ConfigsTyped, SettingsTypeOK, IsFile, IsWork
  <1>1. \/ toml' = toml \/ toml' = CutFile \/ toml' = WholeFile(proc.config)
        \/ \E p \in Pages : toml' = WholeFile(work[p].config) \/ toml' = [toml EXCEPT !.state = "garbled"]
    BY DEF SettingsNext, settingsVars, BootLoads, BootEnsures, BootWrites, BootComesUp, ProcessExits,
           PageGets, PagePuts, ApplyReads, ApplyScans, PageSaves, SaveFails, BeginSave
  <1>2. QED
    BY <1>0, <1>1 DEF IsFile, CutFile, WholeFile

LEMMA ProcessStep ==
  ASSUME ConfigsTyped, [SettingsNext]_settingsVars
  PROVE  /\ IsProcess(proc') /\ boots' \in 0 .. MaxBoots /\ announced' \subseteq 1 .. MaxBoots
         /\ boots' > 0 \/ proc'.phase = "down"
  <1>0. /\ IsProcess(proc) /\ boots \in 0 .. MaxBoots /\ MaxBoots \in Nat
        /\ announced \subseteq 1 .. MaxBoots /\ IsConfig(toml.config)
        /\ proc.phase # "down" => boots \in 1 .. MaxBoots
    BY SettingsAssumption DEF ConfigsTyped, SettingsTypeOK, IsProcess
  <1>d. IsProcess(ProcDown) /\ ProcDown.phase = "down"
    BY ConfigFacts DEF IsProcess, ProcDown
  <1>1. CASE UNCHANGED <<proc, boots, announced>>
    BY <1>0, <1>1
  <1>2. CASE BootLoads
    <2>0. boots < MaxBoots /\ boots' = boots + 1 /\ announced' = announced
      BY <1>2 DEF BootLoads
    <2>1. boots' \in 1 .. MaxBoots
      BY <1>0, <2>0
    <2>2. \A c \in LoadConfig(toml) : IsConfig(c)
      BY <1>0, ConfigFacts DEF LoadConfig
    <2>3. \/ proc' = [ProcDown EXCEPT !.phase = "create"]
          \/ \E c \in LoadConfig(toml) : proc' = [ProcDown EXCEPT !.phase = "ensure", !.config = c]
      BY <1>2 DEF BootLoads
    <2>4. IsProcess(proc')
      BY <1>d, <2>2, <2>3 DEF IsProcess
    <2>5. QED
      BY <1>0, <2>0, <2>1, <2>4
  <1>3. CASE BootEnsures
    <2>1. boots' = boots /\ announced' = announced /\ boots \in 1 .. MaxBoots
      BY <1>0, <1>3 DEF BootEnsures
    <2>2. \/ /\ proc' = [proc EXCEPT !.phase = "identity", !.config.udn = {boots}]
          \/ proc' = [proc EXCEPT !.phase = "start"]
      BY <1>3 DEF BootEnsures, NewUdn
    <2>3. PICK c : c = [proc.config EXCEPT !.udn = {boots}]
      OBVIOUS
    <2>4. IsConfig(c)
      BY <1>0, <2>1, <2>3, ConfigFacts DEF IsProcess
    <2>5. \/ proc' = [proc EXCEPT !.phase = "identity", !.config = c] \/ proc' = [proc EXCEPT !.phase = "start"]
      BY <2>2, <2>3
    <2>6. IsProcess(proc')
      BY <1>0, <2>4, <2>5 DEF IsProcess
    <2>7. QED
      BY <1>0, <2>1, <2>6
  <1>4. CASE BootWrites
    <2>1. /\ boots' = boots /\ announced' = announced /\ boots \in 1 .. MaxBoots
          /\ \/ proc' = [proc EXCEPT !.phase = "ensure"] \/ proc' = [proc EXCEPT !.phase = "start"]
      BY <1>0, <1>4 DEF BootWrites
    <2>2. IsProcess(proc')
      BY <1>0, <2>1 DEF IsProcess
    <2>3. QED
      BY <1>0, <2>1, <2>2
  <1>5. CASE BootComesUp
    <2>1. PICK f, hw :
            proc' = [phase |-> "up", boot |-> proc.config, config |-> [proc.config EXCEPT !.ffmpeg = f],
                     language |-> proc.config.language, hw |-> hw, saves |-> saves]
      BY <1>5 DEF BootComesUp
    <2>2. IsConfig(proc.config) /\ IsConfig([proc.config EXCEPT !.ffmpeg = f])
      BY <1>0, ConfigFacts DEF IsProcess
    <2>3. IsProcess(proc')
      BY <2>1, <2>2 DEF IsProcess
    <2>4. boots' = boots /\ boots \in 1 .. MaxBoots /\ announced' = announced \cup proc.config.udn
      BY <1>0, <1>5 DEF BootComesUp
    <2>5. proc.config.udn \subseteq 1 .. MaxBoots
      BY <2>2 DEF IsConfig
    <2>6. announced' \subseteq 1 .. MaxBoots
      BY <1>0, <2>4, <2>5
    <2>7. boots' \in 0 .. MaxBoots /\ boots' > 0
      BY <1>0, <2>4
    <2>8. QED
      BY <2>3, <2>6, <2>7
  <1>6. CASE ProcessExits
    BY <1>0, <1>d, <1>6 DEF ProcessExits
  <1>7. ASSUME NEW p \in Pages, PageSaves(p)
        PROVE  /\ boots' = boots /\ announced' = announced
               /\ proc' = proc \/ \E l : proc' = [proc EXCEPT !.language = l]
    BY <1>7 DEF PageSaves
  <1>8. CASE \E p \in Pages : PageSaves(p)
    <2>1. IsProcess(proc') /\ proc'.phase = proc.phase
      BY <1>0, <1>7, <1>8 DEF IsProcess
    <2>2. QED
      BY <1>0, <1>7, <1>8, <2>1
  <1>9. QED
    BY <1>1, <1>2, <1>3, <1>4, <1>5, <1>6, <1>8
       DEF SettingsNext, settingsVars, PageGets, PagePuts, ApplyReads, ApplyScans, SaveFails

LEMMA ConfigsStayTyped ==
  ASSUME ConfigsTyped, [SettingsNext]_settingsVars
  PROVE  ConfigsTyped'
  <1>1. machine' \in Machines
    BY WorkStep DEF ConfigsTyped, SettingsTypeOK
  <1>2. IsFile(toml') /\ IsProcess(proc')
    BY FileStep, ProcessStep
  <1>3. /\ saves' \in 0 .. MaxSaves /\ DOMAIN work' = Pages
        /\ \A q \in Pages : IsWork(work'[q], saves')
    BY WorkStep
  <1>4. \A q \in Pages : work'[q].step \in {"idle", "open", "scan", "write"}
    BY <1>3 DEF IsWork
  <1>5. SettingsTypeOK'
    BY <1>1, <1>2, <1>3, <1>4, ProcessStep DEF SettingsTypeOK, IsFile, IsProcess
  <1>6. QED
    BY <1>2, <1>3, <1>5, ProcessStep DEF ConfigsTyped, IsFile, IsProcess

LEMMA JobsAreSound ==
  RecommendationSound <=> \A p \in Pages : SoundJob(work[p])
  BY DEF RecommendationSound, SoundJob

LEMMA SoundStep ==
  ASSUME ConfigsTyped, RecommendationSound, [SettingsNext]_settingsVars
  PROVE  RecommendationSound'
  <1>1. machine' = machine
    BY WorkStep
  <1>2. \A p \in Pages : SoundJob(work[p])
    BY JobsAreSound
  <1>3. \A w : w.step # "write" => SoundJob(w)
    BY DEF SoundJob
  <1>4. DOMAIN work = Pages
    BY DEF ConfigsTyped
  <1>5. \A q \in Pages : SoundJob(work'[q])
    <2>1. CASE UNCHANGED work
      BY <1>2, <2>1
    <2>2. CASE ProcessExits
      <3>1. \A q \in Pages : work'[q] = NoWork \/ work'[q] = work[q]
        BY <2>2 DEF ProcessExits
      <3>2. QED
        BY <1>2, <1>3, <3>1 DEF NoWork
    <2>3. ASSUME NEW p \in Pages, NEW w, work' = [work EXCEPT ![p] = w], SoundJob(w)
          PROVE  \A q \in Pages : SoundJob(work'[q])
      BY <1>2, <1>4, <2>3
    <2>4. ASSUME NEW p \in Pages,
                 PageGets(p) \/ PagePuts(p) \/ ApplyReads(p) \/ ApplyScans(p) \/ PageSaves(p) \/ SaveFails(p)
          PROVE  \E w : work' = [work EXCEPT ![p] = w] /\ SoundJob(w)
      <3>1. CASE PageSaves(p) \/ SaveFails(p)
        BY <1>3, <3>1 DEF PageSaves, SaveFails, NoWork
      <3>2. CASE PageGets(p) \/ ApplyReads(p)
        <4>1. PICK w : work' = [work EXCEPT ![p] = w] /\ w.step # "write"
          BY <3>2, PageJobs
        <4>2. QED
          BY <1>3, <4>1
      <3>3. CASE PagePuts(p)
        <4>1. PICK w : /\ work' = [work EXCEPT ![p] = w]
                       /\ w.step = "idle" \/ (w.step = "write" /\ w.kind = "put")
          BY <3>3, PageJobs
        <4>2. SoundJob(w)
          BY <4>1 DEF SoundJob
        <4>3. QED
          BY <4>1, <4>2
      <3>4. CASE ApplyScans(p)
        BY <3>4, ScanJob
      <3>5. QED
        BY <2>4, <3>1, <3>2, <3>3, <3>4
    <2>5. QED
      BY <2>1, <2>2, <2>3, <2>4
         DEF SettingsNext, settingsVars, BootLoads, BootEnsures, BootWrites, BootComesUp
  <1>6. BundleIsSound' = BundleIsSound /\ BundleStarts' = BundleStarts
    BY <1>1 DEF BundleIsSound, BundleStarts
  <1>7. QED
    BY <1>1, <1>5, <1>6 DEF RecommendationSound, SoundJob

LEMMA ServedStep ==
  ASSUME ConfigsTyped, ServedWhileUp, [SettingsNext]_settingsVars
  PROVE  ServedWhileUp'
  <1>0. DOMAIN work = Pages
    BY DEF ConfigsTyped
  <1>1. CASE UNCHANGED <<work, proc>>
    BY <1>1 DEF ServedWhileUp
  <1>2. CASE BootLoads \/ BootEnsures \/ BootWrites \/ BootComesUp
    BY <1>2 DEF ServedWhileUp, BootLoads, BootEnsures, BootWrites, BootComesUp
  <1>3. CASE ProcessExits
    BY <1>3 DEF ServedWhileUp, ProcessExits, NoWork
  <1>4. ASSUME NEW p \in Pages,
               PageGets(p) \/ PagePuts(p) \/ ApplyReads(p) \/ ApplyScans(p) \/ PageSaves(p) \/ SaveFails(p)
        PROVE  ServedWhileUp'
    <2>1. proc.phase = "up"
      BY <1>4 DEF PageGets, PagePuts, ApplyReads, ApplyScans, PageSaves, SaveFails
    <2>2. proc' = proc \/ proc' = [proc EXCEPT !.language = work[p].config.language]
      BY <1>4 DEF PageGets, PagePuts, ApplyReads, ApplyScans, PageSaves, SaveFails
    <2>3. proc'.phase = "up"
      BY <2>1, <2>2 DEF ConfigsTyped
    <2>4. QED
      BY <2>3 DEF ServedWhileUp
  <1>5. QED
    BY <1>1, <1>2, <1>3, <1>4 DEF SettingsNext, settingsVars

LEMMA CopiesStep ==
  ASSUME ConfigsTyped, CopiesKnown, [SettingsNext]_settingsVars
  PROVE  CopiesKnown'
  <1>0. /\ DOMAIN work = Pages /\ saves \in Nat
        /\ \A q \in Pages : work[q].read \in Int /\ work[q].read <= saves
    BY SettingsAssumption DEF ConfigsTyped, SettingsTypeOK, IsWork
  <1>1. CASE UNCHANGED <<work, saves>>
    BY <1>1 DEF CopiesKnown, IsWriting, HasCopy
  <1>2. CASE ProcessExits
    BY <1>2 DEF CopiesKnown, ProcessExits, NoWork, IsWriting, HasCopy
  <1>3. ASSUME NEW p \in Pages, PageSaves(p) \/ SaveFails(p)
        PROVE  CopiesKnown'
    <2>1. work' = [work EXCEPT ![p] = NoWork] /\ saves' = saves
      BY <1>3 DEF PageSaves, SaveFails
    <2>2. QED
      BY <1>0, <2>1 DEF CopiesKnown, NoWork, IsWriting, HasCopy
  <1>4. ASSUME NEW p \in Pages, PageGets(p) \/ ApplyReads(p)
        PROVE  CopiesKnown'
    <2>1. PICK w : work' = [work EXCEPT ![p] = w] /\ w.step # "write" /\ w.read = ReadNow
      BY <1>4, PageJobs
    <2>2. saves' = saves /\ ((\E q \in Pages : IsWriting(q)) => w.read = -1)
      BY <1>4, <2>1 DEF PageGets, ApplyReads, ReadNow, IsWriting
    <2>3. QED
      BY <1>0, <2>1, <2>2 DEF CopiesKnown, IsWriting, HasCopy
  <1>5. ASSUME NEW p \in Pages, PagePuts(p) \/ ApplyScans(p)
        PROVE  CopiesKnown'
    <2>1. PICK w : /\ work' = [work EXCEPT ![p] = w]
                   /\ (w.step = "idle" /\ saves' = saves) \/ (w.step = "write" /\ saves' = saves + 1)
      BY <1>5, PageJobs, ScanJob
    <2>2. CASE w.step = "idle" /\ saves' = saves
      BY <1>0, <2>1, <2>2 DEF CopiesKnown, IsWriting, HasCopy
    <2>3. CASE w.step = "write" /\ saves' = saves + 1
      <3>1. \A q \in Pages : HasCopy(q)' => q # p /\ work'[q] = work[q]
        BY <1>0, <2>1, <2>3 DEF HasCopy
      <3>2. \A q \in Pages : work[q].read # saves + 1
        BY <1>0
      <3>3. QED
        BY <2>3, <3>1, <3>2 DEF CopiesKnown
    <2>4. QED
      BY <2>1, <2>2, <2>3
  <1>6. QED
    BY <1>1, <1>2, <1>3, <1>4, <1>5
       DEF SettingsNext, settingsVars, BootLoads, BootEnsures, BootWrites, BootComesUp

\* What a step of a page leaves of the process.
LEMMA PagesLeave ==
  ASSUME ConfigsTyped, NEW p \in Pages,
         PageGets(p) \/ PagePuts(p) \/ ApplyReads(p) \/ ApplyScans(p) \/ PageSaves(p) \/ SaveFails(p)
  PROVE  /\ proc.phase = "up" /\ proc'.phase = "up" /\ proc'.config = proc.config
         /\ proc'.boot = proc.boot /\ proc'.hw = proc.hw /\ proc'.saves = proc.saves
         /\ machine' = machine /\ boots' = boots /\ announced' = announced
  <1>1. /\ proc.phase = "up" /\ machine' = machine /\ boots' = boots /\ announced' = announced
        /\ proc' = proc \/ proc' = [proc EXCEPT !.language = work[p].config.language]
    BY DEF PageGets, PagePuts, ApplyReads, ApplyScans, PageSaves, SaveFails
  <1>2. QED
    BY <1>1 DEF ConfigsTyped

LEMMA BootReadStep ==
  ASSUME ConfigsTyped, BootRead, [SettingsNext]_settingsVars
  PROVE  BootRead'
  <1>1. CASE UNCHANGED <<toml, proc>>
    BY <1>1 DEF BootRead, WholeFile
  <1>2. CASE BootLoads
    <2>1. CASE proc' = [ProcDown EXCEPT !.phase = "create"]
      BY <2>1 DEF BootRead, ProcDown
    <2>2. ASSUME NEW c \in LoadConfig(toml), proc' = [ProcDown EXCEPT !.phase = "ensure", !.config = c],
                 toml' = toml
          PROVE  BootRead'
      <3>1. toml = WholeFile(c) \/ c.udn = {}
        BY ConfigFacts DEF ConfigsTyped, LoadConfig, WholeFile
      <3>2. proc'.phase = "ensure" /\ proc'.config = c
        BY <2>2 DEF ProcDown
      <3>3. QED
        BY <2>2, <3>1, <3>2 DEF BootRead, WholeFile
    <2>3. QED
      BY <1>2, <2>1, <2>2 DEF BootLoads
  <1>3. CASE BootEnsures
    <2>1. CASE proc.config.udn = {}
      <3>1. proc'.phase = "identity" /\ proc'.config.udn = {boots}
        BY <1>3, <2>1 DEF BootEnsures, NewUdn, ConfigsTyped, IsConfig
      <3>2. QED
        BY <3>1 DEF BootRead
    <2>2. CASE proc.config.udn # {}
      <3>1. proc'.phase = "start" /\ proc'.config = proc.config /\ toml' = toml /\ toml = WholeFile(proc.config)
        BY <1>3, <2>2 DEF BootEnsures, BootRead, ConfigsTyped
      <3>2. QED
        BY <2>2, <3>1 DEF BootRead, WholeFile
    <2>3. QED
      BY <2>1, <2>2
  <1>4. CASE BootWrites
    <2>1. /\ toml' = WholeFile(proc.config) /\ proc'.config = proc.config
          /\ proc'.phase = IF proc.phase = "create" THEN "ensure" ELSE "start"
          /\ proc.phase # "create" => proc.config.udn # {}
      BY <1>4 DEF BootWrites, ConfigsTyped, BootRead
    <2>2. QED
      BY <2>1 DEF BootRead, WholeFile
  <1>5. CASE BootComesUp
    BY <1>5 DEF BootComesUp, BootRead
  <1>6. CASE ProcessExits
    BY <1>6 DEF ProcessExits, ProcDown, BootRead
  <1>7. CASE \E p \in Pages : \/ PageGets(p) \/ PagePuts(p) \/ ApplyReads(p) \/ ApplyScans(p)
                              \/ PageSaves(p) \/ SaveFails(p)
    BY <1>7, PagesLeave DEF BootRead
  <1>8. QED
    BY <1>1, <1>2, <1>3, <1>4, <1>5, <1>6, <1>7 DEF SettingsNext, settingsVars

LEMMA RunsStep ==
  ASSUME ConfigsTyped, FileOfBoot, [SettingsNext]_settingsVars
  PROVE  RunsTheFile'
  <1>0. saves \in Int /\ DOMAIN work = Pages
    BY SettingsAssumption DEF ConfigsTyped, SettingsTypeOK
  <1>1. CASE UNCHANGED settingsVars
    BY <1>1 DEF FileOfBoot, RunsTheFile, IsWriting, settingsVars, WholeFile
  <1>2. CASE BootLoads \/ BootEnsures \/ BootWrites \/ ProcessExits
    <2>1. proc'.phase # "up"
      <3>1. CASE BootLoads
        <4>1. \/ proc' = [ProcDown EXCEPT !.phase = "create"]
              \/ \E c : proc' = [ProcDown EXCEPT !.phase = "ensure", !.config = c]
          BY <3>1 DEF BootLoads
        <4>2. QED
          BY <4>1 DEF ProcDown
      <3>2. CASE BootEnsures \/ BootWrites
        BY <3>2 DEF BootEnsures, BootWrites, ConfigsTyped
      <3>3. CASE ProcessExits
        BY <3>3 DEF ProcessExits, ProcDown
      <3>4. QED
        BY <1>2, <3>1, <3>2, <3>3
    <2>2. QED
      BY <2>1 DEF RunsTheFile
  <1>3. CASE BootComesUp
    <2>1. proc.phase = "start" /\ toml' = toml /\ machine' = machine /\ work' = work /\ saves' = saves
      BY <1>3 DEF BootComesUp
    <2>2. toml = WholeFile(proc.config) /\ \A p \in Pages : ~IsWriting(p)
      BY <2>1 DEF FileOfBoot, BootRead, ServedWhileUp, IsWriting
    <2>3. PICK f : f = ResolveTool(machine, proc.config.ffmpeg)
      OBVIOUS
    <2>4. proc' = [phase |-> "up", boot |-> proc.config, config |-> [proc.config EXCEPT !.ffmpeg = f],
                   language |-> proc.config.language,
                   hw |-> Detect(machine, f, proc.config.hw_accel), saves |-> saves]
      BY <1>3, <2>3 DEF BootComesUp
    <2>5. /\ proc'.boot = proc.config /\ proc'.config = [proc'.boot EXCEPT !.ffmpeg = f]
          /\ proc'.config.ffmpeg = f /\ proc'.config.hw_accel = proc.config.hw_accel
          /\ proc'.hw = Detect(machine, f, proc.config.hw_accel) /\ proc'.saves = saves
      BY <2>4 DEF ConfigsTyped, IsConfig
    <2>6. QED
      BY <1>0, <2>1, <2>2, <2>3, <2>5 DEF RunsTheFile, IsWriting, WholeFile
  <1>4. ASSUME NEW p \in Pages,
               PageGets(p) \/ PagePuts(p) \/ ApplyReads(p) \/ ApplyScans(p) \/ PageSaves(p) \/ SaveFails(p)
        PROVE  RunsTheFile'
    <2>1. /\ proc.phase = "up" /\ proc'.config = proc.config /\ proc'.boot = proc.boot
          /\ proc'.hw = proc.hw /\ proc'.saves = proc.saves /\ machine' = machine
      BY <1>4, PagesLeave
    <2>2. /\ proc.config = [proc.boot EXCEPT !.ffmpeg = ResolveTool(machine, proc.boot.ffmpeg)]
          /\ proc.hw = Detect(machine, proc.config.ffmpeg, proc.config.hw_accel)
          /\ proc.saves <= saves /\ proc.saves \in Int
          /\ saves = proc.saves => toml = WholeFile(proc.boot) /\ \A q \in Pages : ~IsWriting(q)
      BY <2>1 DEF FileOfBoot, RunsTheFile
    <2>3. /\ saves' \in Int /\ proc.saves <= saves'
          /\ saves' = proc.saves => toml' = WholeFile(proc.boot) /\ \A q \in Pages : ~IsWriting(q)'
      <3>1. CASE PageGets(p) \/ ApplyReads(p)
        <4>1. PICK w : work' = [work EXCEPT ![p] = w] /\ w.step # "write"
          BY <3>1, PageJobs
        <4>2. saves' = saves /\ toml' = toml
          BY <3>1 DEF PageGets, ApplyReads
        <4>3. QED
          BY <1>0, <2>2, <4>1, <4>2 DEF IsWriting
      <3>2. CASE PagePuts(p) \/ ApplyScans(p)
        <4>1. PICK w : /\ work' = [work EXCEPT ![p] = w]
                       /\ \/ w.step = "idle" /\ saves' = saves /\ toml' = toml
                          \/ saves' = saves + 1
          BY <3>2, PageJobs, ScanJob
        <4>2. QED
          BY <1>0, <2>2, <4>1 DEF IsWriting
      <3>3. CASE PageSaves(p) \/ SaveFails(p)
        <4>1. saves' = saves /\ IsWriting(p)
          BY <3>3 DEF PageSaves, SaveFails, IsWriting
        <4>2. QED
          BY <1>0, <2>2, <4>1
      <3>4. QED
        BY <1>4, <3>1, <3>2, <3>3
    <2>4. QED
      BY <2>1, <2>2, <2>3 DEF RunsTheFile, WholeFile
  <1>5. QED
    BY <1>1, <1>2, <1>3, <1>4 DEF SettingsNext

LEMMA OrderOfBoot ==
  ASSUME ConfigsTyped, FileOfBoot, Order, ~cut', BootLoads \/ BootEnsures \/ BootWrites \/ BootComesUp
  PROVE  Order'
  <1>0. /\ ordered' = ordered /\ cut' = cut /\ work' = work /\ saves' = saves /\ wished' = wished
        /\ proc.phase # "up" /\ \A p \in Pages : ~IsWriting(p) /\ ~IsWriting(p)'
    BY DEF BootLoads, BootEnsures, BootWrites, BootComesUp, FileOfBoot, ServedWhileUp, IsWriting
  <1>1. CASE BootLoads
    <2>1. announced' = announced /\ proc.phase = "down"
      BY <1>1 DEF BootLoads
    <2>2. CASE toml.state = "absent"
      <3>1. toml'.state = "empty" /\ proc'.phase = "create" /\ proc'.config = DefaultConfig
        BY <1>1, <2>2 DEF BootLoads, CutFile, ProcDown, ConfigsTyped
      <3>2. announced = {} /\ Agrees(DefaultConfig)
        BY <2>2 DEF Order, FileInOrder
      <3>3. QED
        BY <1>0, <2>1, <3>1, <3>2
           DEF Order, FileInOrder, WritersInOrder, BootInOrder, CopiesInOrder, Agrees, HasCopy, IsWriting
    <2>3. CASE toml.state # "absent"
      <3>1. toml' = toml /\ toml.state = "whole"
        BY <1>0, <1>1, <2>1, <2>3 DEF BootLoads, Order, FileInOrder, ConfigsTyped, SettingsTypeOK
      <3>2. proc' = [ProcDown EXCEPT !.phase = "ensure", !.config = toml.config]
        BY <1>1, <2>3, <3>1 DEF BootLoads, LoadConfig
      <3>3. proc'.phase = "ensure" /\ proc'.config = toml.config /\ toml = WholeFile(toml.config)
        BY <3>1, <3>2 DEF ProcDown, ConfigsTyped, WholeFile
      <3>4. QED
        BY <1>0, <2>1, <3>1, <3>3
           DEF Order, FileInOrder, WritersInOrder, BootInOrder, CopiesInOrder, Agrees, HasCopy, IsWriting, WholeFile
    <2>4. QED
      BY <2>2, <2>3
  <1>2. CASE BootEnsures
    <2>1. /\ announced' = announced /\ toml = WholeFile(proc.config) /\ proc.phase = "ensure"
          /\ toml.state = "whole" /\ toml.config = proc.config
          /\ Agrees(toml.config) /\ (announced # {} => announced = toml.config.udn)
      BY <1>2 DEF BootEnsures, Order, BootInOrder, FileInOrder, WholeFile
    <2>2. CASE proc.config.udn = {}
      <3>1. toml'.state = "empty" /\ proc'.phase = "identity"
        BY <1>2, <2>2 DEF BootEnsures, CutFile, ConfigsTyped
      <3>2. proc'.config = [proc.config EXCEPT !.udn = {boots}]
        BY <1>2, <2>2 DEF BootEnsures, ConfigsTyped, NewUdn
      <3>3. proc'.config.language = proc.config.language /\ proc'.config.hw_accel = proc.config.hw_accel
        BY <3>2 DEF ConfigsTyped, IsConfig
      <3>4. announced = {}
        BY <2>1, <2>2
      <3>5. QED
        BY <1>0, <2>1, <3>1, <3>3, <3>4
           DEF Order, FileInOrder, WritersInOrder, BootInOrder, CopiesInOrder, Agrees, HasCopy, IsWriting
    <2>3. CASE proc.config.udn # {}
      <3>1. toml' = toml /\ proc'.phase = "start"
        BY <1>2, <2>3 DEF BootEnsures, ConfigsTyped
      <3>2. QED
        BY <1>0, <2>1, <3>1
           DEF Order, FileInOrder, WritersInOrder, BootInOrder, CopiesInOrder, Agrees, HasCopy, IsWriting
    <2>4. QED
      BY <2>2, <2>3
  <1>3. CASE BootWrites
    <2>1. /\ announced' = announced /\ toml' = WholeFile(proc.config) /\ proc'.config = proc.config
          /\ proc'.phase \in {"ensure", "start"} /\ proc.phase \in {"create", "identity"}
      BY <1>3 DEF BootWrites, ConfigsTyped
    <2>2. announced = {} /\ Agrees(proc.config)
      BY <2>1 DEF Order, BootInOrder
    <2>3. toml'.state = "whole" /\ toml'.config = proc.config
      BY <2>1 DEF WholeFile
    <2>4. QED
      BY <1>0, <2>1, <2>2, <2>3
         DEF Order, FileInOrder, WritersInOrder, BootInOrder, CopiesInOrder, Agrees, HasCopy, IsWriting, WholeFile
  <1>4. CASE BootComesUp
    <2>1. /\ toml' = toml /\ proc.phase = "start" /\ announced' = announced \cup proc.config.udn
          /\ proc'.phase = "up" /\ proc'.config.udn = proc.config.udn
          /\ proc'.language = proc.config.language
      BY <1>4 DEF BootComesUp, ConfigsTyped, IsConfig
    <2>2. toml = WholeFile(proc.config) /\ proc.config.udn # {}
      BY <2>1 DEF FileOfBoot, BootRead
    <2>3. toml.state = "whole" /\ toml.config = proc.config
      BY <2>2 DEF WholeFile
    <2>4. Agrees(proc.config) /\ (announced = {} \/ announced = proc.config.udn)
      BY <2>3 DEF Order, FileInOrder
    <2>5. announced' = proc.config.udn /\ (announced = {} \/ announced' = announced)
      BY <2>1, <2>4
    <2>6. QED
      BY <1>0, <2>1, <2>2, <2>3, <2>4, <2>5
         DEF Order, FileInOrder, WritersInOrder, BootInOrder, CopiesInOrder, Agrees, HasCopy, IsWriting
  <1>5. QED
    BY <1>1, <1>2, <1>3, <1>4

LEMMA OrderOfExits ==
  ASSUME ConfigsTyped, Order, ~cut', ProcessExits
  PROVE  Order'
  <1>1. /\ toml' = toml /\ saves' = saves /\ announced' = announced /\ wished' = wished
        /\ toml.state # "empty" /\ proc'.phase = "down" /\ proc.phase # "down"
    BY DEF ProcessExits, ProcDown
  <1>2. \A p \in Pages : /\ ~IsWriting(p)'
                         /\ HasCopy(p)' => HasCopy(p) /\ work'[p] = work[p]
    BY DEF ProcessExits, NoWork, IsWriting, HasCopy
  <1>3. QED
    BY <1>1, <1>2 DEF Order, FileInOrder, WritersInOrder, BootInOrder, CopiesInOrder, Agrees

\* A page that reads: what it has is what is announced and wished, or is known
\* to be older than the next save.
LEMMA OrderOfReads ==
  ASSUME ConfigsTyped, Order, NEW p \in Pages, PageGets(p) \/ ApplyReads(p)
  PROVE  Order'
  <1>0. /\ UNCHANGED <<toml, proc, saves, announced, wished, cut, ordered>>
        /\ proc.phase = "up" /\ ~IsWriting(p) /\ DOMAIN work = Pages /\ saves \in Nat
    <2>1. saves \in Nat /\ DOMAIN work = Pages
      BY SettingsAssumption DEF ConfigsTyped, SettingsTypeOK
    <2>2. /\ UNCHANGED <<toml, proc, saves, announced, wished, cut, ordered>>
          /\ proc.phase = "up" /\ ~IsWriting(p)
      BY DEF PageGets, ApplyReads, IsWriting
    <2>3. QED
      BY <2>1, <2>2
  <1>1. PICK w : /\ work' = [work EXCEPT ![p] = w] /\ w.step # "write" /\ w.read = ReadNow
                 /\ w.config \in LoadConfig(toml) \/ (LoadConfig(toml) = {} /\ w.config = proc.config)
    BY PageJobs
  <1>2. /\ \A q \in Pages : IsWriting(q)' <=> IsWriting(q)
        /\ \A q \in Pages : q # p => work'[q] = work[q]
        /\ work'[p] = w
    BY <1>0, <1>1 DEF IsWriting
  <1>3. w.read = saves => \A q \in Pages : ~IsWriting(q)
    BY <1>0, <1>1 DEF ReadNow, IsWriting
  <1>4. w.read = saves => announced # {} /\ w.config.udn = announced /\ Agrees(w.config)
    <2>1. SUFFICES ASSUME w.read = saves
                   PROVE  announced # {} /\ w.config.udn = announced /\ Agrees(w.config)
      OBVIOUS
    <2>2. toml.state = "whole"
      BY <1>0, <1>3, <2>1 DEF Order, FileInOrder, ConfigsTyped, SettingsTypeOK
    <2>3. w.config = toml.config /\ announced # {}
      BY <1>0, <1>1, <2>2 DEF LoadConfig, Order, BootInOrder
    <2>4. QED
      BY <2>2, <2>3 DEF Order, FileInOrder
  <1>5. FileInOrder' /\ WritersInOrder' /\ BootInOrder'
    BY <1>0, <1>2 DEF Order, FileInOrder, WritersInOrder, BootInOrder, Agrees, WholeFile
  <1>6. CopiesInOrder'
    BY <1>0, <1>2, <1>4 DEF Order, CopiesInOrder, Agrees, IsWriting, HasCopy
  <1>7. QED
    BY <1>5, <1>6 DEF Order

\* A save of a copy that is not stale is the only one at work.
LEMMA OrderOfSaves ==
  ASSUME ConfigsTyped, FileOfBoot, Order, ordered', NEW p \in Pages, PagePuts(p) \/ ApplyScans(p)
  PROVE  Order'
  <1>0. /\ UNCHANGED <<proc, announced, wished, cut>> /\ HasCopy(p) /\ proc.phase = "up"
        /\ DOMAIN work = Pages /\ saves \in Nat
        /\ \A q \in Pages : work[q].read \in Int /\ work[q].read <= saves
    <2>1. /\ saves \in Nat /\ DOMAIN work = Pages
          /\ \A q \in Pages : work[q].read \in Int /\ work[q].read <= saves
      BY SettingsAssumption DEF ConfigsTyped, SettingsTypeOK, IsWork
    <2>2. UNCHANGED <<proc, announced, wished, cut>> /\ HasCopy(p) /\ proc.phase = "up"
      BY DEF PagePuts, ApplyScans, HasCopy
    <2>3. QED
      BY <2>1, <2>2
  <1>1. PICK w :
          /\ work' = [work EXCEPT ![p] = w]
          /\ \/ w.step = "idle" /\ saves' = saves /\ toml' = toml
             \/ /\ w.step = "write" /\ saves' = saves + 1 /\ toml' = CutFile /\ work[p].read = saves
                /\ w.config.udn = work[p].config.udn
                /\ w.kind = "put" \/ (/\ w.config.language = work[p].config.language
                                      /\ w.config.hw_accel = work[p].config.hw_accel)
    <2>1. CASE PagePuts(p)
      BY <2>1, PageJobs
    <2>2. CASE ApplyScans(p)
      BY <2>2, ScanJob
    <2>3. QED
      BY <2>1, <2>2
  <1>2. work'[p] = w /\ \A q \in Pages : q # p => work'[q] = work[q]
    BY <1>0, <1>1
  <1>3. CASE w.step = "idle" /\ saves' = saves /\ toml' = toml
    <2>1. \A q \in Pages : /\ IsWriting(q)' <=> IsWriting(q)
                           /\ HasCopy(q)' => q # p /\ HasCopy(q)
      BY <1>0, <1>2, <1>3 DEF IsWriting, HasCopy
    <2>2. FileInOrder' /\ WritersInOrder' /\ BootInOrder'
      BY <1>0, <1>3, <2>1 DEF Order, FileInOrder, WritersInOrder, BootInOrder, Agrees, WholeFile
    <2>3. CopiesInOrder'
      <3>1. \A q \in Pages : IsWriting(q)' => q # p
        BY <1>2, <1>3 DEF IsWriting
      <3>2. QED
        BY <1>0, <1>2, <1>3, <2>1, <3>1 DEF Order, CopiesInOrder, Agrees
    <2>4. QED
      BY <2>2, <2>3 DEF Order
  <1>4. CASE w.step = "write"
    <2>1. /\ saves' = saves + 1 /\ toml'.state = "empty" /\ work[p].read = saves
          /\ w.config.udn = work[p].config.udn
      BY <1>1, <1>4 DEF CutFile, ConfigsTyped
    <2>2. \A q \in Pages : ~IsWriting(q)
      BY <1>0, <2>1 DEF FileOfBoot, CopiesKnown
    <2>3. \A q \in Pages : /\ IsWriting(q)' <=> q = p
                           /\ HasCopy(q)' => work'[q].read # saves'
      <3>1. \A q \in Pages : IsWriting(q)' <=> q = p
        BY <1>2, <1>4, <2>2 DEF IsWriting
      <3>2. \A q \in Pages : q # p => work'[q].read # saves'
        BY <1>0, <1>2, <2>1
      <3>3. ~HasCopy(p)'
        BY <1>2, <1>4 DEF HasCopy
      <3>4. QED
        BY <3>1, <3>2, <3>3
    <2>4. FileInOrder' /\ WritersInOrder' /\ BootInOrder'
      BY <1>0, <2>1, <2>3 DEF Order, FileInOrder, WritersInOrder, BootInOrder, Agrees
    <2>5. announced # {} /\ work[p].config.udn = announced /\ Agrees(work[p].config)
      BY <1>0, <2>1, <2>2 DEF Order, CopiesInOrder
    <2>6. CopiesInOrder'
      BY <1>0, <1>1, <1>2, <1>4, <2>1, <2>3, <2>5 DEF CopiesInOrder, Agrees
    <2>7. QED
      BY <2>4, <2>6 DEF Order
  <1>5. QED
    BY <1>1, <1>3, <1>4

\* The only writer writes to a file that is empty.
LEMMA OrderOfWrites ==
  ASSUME ConfigsTyped, FileOfBoot, Order, NEW p \in Pages, PageSaves(p)
  PROVE  Order'
  <1>0. /\ IsWriting(p) /\ proc.phase = "up" /\ UNCHANGED <<announced, saves, cut, ordered>>
        /\ work' = [work EXCEPT ![p] = NoWork] /\ DOMAIN work = Pages
    BY DEF PageSaves, IsWriting, ConfigsTyped
  <1>1. toml.state = "empty" /\ \A q \in Pages : IsWriting(q) => q = p
    BY <1>0 DEF Order, WritersInOrder
  <1>2. toml'.state = "whole" /\ toml'.config = work[p].config
    BY <1>1 DEF PageSaves, WholeFile
  <1>3. /\ announced # {} /\ work[p].config.udn = announced
        /\ work[p].kind = "put" \/ Agrees(work[p].config)
    BY <1>0 DEF Order, CopiesInOrder
  <1>4. \A q \in Pages : /\ ~IsWriting(q)'
                         /\ HasCopy(q)' => work'[q].read # saves'
    BY <1>0, <1>1 DEF IsWriting, HasCopy, NoWork, FileOfBoot, CopiesKnown
  <1>5. /\ proc'.phase = "up" /\ proc'.config = proc.config
        /\ proc'.language = wished'.language
        /\ work[p].config.language = wished'.language /\ work[p].config.hw_accel = wished'.hw_accel
    <2>1. proc.language = wished.language
      BY <1>0 DEF Order, BootInOrder
    <2>2. CASE work[p].kind = "put"
      BY <1>0, <2>2 DEF PageSaves, ConfigsTyped
    <2>3. CASE work[p].kind # "put"
      BY <1>0, <1>3, <2>1, <2>3 DEF PageSaves, Agrees
    <2>4. QED
      BY <2>2, <2>3
  <1>6. FileInOrder' /\ WritersInOrder'
    BY <1>2, <1>3, <1>0, <1>4, <1>5 DEF FileInOrder, WritersInOrder, Agrees
  <1>7. BootInOrder'
    BY <1>0, <1>5 DEF Order, BootInOrder
  <1>8. CopiesInOrder'
    BY <1>4 DEF CopiesInOrder
  <1>9. QED
    BY <1>6, <1>7, <1>8 DEF Order

LEMMA OrderlyStep ==
  ASSUME ConfigsTyped, FileOfBoot, Orderly, [SettingsNext]_settingsVars
  PROVE  Orderly'
  <1>1. SUFFICES ASSUME ordered', ~cut'
                 PROVE  Order'
    BY DEF Orderly
  <1>2. ordered /\ ~cut
    <2>1. CASE BootLoads \/ BootEnsures \/ BootWrites \/ BootComesUp \/ ProcessExits \/ UNCHANGED settingsVars
      <3>1. ordered' = ordered /\ (cut' = cut \/ cut' = (cut \/ toml.state = "empty"))
        BY <2>1, Zenon DEF BootLoads, BootEnsures, BootWrites, BootComesUp, ProcessExits, settingsVars
      <3>2. CASE cut' = (cut \/ toml.state = "empty")
        BY <1>1, <3>1, <3>2, Zenon
      <3>3. QED
        BY <1>1, <3>1, <3>2
    <2>2. ASSUME NEW p \in Pages, PagePuts(p) \/ ApplyScans(p)
          PROVE  ordered /\ ~cut
      <3>1. ordered' = ordered \/ ordered' = (ordered /\ work[p].read = saves)
        BY <2>2, PageJobs, ScanJob
      <3>2. cut' = cut
        BY <2>2 DEF PagePuts, ApplyScans
      <3>3. QED
        BY <1>1, <3>1, <3>2
    <2>3. ASSUME NEW p \in Pages, PageGets(p) \/ ApplyReads(p) \/ PageSaves(p) \/ SaveFails(p)
          PROVE  ordered /\ ~cut
      <3>1. ordered' = ordered /\ (cut' = cut \/ cut' = TRUE)
        BY <2>3, Zenon DEF PageGets, ApplyReads, PageSaves, SaveFails
      <3>2. QED
        BY <1>1, <3>1
    <2>4. QED
      BY <2>1, <2>2, <2>3 DEF SettingsNext
  <1>3. Order
    BY <1>1, <1>2 DEF Orderly
  <1>4. CASE UNCHANGED settingsVars
    BY <1>3, <1>4 DEF settingsVars, Order, FileInOrder, WritersInOrder, BootInOrder, CopiesInOrder,
                      Agrees, IsWriting, HasCopy, WholeFile
  <1>5. ASSUME NEW p \in Pages, SaveFails(p)
        PROVE  FALSE
    BY <1>1, <1>5 DEF SaveFails
  <1>6. QED
    BY <1>1, <1>3, <1>4, <1>5, OrderOfBoot, OrderOfExits, OrderOfReads, OrderOfSaves, OrderOfWrites
       DEF SettingsNext

\* What the page reports as waiting for a restart is what a restart would change.
LEMMA RunningIsPending == ConfigsTyped /\ FileOfBoot => PendingIsTrue
  <1>1. SUFFICES ASSUME ConfigsTyped, FileOfBoot, proc.phase = "up", toml.state = "whole"
                 PROVE  /\ saves = proc.saves /\ ~cut => AwaitsRestart(toml.config) = {}
                        /\ AwaitsRestart(toml.config) \subseteq {"language"} =>
                             LET ffmpeg == ResolveTool(machine, toml.config.ffmpeg)
                             IN /\ [toml.config EXCEPT !.ffmpeg = ffmpeg, !.language = proc.config.language]
                                     = proc.config
                                /\ Detect(machine, ffmpeg, toml.config.hw_accel) = proc.hw
    BY DEF PendingIsTrue
  <1>2. PICK b, c : b = proc.boot /\ c = toml.config
    OBVIOUS
  <1>3. PICK f : f = ResolveTool(machine, b.ffmpeg)
    OBVIOUS
  <1>4. /\ proc.config = [b EXCEPT !.ffmpeg = f]
        /\ proc.hw = Detect(machine, proc.config.ffmpeg, proc.config.hw_accel)
        /\ saves = proc.saves => toml = WholeFile(b)
    BY <1>1, <1>2, <1>3 DEF FileOfBoot, RunsTheFile
  <1>5. IsConfig(b) /\ IsConfig(c)
    BY <1>1, <1>2 DEF ConfigsTyped
  <1>6. saves = proc.saves => AwaitsRestart(c) = {}
    BY <1>2, <1>4 DEF AwaitsRestart, WholeFile
  <1>7. ASSUME AwaitsRestart(c) \subseteq {"language"}
        PROVE  /\ [c EXCEPT !.ffmpeg = f, !.language = proc.config.language] = proc.config
               /\ c.ffmpeg = b.ffmpeg /\ Detect(machine, f, c.hw_accel) = proc.hw
    <2>1. \A k \in DOMAIN c : k # "language" => c[k] = b[k]
      BY <1>2, <1>7 DEF AwaitsRestart
    <2>2. DOMAIN c = {"udn", "language", "hw_accel", "ffmpeg", "mode", "encoder", "threads", "max_concurrent"}
      BY <1>5 DEF IsConfig
    <2>3. /\ c.udn = b.udn /\ c.hw_accel = b.hw_accel /\ c.ffmpeg = b.ffmpeg /\ c.mode = b.mode
          /\ c.encoder = b.encoder /\ c.threads = b.threads /\ c.max_concurrent = b.max_concurrent
      BY <2>1, <2>2
    <2>4. proc.config.language = b.language /\ proc.config.ffmpeg = f /\ proc.config.hw_accel = b.hw_accel
      BY <1>4, <1>5 DEF IsConfig
    <2>5. [c EXCEPT !.ffmpeg = f, !.language = b.language] = [b EXCEPT !.ffmpeg = f]
      BY <1>5, <2>3 DEF IsConfig
    <2>6. QED
      BY <1>4, <2>3, <2>4, <2>5
  <1>8. QED
    BY <1>2, <1>3, <1>6, <1>7

LEMMA OneIdentity == ConfigsTyped /\ Orderly => UdnKept
  <1>1. SUFFICES ASSUME ConfigsTyped, Order
                 PROVE  Cardinality(announced) <= 1
    BY DEF Orderly, UdnKept
  <1>2. announced = {} \/ \E n : announced = {n}
    <2>1. CASE toml.state = "whole"
      BY <1>1, <2>1 DEF Order, FileInOrder, ConfigsTyped, IsConfig
    <2>2. CASE toml.state = "empty"
      <3>1. CASE \E p \in Pages : IsWriting(p)
        BY <1>1, <3>1 DEF Order, CopiesInOrder, ConfigsTyped, IsWork, IsConfig
      <3>2. QED
        BY <1>1, <2>2, <3>1 DEF Order, FileInOrder, BootInOrder
    <2>3. QED
      BY <1>1, <2>1, <2>2 DEF Order, FileInOrder, ConfigsTyped, SettingsTypeOK
  <1>3. CASE announced = {}
    BY <1>3, FS_EmptySet
  <1>4. ASSUME NEW n, announced = {n}
        PROVE  Cardinality(announced) <= 1
    <2>1. Cardinality({n}) = 1
      BY FS_Singleton
    <2>2. QED
      BY <1>4, <2>1
  <1>5. QED
    BY <1>2, <1>3, <1>4

\* The identity, the edits, the list of what waits and the recommended encoder
\* are right, as far as no save was cut off or of a stale copy (settings.rs,
\* transcode.rs, device.rs, scan.rs).
THEOREM SettingsStand == SettingsSpec => []SettingsInv
  <1> DEFINE Holds == ConfigsTyped /\ FileOfBoot /\ Orderly /\ RecommendationSound
  <1>1. SettingsInit => Holds
    <2>1. SUFFICES ASSUME SettingsInit
                   PROVE  Holds
      OBVIOUS
    <2>2. /\ 0 \in 0 .. MaxSaves /\ 0 \in 0 .. MaxBoots
      BY SettingsAssumption
    <2>3. IsWork(NoWork, 0)
      BY ConfigFacts DEF IsWork, NoWork, AskedModes
    <2>4. ConfigsTyped
      BY <2>1, <2>2, <2>3, ConfigFacts
         DEF SettingsInit, ConfigsTyped, SettingsTypeOK, ProcDown, NoWork
    <2>5. FileOfBoot
      BY <2>1 DEF SettingsInit, FileOfBoot, ServedWhileUp, CopiesKnown, BootRead, RunsTheFile, ProcDown,
                  NoWork, IsWriting, HasCopy
    <2>6. Orderly
      BY <2>1 DEF SettingsInit, Orderly, Order, FileInOrder, WritersInOrder, BootInOrder, CopiesInOrder,
                  Agrees, ProcDown, DefaultConfig, NoWork, IsWriting, HasCopy
    <2>7. RecommendationSound
      BY <2>1, JobsAreSound DEF SettingsInit, NoWork, SoundJob
    <2>8. QED
      BY <2>4, <2>5, <2>6, <2>7
  <1>2. Holds /\ [SettingsNext]_settingsVars => Holds'
    BY ConfigsStayTyped, ServedStep, CopiesStep, BootReadStep, RunsStep, OrderlyStep, SoundStep
       DEF FileOfBoot
  <1>3. Holds => SettingsInv
    <2>1. ConfigsTyped /\ Orderly => EditsKept
      BY DEF Orderly, Order, FileInOrder, BootInOrder, Agrees, EditsKept
    <2>2. QED
      BY <2>1, RunningIsPending, OneIdentity DEF ConfigsTyped, SettingsInv
  <1>4. QED
    BY <1>1, <1>2, <1>3, PTL DEF SettingsSpec

-----------------------------------------------------------------------------
(* Posters: the shape of rows and passes.                                  *)

AtHead == {"resolve", "byId", "byTitle", "write", "none"}
InQueue == AtHead \cup {"look"}
Forgets == {"clear", "clear again", "remove", "remove again"}
Removes == {"remove", "remove again"}

QueueShape(q) ==
  /\ q \in Seq(ToSet(q))
  /\ \A k, l \in DOMAIN q : k < l => q[k].id < q[l].id
  /\ \A x \in ToSet(q) : x.id \in Nat
PassShape(p) ==
  /\ DOMAIN p = {"step", "mark", "queue", "cursor", "solved", "record", "gone", "scopes"}
  /\ p.mark \in BOOLEAN /\ p.cursor \in Nat /\ {} \notin p.solved
  /\ p.step \in {"idle", "batch", "forget"} \cup Forgets \cup InQueue
  /\ p.step = "forget" => p.mark /\ p.cursor = 0 /\ p.solved = {}
  /\ p.step \in InQueue <=> p.queue # <<>>
  /\ QueueShape(p.queue)
  /\ p.step \in AtHead => Series(Head(p.queue).film) \notin p.solved
RowShape(r, n) ==
  /\ DOMAIN r = {"film", "file", "tried", "due"}
  /\ r.film \in DOMAIN Titles /\ r.tried \in BOOLEAN /\ r.due \in 0 .. n
Shape ==
  /\ refreshes \in Nat /\ calm \in BOOLEAN
  /\ IsFiniteSet(DOMAIN posters) /\ DOMAIN posters \subseteq Nat \ {0}
  /\ \A i \in DOMAIN posters : RowShape(posters[i], refreshes)
  /\ DOMAIN pass = Workers /\ \A w \in Workers : PassShape(pass[w])

LEMMA EmptyQueue == QueueShape(<<>>) /\ ToSet(<<>>) = {}
  BY DEF QueueShape, ToSet

LEMMA QueueFacts ==
  ASSUME NEW q, QueueShape(q), q # <<>>
  PROVE  /\ QueueShape(Tail(q)) /\ Head(q) \in ToSet(q)
         /\ ToSet(q) = {Head(q)} \cup ToSet(Tail(q))
         /\ \A x \in ToSet(Tail(q)) : Head(q).id < x.id
         /\ Tail(q) = <<>> <=> Len(q) = 1
  <1>1. PICK n : n = Len(q)
    OBVIOUS
  <1>2. n \in Nat \ {0} /\ DOMAIN q = 1 .. n /\ q \in Seq(ToSet(q))
    BY <1>1 DEF QueueShape
  <1>3. PICK t : t = Tail(q)
    OBVIOUS
  <1>4. /\ t \in Seq(ToSet(q)) /\ Len(t) = n - 1 /\ DOMAIN t = 1 .. (n - 1)
        /\ \A k \in 1 .. (n - 1) : t[k] = q[k + 1]
    BY <1>1, <1>2, <1>3
  <1>5. Head(q) = q[1]
    BY <1>2
  <1>6. t \in Seq(ToSet(t))
    <2>1. t = [k \in 1 .. (n - 1) |-> t[k]]
      BY <1>4
    <2>2. ToSet(t) = {t[k] : k \in 1 .. (n - 1)}
      BY <1>4 DEF ToSet
    <2>3. n - 1 \in Nat
      BY <1>2
    <2> QED
      BY <2>1, <2>2, <2>3
  <1>7. ToSet(q) = {q[1]} \cup ToSet(t)
    <2>1. \A k \in 1 .. n : k = 1 \/ (k - 1 \in 1 .. (n - 1) /\ q[k] = t[k - 1])
      BY <1>2, <1>4
    <2>2. \A k \in 1 .. (n - 1) : k + 1 \in 1 .. n
      BY <1>2
    <2>3. ToSet(q) \subseteq {q[1]} \cup ToSet(t)
      <3>1. ToSet(q) = {q[k] : k \in 1 .. n} /\ ToSet(t) = {t[k] : k \in 1 .. (n - 1)}
        BY <1>2, <1>4 DEF ToSet
      <3> QED
        BY <2>1, <3>1
    <2>4. 1 \in 1 .. n
      BY <1>2
    <2>5. {q[1]} \cup ToSet(t) \subseteq ToSet(q)
      BY <1>2, <1>4, <2>2, <2>4 DEF ToSet
    <2> QED
      BY <2>3, <2>5
  <1>8. \A k \in 1 .. (n - 1) : k + 1 \in DOMAIN q /\ 1 \in DOMAIN q /\ 1 < k + 1
    BY <1>2
  <1>9. \A x \in ToSet(t) : q[1].id < x.id
    <2> SUFFICES ASSUME NEW x \in ToSet(t) PROVE q[1].id < x.id
      OBVIOUS
    <2>1. PICK k \in 1 .. (n - 1) : x = q[k + 1]
      BY <1>4 DEF ToSet
    <2> QED
      BY <1>8, <2>1 DEF QueueShape
  <1>10. \A k, l \in DOMAIN t : k < l => t[k].id < t[l].id
    <2> SUFFICES ASSUME NEW k \in DOMAIN t, NEW l \in DOMAIN t, k < l PROVE t[k].id < t[l].id
      OBVIOUS
    <2>1. k + 1 \in DOMAIN q /\ l + 1 \in DOMAIN q /\ k + 1 < l + 1
      BY <1>2, <1>4
    <2>2. q[k + 1].id < q[l + 1].id
      BY <2>1 DEF QueueShape
    <2> QED
      BY <1>4, <2>2
  <1>11. \A x \in ToSet(t) : x.id \in Nat
    BY <1>7 DEF QueueShape
  <1>12. t = <<>> <=> n = 1
    BY <1>2, <1>4
  <1> QED
    BY <1>1, <1>3, <1>5, <1>6, <1>7, <1>9, <1>10, <1>11, <1>12 DEF QueueShape

LEMMA IdleFacts ==
  /\ PassShape(Idle) /\ Idle.step = "idle" /\ Idle.queue = <<>> /\ Idle.cursor = 0
  /\ \A stage \in {"batch"} \cup Forgets, mark \in BOOLEAN :
        LET p == [Idle EXCEPT !.step = stage, !.mark = mark]
        IN  PassShape(p) /\ p.step = stage /\ p.mark = mark /\ p.queue = <<>> /\ p.cursor = 0 /\ p.solved = {}
  <1>1. QueueShape(<<>>)
    BY EmptyQueue
  <1> QED
    BY <1>1 DEF Idle, PassShape, Forgets, InQueue, AtHead

LEMMA GoesFacts ==
  ASSUME Shape, NEW w \in Workers, NEW p, Goes(w, p)
  PROVE  DOMAIN pass' = Workers /\ pass'[w] = p /\ \A v \in Workers \ {w} : pass'[v] = pass[v]
BY DEF Goes, Shape

\* The pass of one worker goes on; rows and pictures stay as they are.
LEMMA ShapeGoes ==
  ASSUME Shape, NEW w \in Workers, NEW p, Goes(w, p), PassShape(p), UNCHANGED <<posters, refreshes, calm>>
  PROVE  Shape'
  <1>1. DOMAIN pass' = Workers /\ \A v \in Workers : PassShape(pass'[v])
    BY GoesFacts DEF Shape
  <1> QED
    BY <1>1 DEF Shape

LEMMA TurnsFacts ==
  ASSUME Shape, NEW w \in Workers, NEW stage, NEW record, Turns(w, stage, record),
         pass[w].step \in InQueue, stage \in AtHead, Series(Head1(w).film) \notin pass[w].solved,
         NEW p, p = pass'[w]
  PROVE  /\ Goes(w, p) /\ PassShape(p) /\ p.step = stage /\ p.record = record
         /\ p.queue = pass[w].queue /\ p.cursor = pass[w].cursor /\ p.solved = pass[w].solved
         /\ p.mark = pass[w].mark /\ p.gone = pass[w].gone
  <1>1. Goes(w, [pass[w] EXCEPT !.step = stage, !.record = record])
    BY DEF Turns
  <1>2. p = [pass[w] EXCEPT !.step = stage, !.record = record]
    BY <1>1, GoesFacts
  <1>3. PassShape(pass[w])
    BY DEF Shape
  <1>4. DOMAIN pass[w] = {"step", "mark", "queue", "cursor", "solved", "record", "gone", "scopes"}
    BY <1>3 DEF PassShape
  <1>5. /\ DOMAIN p = DOMAIN pass[w] /\ p.step = stage /\ p.record = record
        /\ p.queue = pass[w].queue /\ p.cursor = pass[w].cursor /\ p.solved = pass[w].solved
        /\ p.mark = pass[w].mark /\ p.gone = pass[w].gone
    BY <1>2, <1>4
  <1>6. PassShape(p)
    BY <1>3, <1>5 DEF PassShape, InQueue, AtHead, Head1
  <1> QED
    BY <1>1, <1>2, <1>5, <1>6

LEMMA AdvancedFacts ==
  ASSUME Shape, NEW w \in Workers, pass[w].step \in InQueue, NEW p, p = Advanced(w)
  PROVE  /\ PassShape(p) /\ p.step \in {"batch", "look"} /\ p.mark = pass[w].mark
         /\ p.queue = Tail(pass[w].queue) /\ p.cursor = Head1(w).id
         /\ p.solved = (pass[w].solved \cup {Series(Head1(w).film)}) \ {{}}
  <1>1. PassShape(pass[w])
    BY DEF Shape
  <1>2. PICK q : q = pass[w].queue
    OBVIOUS
  <1>3. QueueShape(q) /\ q # <<>>
    BY <1>1, <1>2 DEF PassShape
  <1>4. QueueShape(Tail(q)) /\ Head(q) \in ToSet(q) /\ (Tail(q) = <<>> <=> Len(q) = 1)
    BY <1>3, QueueFacts
  <1>5. DOMAIN pass[w] = {"step", "mark", "queue", "cursor", "solved", "record", "gone", "scopes"}
    BY <1>1 DEF PassShape
  <1>6. /\ DOMAIN p = DOMAIN pass[w] /\ p.mark = pass[w].mark /\ p.queue = Tail(q)
        /\ p.cursor = Head(q).id /\ p.solved = (pass[w].solved \cup {Series(Head(q).film)}) \ {{}}
        /\ p.step = (IF Len(q) = 1 THEN "batch" ELSE "look")
    BY <1>2, <1>5 DEF Advanced, Head1
  <1>7. Head(q).id \in Nat
    BY <1>3, <1>4 DEF QueueShape
  <1>8. p.step \in InQueue <=> p.queue # <<>>
    BY <1>4, <1>6 DEF InQueue, AtHead
  <1>9. PassShape(p)
    BY <1>1, <1>4, <1>5, <1>6, <1>7, <1>8 DEF PassShape, InQueue, AtHead
  <1> QED
    BY <1>2, <1>6, <1>9 DEF Head1

-----------------------------------------------------------------------------
(* Posters: an id means one film, in rows, in the cache and in queues.     *)

Means(i, film) ==
  \/ i \in DOMAIN posters /\ posters[i].film = film
  \/ i \in DOMAIN art /\ art[i].sought = film
  \/ \E w \in Workers : \E q \in ToSet(pass[w].queue) : q.id = i /\ q.film = film
Kin(film, other) == film = other \/ (Series(film) # {} /\ Series(film) = Series(other))
OneFilm ==
  \A i, film : Means(i, film) => film \in DOMAIN Titles /\ \A other : Means(i, other) => film = other
FilesOfKin ==
  \A i \in DOMAIN posters : \A f \in posters[i].file : \A film : Means(f, film) => Kin(film, posters[i].film)
Meaning == OneFilm /\ FilesOfKin /\ PosterTypeOK /\ OneSeriesOnePoster

LEMMA PicturesAreSoughtForIt == Meaning => SoughtForIt
  <1> SUFFICES ASSUME Meaning, NEW i \in DOMAIN posters, NEW picture \in Served(i)
               PROVE  \/ picture.sought = posters[i].film
                      \/ Series(posters[i].film) # {} /\ Series(picture.sought) = Series(posters[i].film)
    BY DEF SoughtForIt
  <1>1. PICK f \in posters[i].file \cap DOMAIN art : picture = art[f]
    BY DEF Served
  <1>2. Means(f, picture.sought)
    BY <1>1 DEF Means
  <1> QED
    BY <1>1, <1>2 DEF Meaning, FilesOfKin, Kin

\* Rows that keep their film and their picture, or lose it, mean what they did.
LEMMA MeaningKept ==
  ASSUME Meaning, \A i, film : Means(i, film)' => Means(i, film),
         DOMAIN posters' \subseteq DOMAIN posters,
         \A i \in DOMAIN posters' :
            /\ posters'[i].film = posters[i].film
            /\ \/ posters'[i].file = posters[i].file /\ posters'[i].tried = posters[i].tried
               \/ posters'[i].file = {}
  PROVE  Meaning'
  <1>1. OneFilm'
    BY DEF Meaning, OneFilm
  <1>2. FilesOfKin'
    <2> SUFFICES ASSUME NEW i \in DOMAIN posters', NEW f \in posters'[i].file, NEW film, Means(f, film)'
                 PROVE  Kin(film, posters'[i].film)
      BY DEF FilesOfKin, Kin
    <2>1. f \in posters[i].file /\ Means(f, film) /\ i \in DOMAIN posters
      OBVIOUS
    <2> QED
      BY <2>1 DEF Meaning, FilesOfKin
  <1>3. PosterTypeOK'
    BY DEF Meaning, PosterTypeOK, HasArt
  <1>4. OneSeriesOnePoster'
    BY DEF Meaning, OneSeriesOnePoster, HasArt, Series
  <1> QED
    BY <1>1, <1>2, <1>3, <1>4 DEF Meaning

\* A worker takes nothing into its queue that is no row, and what it stores is
\* for the film in its queue.
LEMMA MeansGoes ==
  ASSUME Shape, NEW w \in Workers, NEW p, Goes(w, p),
         \A q \in ToSet(p.queue) : \/ q \in ToSet(pass[w].queue)
                                   \/ q.id \in DOMAIN posters /\ posters[q.id].film = q.film,
         \A i \in DOMAIN art' : \/ i \in DOMAIN art /\ art'[i].sought = art[i].sought
                                \/ \E q \in ToSet(pass[w].queue) : q.id = i /\ q.film = art'[i].sought,
         DOMAIN posters' \subseteq DOMAIN posters,
         \A i \in DOMAIN posters' : posters'[i].film = posters[i].film
  PROVE  \A i, film : Means(i, film)' => Means(i, film)
  <1> SUFFICES ASSUME NEW i, NEW film, Means(i, film)' PROVE Means(i, film)
    OBVIOUS
  <1>1. pass'[w] = p /\ \A v \in Workers \ {w} : pass'[v] = pass[v]
    BY GoesFacts
  <1>2. CASE i \in DOMAIN posters' /\ posters'[i].film = film
    BY <1>2 DEF Means
  <1>3. CASE i \in DOMAIN art' /\ art'[i].sought = film
    BY <1>3 DEF Means
  <1>4. ASSUME NEW v \in Workers, NEW q \in ToSet(pass'[v].queue), q.id = i, q.film = film
        PROVE  Means(i, film)
    <2>1. CASE v = w
      <3>1. q \in ToSet(p.queue)
        BY <1>1, <1>4, <2>1
      <3> QED
        BY <1>4, <3>1 DEF Means
    <2>2. CASE v # w
      <3>1. q \in ToSet(pass[v].queue)
        BY <1>1, <1>4, <2>2
      <3> QED
        BY <1>4, <3>1 DEF Means
    <2> QED
      BY <2>1, <2>2
  <1> QED
    BY <1>2, <1>3, <1>4 DEF Means

-----------------------------------------------------------------------------
(* Posters: what holds while passes neither overlapped nor were cut off.   *)

Waits(i) == posters[i].file = {} /\ ~posters[i].tried
Alone == \A v, w \in Workers : pass[v].step # "idle" /\ pass[w].step # "idle" => v = w
\* A row that waits has a picture only while that is written or removed.
NoOldPicture ==
  \A i \in DOMAIN posters : Waits(i) /\ i \in DOMAIN art =>
     \E w \in Workers : \/ pass[w].step = "write" /\ Head1(w).id = i
                        \/ pass[w].step \in Removes /\ i \in pass[w].gone
\* What is still to be forgotten is a row, or no row shows it.
SafeToForget(w) ==
  pass[w].step = "forget" =>
     \A id \in pass[w].gone \ DOMAIN posters : \A i \in DOMAIN posters : id \notin posters[i].file
Emptied ==
  \A w \in Workers : /\ pass[w].step \in Removes => \A i \in DOMAIN posters : posters[i].file = {}
                     /\ SafeToForget(w)
\* Rows in a queue wait, or an episode of their series has been looked up.
StillWaits ==
  \A w \in Workers : \A q \in ToSet(pass[w].queue) :
     /\ q.id \in DOMAIN posters => Waits(q.id) \/ Series(q.film) \in pass[w].solved
     /\ Series(q.film) # {} => q.id \in DOMAIN posters
JustFetched ==
  \A w \in Workers : pass[w].step = "write" =>
     /\ Head1(w).id \in DOMAIN art
     /\ Head1(w).id \in DOMAIN posters => art[Head1(w).id].refresh = refreshes
\* A pass that marks has a row before it.
Ahead(w, j) ==
  \/ \E q \in ToSet(pass[w].queue) : q.id = j
  \/ j > pass[w].cursor /\ \A q \in ToSet(pass[w].queue) : q.id < j
\* Another episode of the series will give row i its picture.
Mends(w, i) ==
  /\ pass[w].mark /\ pass[w].step # "idle"
  /\ \E j \in DOMAIN posters :
        /\ Series(posters[j].film) # {} /\ Series(posters[j].film) = Series(posters[i].film)
        /\ Waits(j) /\ Series(posters[j].film) \notin pass[w].solved /\ Ahead(w, j)
ToldOrMended ==
  \A i \in DOMAIN posters : HasArt(i) => Served(i) # {} \/ \E w \in Workers : Mends(w, i)
NoneOlder ==
  \A i \in DOMAIN posters : \A f \in posters[i].file \cap DOMAIN art : art[f].refresh >= posters[i].due
CalmState == Alone /\ NoOldPicture /\ Emptied /\ StillWaits /\ JustFetched /\ ToldOrMended /\ NoneOlder
PictureIInv == Shape /\ Meaning /\ (calm => CalmState) /\ RememberedMatches

LEMMA PicturesAreRight == PictureIInv => PostersInv
  <1> SUFFICES ASSUME PictureIInv PROVE PostersInv
    OBVIOUS
  <1>1. ToldIsThere
    BY DEF PictureIInv, CalmState, ToldOrMended, Mends, ToldIsThere, Quiet
  <1>2. RefreshIsFresh
    BY DEF PictureIInv, CalmState, NoneOlder, RefreshIsFresh, Served
  <1> QED
    BY <1>1, <1>2, PicturesAreSoughtForIt DEF PictureIInv, Meaning, PostersInv

-----------------------------------------------------------------------------
(* Posters: a row at the head of a queue.                                  *)

\* The row that is looked up waits, and its picture is not in the cache.
LEMMA HeadFacts ==
  ASSUME PictureIInv, NEW w \in Workers, pass[w].step \in InQueue
  PROVE  /\ QueueShape(pass[w].queue) /\ pass[w].queue # <<>> /\ Head1(w) \in ToSet(pass[w].queue)
         /\ Means(Head1(w).id, Head1(w).film) /\ Head1(w).film \in DOMAIN Titles
         /\ pass[w].step \in AtHead => Series(Head1(w).film) \notin pass[w].solved
  <1>1. PassShape(pass[w])
    BY DEF PictureIInv, Shape
  <1>2. QueueShape(pass[w].queue) /\ pass[w].queue # <<>>
    BY <1>1 DEF PassShape
  <1>3. Head1(w) \in ToSet(pass[w].queue)
    BY <1>2, QueueFacts DEF Head1
  <1>4. Means(Head1(w).id, Head1(w).film)
    BY <1>3 DEF Means
  <1>5. Head1(w).film \in DOMAIN Titles
    BY <1>4 DEF PictureIInv, Meaning, OneFilm
  <1> QED
    BY <1>1, <1>2, <1>3, <1>4, <1>5 DEF PassShape, Head1

LEMMA HeadIsNew ==
  ASSUME PictureIInv, calm, NEW w \in Workers, pass[w].step \in InQueue \ {"write"},
         Series(Head1(w).film) \notin pass[w].solved, Head1(w).id \in DOMAIN posters
  PROVE  Waits(Head1(w).id) /\ Head1(w).id \notin DOMAIN art
  <1>1. Waits(Head1(w).id)
    BY HeadFacts DEF PictureIInv, CalmState, StillWaits
  <1>2. Head1(w).id \notin DOMAIN art
    <2> SUFFICES ASSUME Head1(w).id \in DOMAIN art PROVE FALSE
      OBVIOUS
    <2>1. PICK v \in Workers : pass[v].step = "write" \/ pass[v].step \in Removes
      BY <1>1 DEF PictureIInv, CalmState, NoOldPicture
    <2>2. v = w
      BY <2>1 DEF PictureIInv, CalmState, Alone, InQueue, AtHead, Removes
    <2> QED
      BY <2>1, <2>2 DEF InQueue, AtHead, Removes
  <1> QED
    BY <1>1, <1>2

LEMMA TurnsKeeps ==
  ASSUME PictureIInv, NEW w \in Workers, NEW stage, NEW record, Turns(w, stage, record),
         pass[w].step \in InQueue \ {"write"}, stage \in AtHead, Series(Head1(w).film) \notin pass[w].solved,
         UNCHANGED <<posters, art, refreshes, calm>>,
         stage = "write" => Head1(w).id \in DOMAIN art,
         stage = "byId" => \A h \in record : \A y \in Guess[Head1(w).film].year : \A z \in h.year : Apart(y, z) <= 2
  PROVE  PictureIInv'
  <1>1. Shape
    BY DEF PictureIInv
  <1>2. PICK p : p = pass'[w]
    OBVIOUS
  <1>3. /\ Goes(w, p) /\ PassShape(p) /\ p.step = stage /\ p.record = record
        /\ p.queue = pass[w].queue /\ p.cursor = pass[w].cursor /\ p.solved = pass[w].solved
        /\ p.mark = pass[w].mark /\ p.gone = pass[w].gone
    BY <1>1, <1>2, TurnsFacts
  <1>4. Shape'
    BY <1>1, <1>3, ShapeGoes
  <1>5. Meaning'
    <2>1. \A i, film : Means(i, film)' => Means(i, film)
      BY <1>1, <1>3, MeansGoes
    <2> QED
      BY <2>1, MeaningKept DEF PictureIInv
  <1>6. \A v \in Workers : /\ pass'[v].queue = pass[v].queue /\ pass'[v].cursor = pass[v].cursor
                           /\ pass'[v].solved = pass[v].solved /\ pass'[v].mark = pass[v].mark
                           /\ pass'[v].gone = pass[v].gone
                           /\ v # w => pass'[v] = pass[v]
    BY <1>1, <1>2, <1>3, GoesFacts
  <1>7. pass'[w].step = stage /\ pass'[w].record = record
    BY <1>2, <1>3
  <1>8. /\ pass[w].step # "idle" /\ pass[w].step # "write" /\ pass[w].step \notin Removes
        /\ stage \notin Removes /\ stage # "forget"
    BY DEF InQueue, AtHead, Removes
  <1>9. ASSUME calm PROVE CalmState'
    <2>1. CalmState
      BY <1>9 DEF PictureIInv
    <2>2. Alone'
      BY <1>6, <1>8, <2>1 DEF CalmState, Alone
    <2>3. NoOldPicture'
      BY <1>6, <1>8, <2>1 DEF CalmState, NoOldPicture, Waits, Head1
    <2>4. Emptied'
      BY <1>6, <1>7, <1>8, <2>1 DEF CalmState, Emptied, SafeToForget
    <2>5. StillWaits'
      BY <1>6, <2>1 DEF CalmState, StillWaits, Waits
    <2>6. JustFetched'
      <3>1. stage = "write" => Head1(w).id \notin DOMAIN posters
        BY <1>9, HeadIsNew
      <3> QED
        BY <1>6, <1>7, <2>1, <3>1 DEF CalmState, JustFetched, Head1
    <2>7. ToldOrMended'
      <3>1. ASSUME NEW i, NEW v \in Workers, Mends(v, i) PROVE Mends(v, i)'
        <4>1. pass[v].step # "idle" => pass'[v].step # "idle"
          BY <1>6, <1>7 DEF AtHead
        <4> QED
          BY <1>6, <3>1, <4>1 DEF Mends, Waits, Ahead
      <3> QED
        BY <2>1, <3>1 DEF CalmState, ToldOrMended, HasArt, Served
    <2>8. NoneOlder'
      BY <2>1 DEF CalmState, NoneOlder
    <2> QED
      BY <2>2, <2>3, <2>4, <2>5, <2>6, <2>7, <2>8 DEF CalmState
  <1>10. RememberedMatches'
    BY <1>6, <1>7 DEF PictureIInv, RememberedMatches, Head1
  <1> QED
    BY <1>4, <1>5, <1>9, <1>10 DEF PictureIInv

LEMMA StoredKeeps ==
  ASSUME PictureIInv, NEW w \in Workers, NEW picture, Stored(w, picture), Turns(w, "write", {}),
         pass[w].step \in InQueue \ {"write"}, Series(Head1(w).film) \notin pass[w].solved,
         UNCHANGED <<posters, refreshes, calm>>
  PROVE  PictureIInv'
  <1>1. Shape
    BY DEF PictureIInv
  <1>2. PICK p : p = pass'[w]
    OBVIOUS
  <1>3. /\ Goes(w, p) /\ PassShape(p) /\ p.step = "write"
        /\ p.queue = pass[w].queue /\ p.cursor = pass[w].cursor /\ p.solved = pass[w].solved
        /\ p.mark = pass[w].mark /\ p.gone = pass[w].gone
    BY <1>1, <1>2, TurnsFacts DEF AtHead
  <1>4. Shape'
    BY <1>1, <1>3, ShapeGoes
  <1>5. PICK h : h = Head1(w)
    OBVIOUS
  <1>6. h \in ToSet(pass[w].queue) /\ Means(h.id, h.film)
    BY <1>5, HeadFacts
  <1>7. /\ DOMAIN art' = DOMAIN art \cup {h.id}
        /\ art'[h.id].sought = h.film /\ art'[h.id].refresh = refreshes
        /\ \A i \in DOMAIN art \ {h.id} : art'[i] = art[i]
    BY <1>5 DEF Stored, Put
  <1>8. Meaning'
    <2>1. \A i \in DOMAIN art' : \/ i \in DOMAIN art /\ art'[i].sought = art[i].sought
                                 \/ \E q \in ToSet(pass[w].queue) : q.id = i /\ q.film = art'[i].sought
      BY <1>6, <1>7
    <2>2. \A i, film : Means(i, film)' => Means(i, film)
      BY <1>1, <1>3, <2>1, MeansGoes
    <2> QED
      BY <2>2, MeaningKept DEF PictureIInv
  <1>9. \A v \in Workers : /\ pass'[v].queue = pass[v].queue /\ pass'[v].cursor = pass[v].cursor
                           /\ pass'[v].solved = pass[v].solved /\ pass'[v].mark = pass[v].mark
                           /\ pass'[v].gone = pass[v].gone
                           /\ v # w => pass'[v] = pass[v]
    BY <1>1, <1>2, <1>3, GoesFacts
  <1>10. pass'[w].step = "write"
    BY <1>2, <1>3
  <1>11. pass[w].step # "idle" /\ pass[w].step # "write" /\ pass[w].step \notin Removes /\ "write" \notin Removes
    BY DEF InQueue, AtHead, Removes
  <1>12. ASSUME calm PROVE CalmState'
    <2>1. CalmState
      BY <1>12 DEF PictureIInv
    <2>2. Alone'
      BY <1>9, <1>11, <2>1 DEF CalmState, Alone
    <2>3. NoOldPicture'
      <3> SUFFICES ASSUME NEW i \in DOMAIN posters', Waits(i)', i \in DOMAIN art'
                   PROVE  \E v \in Workers : \/ pass'[v].step = "write" /\ Head1(v)'.id = i
                                             \/ pass'[v].step \in Removes /\ i \in pass'[v].gone
        BY DEF NoOldPicture
      <3>1. CASE i = h.id
        BY <1>5, <1>9, <1>10, <3>1 DEF Head1
      <3>2. CASE i # h.id
        <4>1. i \in DOMAIN posters /\ Waits(i) /\ i \in DOMAIN art
          BY <1>7, <3>2 DEF Waits
        <4>2. PICK v \in Workers : \/ pass[v].step = "write" /\ Head1(v).id = i
                                   \/ pass[v].step \in Removes /\ i \in pass[v].gone
          BY <2>1, <4>1 DEF CalmState, NoOldPicture
        <4>3. v # w
          BY <1>11, <4>2
        <4> QED
          BY <1>9, <4>2, <4>3 DEF Head1
      <3> QED
        BY <3>1, <3>2
    <2>4. Emptied'
      BY <1>9, <1>10, <1>11, <2>1 DEF CalmState, Emptied, SafeToForget
    <2>5. StillWaits'
      BY <1>9, <2>1 DEF CalmState, StillWaits, Waits
    <2>6. JustFetched'
      <3> SUFFICES ASSUME NEW v \in Workers, pass'[v].step = "write"
                   PROVE  /\ Head1(v)'.id \in DOMAIN art'
                          /\ Head1(v)'.id \in DOMAIN posters' => art'[Head1(v)'.id].refresh = refreshes'
        BY DEF JustFetched
      <3>1. CASE v = w
        BY <1>5, <1>7, <1>9, <3>1 DEF Head1
      <3>2. CASE v # w
        <4>1. pass[v].step = "write"
          BY <1>9, <3>2
        <4> QED
          BY <1>11, <2>1, <3>2, <4>1 DEF CalmState, Alone
      <3> QED
        BY <3>1, <3>2
    <2>7. ToldOrMended'
      <3>1. ASSUME NEW i, NEW v \in Workers, Mends(v, i) PROVE Mends(v, i)'
        <4>1. pass[v].step # "idle" => pass'[v].step # "idle"
          BY <1>9, <1>10
        <4> QED
          BY <1>9, <3>1, <4>1 DEF Mends, Waits, Ahead
      <3>2. ASSUME NEW i \in DOMAIN posters, Served(i) # {} PROVE Served(i)' # {}
        <4>1. PICK f \in posters[i].file : f \in DOMAIN art
          BY <3>2 DEF Served
        <4> QED
          BY <1>7, <4>1 DEF Served
      <3> QED
        BY <2>1, <3>1, <3>2 DEF CalmState, ToldOrMended, HasArt
    <2>8. NoneOlder'
      <3> SUFFICES ASSUME NEW i \in DOMAIN posters, NEW f \in posters[i].file \cap DOMAIN art'
                   PROVE  art'[f].refresh >= posters[i].due
        BY DEF NoneOlder
      <3>1. CASE f = h.id
        BY <1>1, <1>7, <3>1 DEF Shape, RowShape
      <3>2. CASE f # h.id
        <4>1. f \in posters[i].file \cap DOMAIN art /\ art'[f] = art[f]
          BY <1>7, <3>2
        <4> QED
          BY <2>1, <4>1 DEF CalmState, NoneOlder
      <3> QED
        BY <3>1, <3>2
    <2> QED
      BY <2>2, <2>3, <2>4, <2>5, <2>6, <2>7, <2>8 DEF CalmState
  <1>13. RememberedMatches'
    BY <1>9, <1>10 DEF PictureIInv, RememberedMatches, Head1
  <1> QED
    BY <1>4, <1>8, <1>12, <1>13 DEF PictureIInv

-----------------------------------------------------------------------------
(* Posters: a row is done.                                                 *)

\* What the rows of S are given: a picture that was fetched, or none.
Given(w, S, shown, tried) ==
  /\ DOMAIN posters' = DOMAIN posters
  /\ \A i \in DOMAIN posters :
        posters'[i] = IF i \in S THEN [posters[i] EXCEPT !.file = shown, !.tried = tried] ELSE posters[i]
  /\ \/ shown = {Head1(w).id} /\ tried = FALSE /\ pass[w].step = "write"
     \/ shown = {} /\ tried = TRUE /\ pass[w].step # "write"
  /\ \/ S = Sharing(Head1(w).film, Head1(w).id)
     \/ S = {} /\ pass[w].step # "write" /\ (Series(Head1(w).film) \in pass[w].solved \/ ~pass[w].mark)

LEMMA SharingFacts ==
  ASSUME PictureIInv, NEW w \in Workers, pass[w].step \in InQueue,
         NEW h, h = Head1(w), NEW S, S = Sharing(h.film, h.id)
  PROVE  /\ S \subseteq DOMAIN posters /\ (h.id \in DOMAIN posters => h.id \in S)
         /\ \A i \in S : Kin(h.film, posters[i].film)
         /\ \A i \in S : \A j \in DOMAIN posters :
               Series(posters[i].film) # {} /\ Series(posters[i].film) = Series(posters[j].film) => j \in S
         /\ \A i \in S : Series(posters[i].film) = Series(h.film)
         /\ Series(h.film) = {} => S \subseteq {h.id}
  <1>1. \A i \in DOMAIN posters : i = h.id => posters[i].film = h.film
    <2> SUFFICES ASSUME NEW i \in DOMAIN posters, i = h.id PROVE posters[i].film = h.film
      OBVIOUS
    <2>1. Means(i, h.film)
      BY HeadFacts
    <2>2. Means(i, posters[i].film)
      BY DEF Means
    <2> QED
      BY <2>1, <2>2 DEF PictureIInv, Meaning, OneFilm
  <1>2. CASE Series(h.film) # {}
    <2>1. S = {i \in DOMAIN posters : Series(posters[i].film) = Series(h.film)}
      BY <1>2 DEF Sharing, OfSeries
    <2> QED
      BY <1>1, <1>2, <2>1 DEF Kin
  <1>3. CASE Series(h.film) = {}
    <2>1. S = {h.id} \cap DOMAIN posters
      BY <1>3 DEF Sharing
    <2> QED
      BY <1>1, <1>3, <2>1 DEF Kin
  <1> QED
    BY <1>2, <1>3

LEMMA GivenFacts ==
  ASSUME Shape, NEW w \in Workers, NEW S, NEW shown, NEW tried \in BOOLEAN, Given(w, S, shown, tried)
  PROVE  /\ DOMAIN posters' = DOMAIN posters
         /\ \A i \in DOMAIN posters : posters'[i].film = posters[i].film /\ posters'[i].due = posters[i].due
         /\ \A i \in DOMAIN posters \cap S : posters'[i].file = shown /\ posters'[i].tried = tried
         /\ \A i \in DOMAIN posters \ S : posters'[i] = posters[i]
         /\ \A i \in DOMAIN posters : RowShape(posters'[i], refreshes)
  <1>1. /\ DOMAIN posters' = DOMAIN posters
        /\ \A i \in DOMAIN posters :
              posters'[i] = IF i \in S THEN [posters[i] EXCEPT !.file = shown, !.tried = tried] ELSE posters[i]
    BY DEF Given
  <1>2. \A i \in DOMAIN posters : RowShape(posters[i], refreshes)
    BY DEF Shape
  <1>3. ASSUME NEW i \in DOMAIN posters, i \in S
        PROVE  /\ posters'[i].film = posters[i].film /\ posters'[i].due = posters[i].due
               /\ posters'[i].file = shown /\ posters'[i].tried = tried /\ RowShape(posters'[i], refreshes)
    <2>1. posters'[i] = [posters[i] EXCEPT !.file = shown, !.tried = tried]
      BY <1>1, <1>3
    <2> QED
      BY <1>2, <2>1 DEF RowShape
  <1>4. \A i \in DOMAIN posters \ S : posters'[i] = posters[i]
    BY <1>1
  <1>5. DOMAIN posters' = DOMAIN posters
    BY <1>1
  <1>6. \A i \in DOMAIN posters : /\ posters'[i].film = posters[i].film /\ posters'[i].due = posters[i].due
                                  /\ RowShape(posters'[i], refreshes)
    BY <1>2, <1>3, <1>4
  <1> QED
    BY <1>3, <1>4, <1>5, <1>6

LEMMA GivenMeans ==
  ASSUME PictureIInv, NEW w \in Workers, pass[w].step \in InQueue,
         NEW S, NEW shown, NEW tried \in BOOLEAN, Given(w, S, shown, tried),
         \A i, film : Means(i, film)' => Means(i, film)
  PROVE  Meaning'
  <1>1. PICK h : h = Head1(w)
    OBVIOUS
  <1>2. Shape /\ Meaning
    BY DEF PictureIInv
  <1>3. /\ DOMAIN posters' = DOMAIN posters
        /\ \A i \in DOMAIN posters : posters'[i].film = posters[i].film
        /\ \A i \in DOMAIN posters \cap S : posters'[i].file = shown /\ posters'[i].tried = tried
        /\ \A i \in DOMAIN posters \ S : posters'[i] = posters[i]
    BY <1>2, GivenFacts
  <1>4. CASE shown = {}
    BY <1>2, <1>3, <1>4, MeaningKept
  <1>5. CASE shown # {}
    <2>1. shown = {h.id} /\ tried = FALSE /\ S = Sharing(h.film, h.id)
      BY <1>1, <1>5 DEF Given
    <2>2. /\ S \subseteq DOMAIN posters /\ \A i \in S : Kin(h.film, posters[i].film)
          /\ \A i \in S : \A j \in DOMAIN posters :
                Series(posters[i].film) # {} /\ Series(posters[i].film) = Series(posters[j].film) => j \in S
      BY <1>1, <2>1, SharingFacts
    <2>3. OneFilm'
      BY <1>2 DEF Meaning, OneFilm
    <2>4. FilesOfKin'
      <3> SUFFICES ASSUME NEW i \in DOMAIN posters', NEW f \in posters'[i].file, NEW film, Means(f, film)'
                   PROVE  Kin(film, posters'[i].film)
        BY DEF FilesOfKin, Kin
      <3>1. Means(f, film)
        OBVIOUS
      <3>2. CASE i \in S
        <4>1. f = h.id
          BY <1>3, <2>1, <3>2
        <4>2. Means(h.id, h.film)
          BY <1>1, HeadFacts
        <4>3. film = h.film
          BY <1>2, <3>1, <4>1, <4>2 DEF Meaning, OneFilm
        <4> QED
          BY <1>3, <2>2, <3>2, <4>3
      <3>3. CASE i \notin S
        <4>1. i \in DOMAIN posters /\ posters'[i] = posters[i]
          BY <1>3, <3>3
        <4> QED
          BY <1>2, <3>1, <4>1 DEF Meaning, FilesOfKin
      <3> QED
        BY <3>2, <3>3
    <2>5. PosterTypeOK'
      <3>1. \A i \in DOMAIN posters' : ~(posters'[i].file # {} /\ posters'[i].tried)
        BY <1>2, <1>3, <2>1 DEF Meaning, PosterTypeOK, HasArt
      <3> QED
        BY <1>2, <1>3, <3>1 DEF Meaning, PosterTypeOK, HasArt
    <2>6. OneSeriesOnePoster'
      <3> SUFFICES ASSUME NEW i \in DOMAIN posters, NEW j \in DOMAIN posters, Series(posters[i].film) # {},
                          Series(posters[i].film) = Series(posters[j].film),
                          posters'[i].file # {}, posters'[j].file # {}
                   PROVE  posters'[i].file = posters'[j].file
        BY <1>3 DEF OneSeriesOnePoster, HasArt, Series
      <3>1. i \in S <=> j \in S
        BY <2>2
      <3> QED
        BY <1>2, <1>3, <3>1 DEF Meaning, OneSeriesOnePoster, HasArt
    <2> QED
      BY <2>3, <2>4, <2>5, <2>6 DEF Meaning
  <1> QED
    BY <1>4, <1>5

\* What lay before a worker is still before it, the head of its queue apart.
LEMMA StillAhead ==
  ASSUME Shape, NEW w \in Workers, pass[w].step \in InQueue, Goes(w, Advanced(w)),
         NEW j, Ahead(w, j), j # Head1(w).id, j \in Nat
  PROVE  Ahead(w, j)'
  <1>1. PICK q : q = pass[w].queue
    OBVIOUS
  <1>2. QueueShape(q) /\ q # <<>>
    BY <1>1 DEF Shape, PassShape
  <1>3. /\ Head(q) \in ToSet(q) /\ ToSet(q) = {Head(q)} \cup ToSet(Tail(q))
        /\ \A x \in ToSet(Tail(q)) : Head(q).id < x.id
    BY <1>2, QueueFacts
  <1>4. pass'[w].queue = Tail(q) /\ pass'[w].cursor = Head(q).id
    BY <1>1, GoesFacts, AdvancedFacts DEF Head1
  <1>5. CASE \E x \in ToSet(q) : x.id = j
    BY <1>1, <1>3, <1>4, <1>5 DEF Ahead, Head1
  <1>6. CASE j > pass[w].cursor /\ \A x \in ToSet(q) : x.id < j
    <2>1. Head(q).id \in Nat
      BY <1>2, <1>3 DEF QueueShape
    <2> QED
      BY <1>3, <1>4, <1>6, <2>1 DEF Ahead
  <1> QED
    BY <1>1, <1>5, <1>6 DEF Ahead

\* While passes do not overlap the others do nothing.
LEMMA OthersIdle ==
  ASSUME PictureIInv, calm, NEW w \in Workers, pass[w].step # "idle", NEW v \in Workers \ {w}
  PROVE  pass[v].step = "idle" /\ pass[v].queue = <<>> /\ ToSet(pass[v].queue) = {}
  <1>1. pass[v].step = "idle"
    BY DEF PictureIInv, CalmState, Alone
  <1>2. PassShape(pass[v])
    BY DEF PictureIInv, Shape
  <1>3. pass[v].queue = <<>>
    BY <1>1, <1>2 DEF PassShape, InQueue, AtHead
  <1> QED
    BY <1>1, <1>3, EmptyQueue

LEMMA AdvanceKeeps ==
  ASSUME PictureIInv, NEW w \in Workers, pass[w].step \in InQueue, Goes(w, Advanced(w)),
         UNCHANGED <<art, refreshes, calm>>,
         NEW S, NEW shown, NEW tried \in BOOLEAN, Given(w, S, shown, tried)
  PROVE  PictureIInv'
  <1>1. Shape /\ Meaning
    BY DEF PictureIInv
  <1>2. PICK h : h = Head1(w)
    OBVIOUS
  <1>3. PICK p : p = Advanced(w)
    OBVIOUS
  <1>4. PICK queue : queue = pass[w].queue
    OBVIOUS
  <1>5. /\ PassShape(p) /\ p.step \in {"batch", "look"} /\ p.mark = pass[w].mark
        /\ p.queue = Tail(queue) /\ p.cursor = h.id
        /\ p.solved = (pass[w].solved \cup {Series(h.film)}) \ {{}}
    BY <1>1, <1>2, <1>3, <1>4, AdvancedFacts
  <1>6. DOMAIN pass' = Workers /\ pass'[w] = p /\ \A v \in Workers \ {w} : pass'[v] = pass[v]
    BY <1>1, <1>3, GoesFacts
  <1>7. /\ QueueShape(queue) /\ queue # <<>> /\ h \in ToSet(queue) /\ Means(h.id, h.film) /\ h = Head(queue)
    BY <1>2, <1>4, HeadFacts DEF Head1
  <1>8. ToSet(queue) = {h} \cup ToSet(Tail(queue)) /\ \A x \in ToSet(Tail(queue)) : h.id < x.id
    BY <1>7, QueueFacts
  <1>9. /\ DOMAIN posters' = DOMAIN posters
        /\ \A i \in DOMAIN posters : posters'[i].film = posters[i].film /\ posters'[i].due = posters[i].due
        /\ \A i \in DOMAIN posters \cap S : posters'[i].file = shown /\ posters'[i].tried = tried
        /\ \A i \in DOMAIN posters \ S : posters'[i] = posters[i]
        /\ \A i \in DOMAIN posters : RowShape(posters'[i], refreshes)
    BY <1>1, GivenFacts
  <1>10. Shape'
    BY <1>1, <1>5, <1>6, <1>9 DEF Shape
  <1>11. Meaning'
    <2>1. Goes(w, p)
      BY <1>3
    <2>2. \A q \in ToSet(p.queue) : q \in ToSet(pass[w].queue)
      BY <1>4, <1>5, <1>8
    <2>3. \A i, film : Means(i, film)' => Means(i, film)
      BY <1>1, <1>9, <2>1, <2>2, MeansGoes
    <2> QED
      BY <2>3, GivenMeans
  <1>12. RememberedMatches'
    BY <1>5, <1>6 DEF PictureIInv, RememberedMatches, Head1
  <1>13. \/ shown = {h.id} /\ tried = FALSE /\ pass[w].step = "write" /\ S = Sharing(h.film, h.id)
         \/ shown = {} /\ tried = TRUE /\ pass[w].step # "write" /\ S = Sharing(h.film, h.id)
         \/ shown = {} /\ S = {} /\ pass[w].step # "write" /\ (Series(h.film) \in pass[w].solved \/ ~pass[w].mark)
    BY <1>2 DEF Given
  <1>14. S = {} \/ (/\ S \subseteq DOMAIN posters /\ (h.id \in DOMAIN posters => h.id \in S)
                    /\ \A i \in S : \A j \in DOMAIN posters :
                          Series(posters[i].film) # {} /\ Series(posters[i].film) = Series(posters[j].film) => j \in S
                    /\ \A i \in S : Series(posters[i].film) = Series(h.film)
                    /\ (Series(h.film) = {} => S \subseteq {h.id}))
    BY <1>2, <1>13, SharingFacts
  <1>15. \A q \in ToSet(queue) : q.id \in DOMAIN posters => posters[q.id].film = q.film
    <2> SUFFICES ASSUME NEW q \in ToSet(queue), q.id \in DOMAIN posters PROVE posters[q.id].film = q.film
      OBVIOUS
    <2>1. Means(q.id, q.film) /\ Means(q.id, posters[q.id].film)
      BY <1>4 DEF Means
    <2> QED
      BY <1>1, <2>1 DEF Meaning, OneFilm
  <1>16. /\ pass[w].step # "idle" /\ pass[w].step \notin Removes
         /\ p.step \notin {"idle", "write", "forget"} \cup Removes
    BY <1>5 DEF InQueue, AtHead, Removes
  <1>17. ASSUME calm PROVE CalmState'
    <2>1. CalmState
      BY <1>17 DEF PictureIInv
    <2>2. \A v \in Workers \ {w} : pass[v].step = "idle" /\ ToSet(pass[v].queue) = {}
      BY <1>16, <1>17, OthersIdle
    <2>3. Alone'
      BY <1>6, <2>2 DEF Alone
    <2>4. NoOldPicture'
      <3> SUFFICES ASSUME NEW i \in DOMAIN posters', Waits(i)', i \in DOMAIN art' PROVE FALSE
        BY DEF NoOldPicture
      <3>1. i \notin S
        BY <1>9, <1>13 DEF Waits
      <3>2. i \in DOMAIN posters /\ Waits(i) /\ i \in DOMAIN art
        BY <1>9, <3>1 DEF Waits
      <3>3. PICK v \in Workers : \/ pass[v].step = "write" /\ Head1(v).id = i
                                 \/ pass[v].step \in Removes /\ i \in pass[v].gone
        BY <2>1, <3>2 DEF CalmState, NoOldPicture
      <3>4. v = w
        <4>1. pass[v].step # "idle"
          BY <3>3 DEF Removes
        <4> QED
          BY <2>2, <4>1
      <3>5. pass[w].step = "write" /\ h.id = i
        BY <1>2, <1>16, <3>3, <3>4
      <3>6. S = Sharing(h.film, h.id)
        BY <1>13, <3>5
      <3>7. h.id \in S
        BY <1>2, <3>2, <3>5, <3>6, SharingFacts
      <3> QED
        BY <3>1, <3>5, <3>7
    <2>5. Emptied'
      BY <1>6, <1>16, <2>2 DEF Emptied, SafeToForget, Removes
    <2>6. StillWaits'
      <3> SUFFICES ASSUME NEW v \in Workers, NEW q \in ToSet(pass'[v].queue)
                   PROVE  /\ q.id \in DOMAIN posters' => Waits(q.id)' \/ Series(q.film) \in pass'[v].solved
                          /\ Series(q.film) # {} => q.id \in DOMAIN posters'
        BY DEF StillWaits, Series
      <3>1. v = w
        BY <1>6, <2>2
      <3>2. q \in ToSet(Tail(queue)) /\ q \in ToSet(queue) /\ h.id < q.id
        BY <1>5, <1>6, <1>8, <3>1
      <3>3. /\ q.id \in DOMAIN posters => Waits(q.id) \/ Series(q.film) \in pass[w].solved
            /\ Series(q.film) # {} => q.id \in DOMAIN posters
        BY <1>4, <2>1, <3>2 DEF CalmState, StillWaits
      <3>4. pass[w].solved \subseteq p.solved
        BY <1>1, <1>5 DEF Shape, PassShape
      <3>5. ASSUME q.id \in DOMAIN posters, Waits(q.id), q.id \in S PROVE Series(q.film) \in p.solved
        <4>1. Series(q.film) = Series(h.film)
          BY <1>14, <1>15, <3>2, <3>5
        <4>2. h.id \in Nat /\ q.id \in Nat
          BY <1>7, <3>2 DEF QueueShape
        <4>3. Series(h.film) # {}
          BY <1>14, <3>2, <3>5, <4>2
        <4> QED
          BY <1>5, <4>1, <4>3
      <3>6. ASSUME q.id \in DOMAIN posters, Waits(q.id), q.id \notin S PROVE Waits(q.id)'
        BY <1>9, <3>6 DEF Waits
      <3> QED
        BY <1>6, <1>9, <3>1, <3>3, <3>4, <3>5, <3>6
    <2>7. JustFetched'
      BY <1>6, <1>16, <2>2 DEF JustFetched
    <2>8. ToldOrMended'
      <3> SUFFICES ASSUME NEW i \in DOMAIN posters, posters'[i].file # {}
                   PROVE  Served(i)' # {} \/ \E v \in Workers : Mends(v, i)'
        BY <1>9 DEF ToldOrMended, HasArt
      <3>1. CASE i \in S
        <4>1. pass[w].step = "write" /\ posters'[i].file = {h.id}
          BY <1>9, <1>13, <3>1
        <4>2. h.id \in DOMAIN art
          BY <1>2, <2>1, <4>1 DEF CalmState, JustFetched
        <4> QED
          BY <4>1, <4>2 DEF Served
      <3>2. CASE i \notin S /\ Served(i) # {}
        <4>1. posters'[i] = posters[i]
          BY <1>9, <3>2
        <4> QED
          BY <3>2, <4>1 DEF Served
      <3>3. CASE i \notin S /\ Served(i) = {}
        <4>1. posters'[i] = posters[i]
          BY <1>9, <3>3
        <4>2. PICK v \in Workers : Mends(v, i)
          BY <2>1, <3>3, <4>1 DEF CalmState, ToldOrMended, HasArt
        <4>3. v = w
          BY <2>2, <4>2 DEF Mends
        <4>4. PICK j \in DOMAIN posters :
                /\ Series(posters[j].film) # {} /\ Series(posters[j].film) = Series(posters[i].film)
                /\ Waits(j) /\ Series(posters[j].film) \notin pass[w].solved /\ Ahead(w, j)
          BY <4>2, <4>3 DEF Mends
        <4>5. pass[w].mark
          BY <4>2, <4>3 DEF Mends
        <4>6. j \notin S
          BY <1>14, <3>3, <4>4
        <4>7. Series(posters[j].film) # Series(h.film)
          <5>1. CASE S = Sharing(h.film, h.id)
            BY <4>4, <4>6, <5>1 DEF Sharing, OfSeries
          <5>2. CASE S # Sharing(h.film, h.id)
            BY <1>13, <4>4, <4>5, <5>2
          <5> QED
            BY <5>1, <5>2
        <4>8. j # h.id
          BY <1>7, <1>15, <4>7
        <4>9. Ahead(w, j)'
          BY <1>1, <1>2, <4>4, <4>8, StillAhead DEF Shape
        <4>10. posters'[j] = posters[j]
          BY <1>9, <4>6
        <4>11. Mends(w, i)'
          <5>1. pass'[w].mark /\ pass'[w].step # "idle"
            BY <1>5, <1>6, <1>16, <4>5
          <5>2. Series(posters'[j].film) \notin pass'[w].solved
            BY <1>5, <1>6, <4>4, <4>7, <4>10
          <5>3. Waits(j)'
            BY <4>4, <4>10 DEF Waits
          <5>4. Series(posters'[j].film) # {} /\ Series(posters'[j].film) = Series(posters'[i].film)
            BY <4>1, <4>4, <4>10
          <5>5. j \in DOMAIN posters'
            BY <1>9
          <5> QED
            BY <4>9, <5>1, <5>2, <5>3, <5>4, <5>5 DEF Mends, Series
        <4> QED
          BY <4>11
      <3> QED
        BY <3>1, <3>2, <3>3
    <2>9. NoneOlder'
      <3> SUFFICES ASSUME NEW i \in DOMAIN posters, NEW f \in posters'[i].file \cap DOMAIN art
                   PROVE  art[f].refresh >= posters'[i].due
        BY <1>9 DEF NoneOlder
      <3>1. CASE i \in S
        <4>1. pass[w].step = "write" /\ f = h.id
          BY <1>9, <1>13, <3>1
        <4>2. h.id \in DOMAIN posters
          <5>1. CASE Series(h.film) = {}
            BY <1>14, <3>1, <5>1
          <5>2. CASE Series(h.film) # {}
            BY <1>4, <1>7, <2>1, <5>2 DEF CalmState, StillWaits
          <5> QED
            BY <5>1, <5>2
        <4>3. art[f].refresh = refreshes
          BY <1>2, <2>1, <4>1, <4>2 DEF CalmState, JustFetched
        <4>4. posters'[i].due \in 0 .. refreshes /\ refreshes \in Nat
          BY <1>1, <1>9 DEF RowShape, Shape
        <4> QED
          BY <4>3, <4>4
      <3>2. CASE i \notin S
        BY <1>9, <2>1, <3>2 DEF CalmState, NoneOlder
      <3> QED
        BY <3>1, <3>2
    <2> QED
      BY <2>3, <2>4, <2>5, <2>6, <2>7, <2>8, <2>9 DEF CalmState
  <1> QED
    BY <1>10, <1>11, <1>12, <1>17 DEF PictureIInv

-----------------------------------------------------------------------------
(* Posters: the steps of one row.                                          *)

\* What is found for a title is not years away from it.
LEMMA ResolvedFacts ==
  ASSUME NEW film \in DOMAIN Titles, NEW h \in Resolved[film]
  PROVE  \A y \in Guess[film].year : \A z \in h.year : Apart(y, z) <= 2
  <1>1. PICK q : q = TitleQuery(film)
    OBVIOUS
  <1>2. TitlesMatch(q.title, h.title, q.year, h.year)
    BY <1>1 DEF Resolved
  <1>3. q.year = Guess[film].year
    BY <1>1 DEF TitleQuery
  <1> QED
    BY <1>2, <1>3 DEF TitlesMatch

\* An episode of a series that this batch has looked up is passed over.
LEMMA SkipKeeps ==
  ASSUME PictureIInv, NEW w \in Workers, pass[w].step = "look" \/ pass[w].step = "none",
         Series(Head1(w).film) \in pass[w].solved \/ ~pass[w].mark,
         Goes(w, Advanced(w)), UNCHANGED <<posters, art, refreshes, calm>>
  PROVE  PictureIInv'
  <1>1. pass[w].step \in InQueue /\ pass[w].step # "write"
    BY DEF InQueue, AtHead
  <1>2. Given(w, {}, {}, TRUE)
    BY <1>1 DEF Given
  <1> QED
    BY <1>1, <1>2, AdvanceKeeps

LEMMA LookKeeps ==
  ASSUME PictureIInv, NEW w \in Workers, Look(w)
  PROVE  PictureIInv'
  <1>1. PICK h : h = Head1(w)
    OBVIOUS
  <1>2. pass[w].step = "look" /\ UNCHANGED <<posters, refreshes, calm>>
    BY DEF Look, counts
  <1>3. pass[w].step \in InQueue \ {"write"} /\ {"resolve", "byId", "byTitle", "write"} \subseteq AtHead
    BY <1>2 DEF InQueue, AtHead
  <1>4. CASE Series(h.film) # {} /\ Series(h.film) \in pass[w].solved
    <2>1. Goes(w, Advanced(w)) /\ UNCHANGED art
      BY <1>1, <1>4 DEF Look
    <2> QED
      BY <1>1, <1>2, <1>4, <2>1, SkipKeeps
  <1>5. CASE ~(Series(h.film) # {} /\ Series(h.film) \in pass[w].solved)
    <2>1. Series(h.film) \notin pass[w].solved
      BY <1>5 DEF PictureIInv, Shape, PassShape
    <2>2. CASE h.id \in DOMAIN art
      <3>1. Turns(w, "write", {}) /\ UNCHANGED art
        BY <1>1, <1>5, <2>2 DEF Look
      <3> QED
        BY <1>1, <1>2, <1>3, <2>1, <2>2, <3>1, TurnsKeeps
    <2>3. CASE h.id \notin DOMAIN art /\ h.film \in InFolder
      <3>1. Stored(w, h.film) /\ Turns(w, "write", {})
        BY <1>1, <1>5, <2>3 DEF Look
      <3> QED
        BY <1>1, <1>2, <1>3, <2>1, <3>1, StoredKeeps
    <2>4. CASE h.id \notin DOMAIN art /\ h.film \notin InFolder
      <3>1. PICK scope : scope = Scope(h.film, h.id)
        OBVIOUS
      <3>2. UNCHANGED art
        BY <1>1, <1>5, <2>4 DEF Look
      <3>3. \/ Turns(w, "resolve", {}) \/ Turns(w, "byTitle", {})
            \/ Turns(w, "byId", {titleIds[scope]}) /\ StillMatches(titleIds[scope], h.film)
        BY <1>1, <1>5, <2>4, <3>1 DEF Look
      <3>4. CASE Turns(w, "resolve", {}) \/ Turns(w, "byTitle", {})
        BY <1>1, <1>2, <1>3, <2>1, <3>2, <3>4, TurnsKeeps
      <3>5. CASE Turns(w, "byId", {titleIds[scope]}) /\ StillMatches(titleIds[scope], h.film)
        <4>1. \A x \in {titleIds[scope]} : \A y \in Guess[h.film].year : \A z \in x.year : Apart(y, z) <= 2
          BY <3>5 DEF StillMatches, TitlesMatch
        <4> QED
          BY <1>1, <1>2, <1>3, <2>1, <3>2, <3>5, <4>1, TurnsKeeps
      <3> QED
        BY <3>3, <3>4, <3>5
    <2> QED
      BY <2>2, <2>3, <2>4
  <1> QED
    BY <1>4, <1>5

LEMMA ResolveKeeps ==
  ASSUME PictureIInv, NEW w \in Workers, Resolve(w)
  PROVE  PictureIInv'
  <1>1. pass[w].step = "resolve" /\ UNCHANGED <<posters, art, refreshes, calm>>
    BY DEF Resolve, counts
  <1>2. pass[w].step \in InQueue \ {"write"} /\ pass[w].step \in AtHead /\ {"byId", "byTitle"} \subseteq AtHead
    BY <1>1 DEF InQueue, AtHead
  <1>3. Series(Head1(w).film) \notin pass[w].solved /\ Head1(w).film \in DOMAIN Titles
    BY <1>2, HeadFacts
  <1>4. CASE \E h \in Resolved[Head1(w).film] : Turns(w, "byId", {h})
    <2>1. PICK h \in Resolved[Head1(w).film] : Turns(w, "byId", {h})
      BY <1>4
    <2>2. \A x \in {h} : \A y \in Guess[Head1(w).film].year : \A z \in x.year : Apart(y, z) <= 2
      BY <1>3, ResolvedFacts
    <2> QED
      BY <1>1, <1>2, <1>3, <2>1, <2>2, TurnsKeeps
  <1>5. CASE Turns(w, "byTitle", {})
    BY <1>1, <1>2, <1>3, <1>5, TurnsKeeps
  <1> QED
    BY <1>4, <1>5 DEF Resolve

\* Asking by the record and asking by the title: a picture, or the next step.
LEMMA AsksForPicturesKeeps ==
  ASSUME PictureIInv, NEW w \in Workers, ById(w) \/ ByTitle(w)
  PROVE  PictureIInv'
  <1>1. /\ pass[w].step = "byId" \/ pass[w].step = "byTitle"
        /\ UNCHANGED <<posters, refreshes, calm>>
    BY DEF ById, ByTitle, counts
  <1>2. /\ pass[w].step \in InQueue \ {"write"} /\ pass[w].step \in AtHead
        /\ {"byTitle", "none", "write"} \subseteq AtHead
    BY <1>1 DEF InQueue, AtHead
  <1>3. Series(Head1(w).film) \notin pass[w].solved
    BY <1>2, HeadFacts
  <1>4. \/ Head1(w).id \in DOMAIN art /\ Turns(w, "write", {}) /\ UNCHANGED art
        \/ \E picture : Stored(w, picture) /\ Turns(w, "write", {})
        \/ \E stage \in {"byTitle", "none"} : Turns(w, stage, {}) /\ UNCHANGED art
    BY DEF ById, ByTitle
  <1>5. CASE Head1(w).id \in DOMAIN art /\ Turns(w, "write", {}) /\ UNCHANGED art
    BY <1>1, <1>2, <1>3, <1>5, TurnsKeeps
  <1>6. CASE \E picture : Stored(w, picture) /\ Turns(w, "write", {})
    BY <1>1, <1>2, <1>3, <1>6, StoredKeeps
  <1>7. CASE \E stage \in {"byTitle", "none"} : Turns(w, stage, {}) /\ UNCHANGED art
    BY <1>1, <1>2, <1>3, <1>7, TurnsKeeps
  <1> QED
    BY <1>4, <1>5, <1>6, <1>7

LEMMA PictureWritesKeep ==
  ASSUME PictureIInv, NEW w \in Workers, WriteFound(w) \/ WriteMissing(w)
  PROVE  PictureIInv'
  <1>1. UNCHANGED <<art, refreshes, calm>> /\ Goes(w, Advanced(w))
    BY DEF WriteFound, WriteMissing, counts
  <1>2. PICK S : S = Sharing(Head1(w).film, Head1(w).id)
    OBVIOUS
  <1>3. CASE WriteFound(w)
    <2>1. Given(w, S, {Head1(w).id}, FALSE) /\ pass[w].step \in InQueue
      BY <1>2, <1>3 DEF WriteFound, Sets, Given, InQueue, AtHead
    <2> QED
      BY <1>1, <2>1, AdvanceKeeps
  <1>4. CASE WriteMissing(w) /\ pass[w].mark
    <2>1. Given(w, S, {}, TRUE) /\ pass[w].step \in InQueue
      BY <1>2, <1>4 DEF WriteMissing, Sets, Given, InQueue, AtHead
    <2> QED
      BY <1>1, <2>1, AdvanceKeeps
  <1>5. CASE WriteMissing(w) /\ ~pass[w].mark
    BY <1>1, <1>5, SkipKeeps DEF WriteMissing
  <1> QED
    BY <1>3, <1>4, <1>5

-----------------------------------------------------------------------------
(* Posters: the next batch.                                                *)

Rank(S, n) == Cardinality({j \in S : j < n})

LEMMA RanksInOrder ==
  ASSUME NEW S \in SUBSET Nat, IsFiniteSet(S)
  PROVE  /\ \A a \in S : Rank(S, a) \in Nat /\ Rank(S, a) < Cardinality(S)
         /\ \A a, b \in S : a < b => Rank(S, a) < Rank(S, b)
         /\ \A k \in 1 .. Cardinality(S) : \E a \in S : Rank(S, a) = k - 1
  <1> DEFINE before(n) == {j \in S : j < n}
  <1>1. Cardinality(S) \in Nat
    BY FS_CardinalityType
  <1>2. ASSUME NEW a \in S
        PROVE  IsFiniteSet(before(a)) /\ Rank(S, a) \in Nat /\ Rank(S, a) < Cardinality(S)
    <2>1. before(a) \in SUBSET S /\ a \notin before(a)
      OBVIOUS
    <2>2. IsFiniteSet(before(a)) /\ Cardinality(before(a)) <= Cardinality(S)
          /\ (Cardinality(S) = Cardinality(before(a)) => S = before(a))
      <3> HIDE DEF before
      <3> QED
        BY <2>1, FS_Subset
    <2>3. Cardinality(before(a)) \in Nat
      BY <2>2, FS_CardinalityType
    <2>4. Rank(S, a) = Cardinality(before(a))
      BY DEF Rank
    <2> HIDE DEF before
    <2> QED
      BY <1>1, <2>1, <2>2, <2>3, <2>4
  <1>3. ASSUME NEW a \in S, NEW b \in S, a < b PROVE Rank(S, a) < Rank(S, b)
    <2>1. before(a) \in SUBSET before(b) /\ a \in before(b) /\ a \notin before(a)
      <3>1. a \in Nat /\ b \in Nat /\ \A j \in S : j \in Nat
        OBVIOUS
      <3>2. \A j \in S : j < a => j < b
        BY <1>3, <3>1
      <3>3. ~(a < a)
        BY <3>1
      <3> QED
        BY <1>3, <3>2, <3>3
    <2>2. IsFiniteSet(before(b)) /\ Rank(S, a) \in Nat /\ Rank(S, b) \in Nat
      BY <1>2
    <2>3. Rank(S, a) = Cardinality(before(a)) /\ Rank(S, b) = Cardinality(before(b))
      BY DEF Rank
    <2> HIDE DEF before
    <2>4. /\ Cardinality(before(a)) <= Cardinality(before(b))
          /\ (Cardinality(before(b)) = Cardinality(before(a)) => before(b) = before(a))
      BY <2>1, <2>2, FS_Subset
    <2> QED
      BY <2>1, <2>2, <2>3, <2>4
  <1>4. \A k \in 1 .. Cardinality(S) : \E a \in S : Rank(S, a) = k - 1
    <2> DEFINE f == [a \in S |-> Rank(S, a) + 1]
    <2>1. f \in [S -> 1 .. Cardinality(S)]
      <3>1. \A a \in S : Rank(S, a) + 1 \in 1 .. Cardinality(S)
        <4> TAKE a \in S
        <4>1. Rank(S, a) \in Nat /\ Rank(S, a) < Cardinality(S)
          BY <1>2
        <4> QED
          BY <1>1, <4>1
      <3> QED
        BY <3>1
    <2>2. \A a, b \in S : f[a] = f[b] => a = b
      <3> TAKE a \in S, b \in S
      <3>1. a < b \/ b < a \/ a = b
        OBVIOUS
      <3>2. a < b => Rank(S, a) < Rank(S, b)
        BY <1>3
      <3>3. b < a => Rank(S, b) < Rank(S, a)
        BY <1>3
      <3>4. Rank(S, a) \in Nat /\ Rank(S, b) \in Nat
        BY <1>2
      <3> QED
        BY <3>1, <3>2, <3>3, <3>4
    <2>3. f \in Injection(S, 1 .. Cardinality(S))
      BY <2>1, <2>2 DEF Injection, IsInjective
    <2>4. IsFiniteSet(1 .. Cardinality(S)) /\ Cardinality(1 .. Cardinality(S)) = Cardinality(S)
      BY <1>1, FS_Interval
    <2>5. f \in Surjection(S, 1 .. Cardinality(S))
      <3> HIDE DEF f
      <3> QED
        BY <2>3, <2>4, FS_Injection
    <2>6. \A k \in 1 .. Cardinality(S) : \E a \in S : f[a] = k
      BY <2>5 DEF Surjection
    <2>7. ASSUME NEW k \in 1 .. Cardinality(S) PROVE \E a \in S : Rank(S, a) = k - 1
      <3>1. PICK a \in S : f[a] = k
        BY <2>6
      <3>2. Rank(S, a) \in Nat /\ k = Rank(S, a) + 1
        BY <1>2, <3>1
      <3> QED
        BY <3>2
    <2> QED
      BY <2>7
  <1> QED
    BY <1>2, <1>3, <1>4

LEMMA LargestOfFinite ==
  ASSUME NEW S \in SUBSET Nat, IsFiniteSet(S), S # {}
  PROVE  \E m \in S : \A n \in S : n <= m
  <1>1. Cardinality(S) \in Nat /\ Cardinality(S) # 0
    BY FS_CardinalityType, FS_EmptySet
  <1>2. PICK m \in S : Rank(S, m) = Cardinality(S) - 1
    BY <1>1, RanksInOrder
  <1>3. ASSUME NEW n \in S, m < n PROVE FALSE
    <2>1. Rank(S, m) < Rank(S, n) /\ Rank(S, n) \in Nat /\ Rank(S, n) < Cardinality(S)
      BY <1>3, RanksInOrder
    <2> QED
      BY <1>1, <1>2, <2>1
  <1> QED
    BY <1>3

\* The first of the rows that wait, in the order of their ids.
FirstWaiting(P) == {i \in P : Rank(P, i) < BatchSize}
Listed(ids) ==
  [n \in 1 .. Cardinality(ids) |->
     [id |-> CHOOSE i \in ids : Rank(ids, i) = n - 1,
      film |-> posters[CHOOSE i \in ids : Rank(ids, i) = n - 1].film]]

LEMMA FirstFacts ==
  ASSUME NEW P \in SUBSET Nat, IsFiniteSet(P)
  PROVE  /\ FirstWaiting(P) = {} => P = {}
         /\ \A j \in P \ FirstWaiting(P) : \A i \in FirstWaiting(P) : i < j
         /\ FirstWaiting(P) \in SUBSET Nat /\ IsFiniteSet(FirstWaiting(P))
  <1>1. BatchSize \in Nat \ {0}
    BY PostersAssumption
  <1>2. \A a \in P : Rank(P, a) \in Nat
    BY RanksInOrder
  <1>3. ASSUME P # {} PROVE FirstWaiting(P) # {}
    <2>1. Cardinality(P) \in Nat /\ Cardinality(P) # 0
      BY <1>3, FS_CardinalityType, FS_EmptySet
    <2>2. PICK a \in P : Rank(P, a) = 1 - 1
      BY <2>1, RanksInOrder
    <2> QED
      BY <1>1, <2>2 DEF FirstWaiting
  <1>4. ASSUME NEW j \in P \ FirstWaiting(P), NEW i \in FirstWaiting(P), ~(i < j) PROVE FALSE
    <2>1. i \in P /\ Rank(P, i) < BatchSize /\ ~(Rank(P, j) < BatchSize)
      BY DEF FirstWaiting
    <2>2. i = j \/ j < i
      BY <1>4, <2>1
    <2>3. j < i => Rank(P, j) < Rank(P, i)
      BY <2>1, RanksInOrder
    <2> QED
      BY <1>1, <1>2, <2>1, <2>2, <2>3
  <1>5. FirstWaiting(P) \in SUBSET P
    BY DEF FirstWaiting
  <1> QED
    BY <1>3, <1>4, <1>5, FS_Subset

LEMMA ListedFacts ==
  ASSUME NEW ids \in SUBSET Nat, IsFiniteSet(ids), ids # {}, NEW q, q = Listed(ids)
  PROVE  /\ QueueShape(q) /\ q # <<>>
         /\ \A x \in ToSet(q) : x.id \in ids /\ x.film = posters[x.id].film
         /\ \A i \in ids : \E x \in ToSet(q) : x.id = i
  <1>1. PICK n : n = Cardinality(ids)
    OBVIOUS
  <1>2. n \in Nat \ {0}
    BY <1>1, FS_CardinalityType, FS_EmptySet
  <1> DEFINE nth(k) == CHOOSE i \in ids : Rank(ids, i) = k - 1
  <1>3. \A k \in 1 .. n : nth(k) \in ids /\ Rank(ids, nth(k)) = k - 1
    <2> TAKE k \in 1 .. n
    <2>1. \E i \in ids : Rank(ids, i) = k - 1
      BY <1>1, RanksInOrder
    <2> QED
      BY <2>1
  <1>4. q = [k \in 1 .. n |-> [id |-> nth(k), film |-> posters[nth(k)].film]]
    BY <1>1 DEF Listed
  <1> HIDE DEF nth
  <1>5. /\ DOMAIN q = 1 .. n /\ q = [k \in 1 .. n |-> q[k]]
        /\ \A k \in 1 .. n : q[k].id = nth(k) /\ q[k].film = posters[nth(k)].film
    BY <1>4
  <1>6. ToSet(q) = {q[k] : k \in 1 .. n}
    BY <1>5 DEF ToSet
  <1>7. q \in Seq(ToSet(q))
    BY <1>2, <1>5, <1>6
  <1>8. \A k, l \in 1 .. n : k < l => q[k].id < q[l].id
    <2> SUFFICES ASSUME NEW k \in 1 .. n, NEW l \in 1 .. n, k < l PROVE nth(k) < nth(l)
      BY <1>5
    <2>1. nth(k) \in ids /\ nth(l) \in ids /\ Rank(ids, nth(k)) = k - 1 /\ Rank(ids, nth(l)) = l - 1
      BY <1>3
    <2>2. nth(l) < nth(k) => Rank(ids, nth(l)) < Rank(ids, nth(k))
      BY <2>1, RanksInOrder
    <2>3. nth(l) # nth(k)
      BY <2>1
    <2>4. nth(k) \in Nat /\ nth(l) \in Nat
      BY <2>1
    <2> QED
      BY <1>2, <2>1, <2>2, <2>3, <2>4
  <1>9. \A x \in ToSet(q) : x.id \in ids /\ x.film = posters[x.id].film
    BY <1>3, <1>5, <1>6
  <1>10. \A i \in ids : \E x \in ToSet(q) : x.id = i
    <2> SUFFICES ASSUME NEW i \in ids PROVE \E k \in 1 .. n : nth(k) = i
      BY <1>5, <1>6
    <2>1. Rank(ids, i) \in Nat /\ Rank(ids, i) < n
      BY <1>1, RanksInOrder
    <2>2. PICK k \in 1 .. n : Rank(ids, i) = k - 1
      BY <1>2, <2>1
    <2>3. nth(k) \in ids /\ Rank(ids, nth(k)) = k - 1
      BY <1>3
    <2>4. /\ i < nth(k) => Rank(ids, i) < Rank(ids, nth(k))
          /\ nth(k) < i => Rank(ids, nth(k)) < Rank(ids, i)
      BY <2>3, RanksInOrder
    <2>5. i \in Nat /\ nth(k) \in Nat /\ ~(Rank(ids, i) < Rank(ids, nth(k))) /\ ~(Rank(ids, nth(k)) < Rank(ids, i))
      <3>1. Rank(ids, i) = Rank(ids, nth(k))
        BY <2>2, <2>3
      <3>2. ~(Rank(ids, i) < Rank(ids, i))
        BY <2>1
      <3>3. i \in Nat /\ nth(k) \in Nat
        BY <2>3
      <3> QED
        BY <3>1, <3>2, <3>3
    <2>6. i = nth(k)
      BY <2>4, <2>5
    <2> QED
      BY <2>6
  <1>11. q # <<>>
    BY <1>2, <1>5
  <1> QED
    BY <1>5, <1>7, <1>8, <1>9, <1>10, <1>11 DEF QueueShape

\* What a worker has after a batch: of the rows that wait behind its cursor the
\* first are in its queue, and the others come after them.
TakesBatch(w, p) ==
  /\ PassShape(p) /\ p.step \in {"idle", "look"}
  /\ \A q \in ToSet(p.queue) : q.id \in Pending(pass[w].cursor) /\ q.film = posters[q.id].film
  /\ \A j \in Pending(pass[w].cursor) :
        /\ p.step # "idle" /\ p.mark = pass[w].mark /\ p.solved = {}
        /\ \/ \E q \in ToSet(p.queue) : q.id = j
           \/ j > p.cursor /\ \A q \in ToSet(p.queue) : q.id < j

LEMMA BatchTakes ==
  ASSUME PictureIInv, NEW w \in Workers, Batch(w), NEW p, p = pass'[w]
  PROVE  Goes(w, p) /\ TakesBatch(w, p)
  <1>1. Shape
    BY DEF PictureIInv
  <1>2. PICK P : P = Pending(pass[w].cursor)
    OBVIOUS
  <1>3. P \in SUBSET (DOMAIN posters) /\ P \in SUBSET Nat /\ IsFiniteSet(P)
    <2>1. P \in SUBSET (DOMAIN posters)
      BY <1>2 DEF Pending
    <2> QED
      BY <1>1, <2>1, FS_Subset DEF Shape
  <1>4. PICK ids : ids = FirstWaiting(P)
    OBVIOUS
  <1>5. /\ ids = {} => P = {}
        /\ \A j \in P \ ids : \A i \in ids : i < j
        /\ ids \in SUBSET Nat /\ IsFiniteSet(ids) /\ ids \subseteq P
    BY <1>3, <1>4, FirstFacts DEF FirstWaiting
  <1>6. CASE ids = {}
    <2>1. Goes(w, Idle)
      BY <1>2, <1>4, <1>6 DEF Batch, FirstWaiting, Rank
    <2>2. p = Idle
      BY <1>1, <2>1, GoesFacts
    <2>3. PassShape(p) /\ p.step = "idle" /\ ToSet(p.queue) = {}
      BY <2>2, IdleFacts, EmptyQueue
    <2> QED
      BY <1>2, <1>5, <1>6, <2>1, <2>2, <2>3 DEF TakesBatch
  <1>7. CASE ids # {}
    <2>1. PICK q : q = Listed(ids)
      OBVIOUS
    <2>2. /\ QueueShape(q) /\ q # <<>>
          /\ \A x \in ToSet(q) : x.id \in ids /\ x.film = posters[x.id].film
          /\ \A i \in ids : \E x \in ToSet(q) : x.id = i
      BY <1>5, <1>7, <2>1, ListedFacts
    <2>3. Goes(w, [pass[w] EXCEPT !.step = "look", !.solved = {}, !.queue = q])
      <3> DEFINE taken == {i \in Pending(pass[w].cursor) :
                              Cardinality({j \in Pending(pass[w].cursor) : j < i}) < BatchSize}
                 nth(n) == CHOOSE i \in taken : Cardinality({j \in taken : j < i}) = n - 1
                 list == [n \in 1 .. Cardinality(taken) |-> [id |-> nth(n), film |-> posters[nth(n)].film]]
      <3>1. ids = taken
        BY <1>2, <1>4 DEF FirstWaiting, Rank
      <3>2. taken # {} => Goes(w, [pass[w] EXCEPT !.step = "look", !.solved = {}, !.queue = list])
        BY DEF Batch
      <3>3. Listed(taken) = list
        BY DEF Listed, Rank
      <3> HIDE DEF taken, list
      <3> QED
        BY <1>7, <2>1, <3>1, <3>2, <3>3
    <2>4. p = [pass[w] EXCEPT !.step = "look", !.solved = {}, !.queue = q]
      BY <1>1, <2>3, GoesFacts
    <2>5. PassShape(pass[w])
      BY <1>1 DEF Shape
    <2>6. /\ DOMAIN p = DOMAIN pass[w] /\ p.step = "look" /\ p.solved = {} /\ p.queue = q
          /\ p.cursor = pass[w].cursor /\ p.mark = pass[w].mark
      BY <2>4, <2>5 DEF PassShape
    <2>7. PassShape(p)
      BY <2>2, <2>5, <2>6 DEF PassShape, InQueue, AtHead
    <2>8. \A j \in P : j > p.cursor
      BY <1>2, <2>6 DEF Pending
    <2>9. \A j \in P : \/ \E x \in ToSet(q) : x.id = j
                       \/ j > p.cursor /\ \A x \in ToSet(q) : x.id < j
      <3> SUFFICES ASSUME NEW j \in P PROVE \/ \E x \in ToSet(q) : x.id = j
                                            \/ j > p.cursor /\ \A x \in ToSet(q) : x.id < j
        OBVIOUS
      <3>1. CASE j \in ids
        BY <2>2, <3>1
      <3>2. CASE j \notin ids
        BY <1>5, <2>2, <2>8, <3>2
      <3> QED
        BY <3>1, <3>2
    <2> QED
      BY <1>2, <1>5, <2>2, <2>3, <2>4, <2>6, <2>7, <2>9 DEF TakesBatch
  <1> QED
    BY <1>6, <1>7

LEMMA BatchKeeps ==
  ASSUME PictureIInv, NEW w \in Workers, Batch(w)
  PROVE  PictureIInv'
  <1>1. Shape /\ Meaning
    BY DEF PictureIInv
  <1>2. PICK p : p = pass'[w]
    OBVIOUS
  <1>3. Goes(w, p) /\ TakesBatch(w, p)
    BY <1>2, BatchTakes
  <1>4. pass[w].step = "batch" /\ UNCHANGED <<posters, art, refreshes, calm>>
    BY DEF Batch, counts
  <1>5. DOMAIN pass' = Workers /\ pass'[w] = p /\ \A v \in Workers \ {w} : pass'[v] = pass[v]
    BY <1>1, <1>3, GoesFacts
  <1>6. PassShape(p) /\ p.step \in {"idle", "look"}
    BY <1>3 DEF TakesBatch
  <1>7. \A q \in ToSet(p.queue) : q.id \in DOMAIN posters /\ Waits(q.id) /\ posters[q.id].film = q.film
    BY <1>3 DEF TakesBatch, Pending, Waits
  <1>8. Shape'
    BY <1>1, <1>3, <1>4, <1>6, ShapeGoes
  <1>9. Meaning'
    <2>1. \A i, film : Means(i, film)' => Means(i, film)
      BY <1>1, <1>3, <1>4, <1>7, MeansGoes
    <2> QED
      BY <1>1, <1>4, <2>1, MeaningKept
  <1>10. RememberedMatches'
    BY <1>5, <1>6 DEF PictureIInv, RememberedMatches, Head1
  <1>11. ASSUME calm PROVE CalmState'
    <2>1. CalmState
      BY <1>11 DEF PictureIInv
    <2>2. \A v \in Workers \ {w} : pass[v].step = "idle" /\ ToSet(pass[v].queue) = {}
      BY <1>4, <1>11, OthersIdle
    <2>3. Alone'
      BY <1>5, <2>2 DEF Alone
    <2>4. NoOldPicture'
      <3> SUFFICES ASSUME NEW i \in DOMAIN posters, Waits(i), i \in DOMAIN art PROVE FALSE
        BY <1>4 DEF NoOldPicture, Waits
      <3>1. PICK v \in Workers : pass[v].step = "write" \/ pass[v].step \in Removes
        BY <2>1 DEF CalmState, NoOldPicture
      <3>2. pass[v].step # "idle" /\ pass[v].step # "batch"
        BY <3>1 DEF Removes
      <3> QED
        BY <1>4, <2>2, <3>2
    <2>5. Emptied'
      BY <1>5, <1>6, <2>2 DEF Emptied, SafeToForget, Removes
    <2>6. StillWaits'
      <3> SUFFICES ASSUME NEW v \in Workers, NEW q \in ToSet(pass'[v].queue)
                   PROVE  q.id \in DOMAIN posters' /\ Waits(q.id)'
        BY DEF StillWaits
      <3>1. v = w
        BY <1>5, <2>2
      <3> QED
        BY <1>4, <1>5, <1>7, <3>1 DEF Waits
    <2>7. JustFetched'
      BY <1>5, <1>6, <2>2 DEF JustFetched
    <2>8. ToldOrMended'
      <3>1. ASSUME NEW i, NEW v \in Workers, Mends(v, i) PROVE Mends(w, i)'
        <4>1. v = w
          BY <2>2, <3>1 DEF Mends
        <4>2. PICK j \in DOMAIN posters :
                /\ Series(posters[j].film) # {} /\ Series(posters[j].film) = Series(posters[i].film)
                /\ Waits(j) /\ Ahead(w, j)
          BY <3>1, <4>1 DEF Mends
        <4>3. ToSet(pass[w].queue) = {}
          <5>1. pass[w].queue = <<>>
            BY <1>1, <1>4 DEF Shape, PassShape, InQueue, AtHead
          <5> QED
            BY <5>1, EmptyQueue
        <4>4. j \in Pending(pass[w].cursor)
          BY <4>2, <4>3 DEF Ahead, Pending, Waits
        <4>5. /\ p.step # "idle" /\ p.mark = pass[w].mark /\ p.solved = {}
              /\ \/ \E q \in ToSet(p.queue) : q.id = j
                 \/ j > p.cursor /\ \A q \in ToSet(p.queue) : q.id < j
          BY <1>3, <4>4 DEF TakesBatch
        <4>6. Ahead(w, j)'
          BY <1>5, <4>5 DEF Ahead
        <4>7. pass[w].mark
          BY <3>1, <4>1 DEF Mends
        <4> QED
          BY <1>4, <1>5, <4>2, <4>5, <4>6, <4>7 DEF Mends, Waits
      <3> QED
        BY <1>4, <2>1, <3>1 DEF CalmState, ToldOrMended, HasArt, Served
    <2>9. NoneOlder'
      BY <1>4, <2>1 DEF CalmState, NoneOlder
    <2> QED
      BY <2>3, <2>4, <2>5, <2>6, <2>7, <2>8, <2>9 DEF CalmState
  <1> QED
    BY <1>4, <1>8, <1>9, <1>10, <1>11 DEF PictureIInv

-----------------------------------------------------------------------------
(* Posters: asking again.                                                  *)

\* A pass that has no row in hand.
EmptyHands(p) ==
  PassShape(p) /\ p.queue = <<>> /\ p.step \in {"idle", "batch", "clear", "clear again", "forget"}

LEMMA BootFacts ==
  /\ EmptyHands(Idle) /\ EmptyHands([Idle EXCEPT !.step = "batch"])
  /\ \A stage \in {"batch", "clear"} :
        LET p == [Idle EXCEPT !.step = stage, !.mark = TRUE]
        IN  EmptyHands(p) /\ p.mark = TRUE /\ p.step = stage /\ p.cursor = 0 /\ p.solved = {}
  <1>1. QueueShape(<<>>)
    BY EmptyQueue
  <1> QED
    BY <1>1 DEF Idle, EmptyHands, PassShape, Forgets, InQueue, AtHead

LEMMA QuietFacts ==
  ASSUME PictureIInv, calm, Quiet
  PROVE  /\ \A i \in DOMAIN posters : Waits(i) => i \notin DOMAIN art
         /\ \A i \in DOMAIN posters : HasArt(i) => Served(i) # {}
         /\ NoneOlder
  <1>1. CalmState
    BY DEF PictureIInv
  <1>2. \A w \in Workers : pass[w].step \notin {"write"} \cup Removes
    BY DEF Quiet, Removes
  <1>3. \A i \in DOMAIN posters : Waits(i) => i \notin DOMAIN art
    BY <1>1, <1>2 DEF CalmState, NoOldPicture
  <1>4. \A i \in DOMAIN posters : HasArt(i) => Served(i) # {}
    BY <1>1 DEF CalmState, ToldOrMended, Mends, Quiet
  <1> QED
    BY <1>1, <1>3, <1>4 DEF CalmState

\* When no worker has a row in hand, nothing is expected of the rows in hand.
LEMMA EmptyHandsFacts ==
  ASSUME \A v \in Workers : EmptyHands(pass'[v]) /\ SafeToForget(v)'
  PROVE  Emptied' /\ StillWaits' /\ JustFetched' /\ RememberedMatches'
  <1>1. \A v \in Workers : /\ pass'[v].step \notin Removes /\ pass'[v].step # "write" /\ pass'[v].step # "byId"
                           /\ ToSet(pass'[v].queue) = {}
    BY EmptyQueue DEF EmptyHands, Removes
  <1> QED
    BY <1>1 DEF Emptied, StillWaits, JustFetched, RememberedMatches

LEMMA OthersEmpty ==
  ASSUME PictureIInv, NEW v \in Workers, pass[v].step = "idle"
  PROVE  EmptyHands(pass[v])
BY DEF PictureIInv, Shape, PassShape, EmptyHands, InQueue, AtHead

\* A pass that begins by forgetting leaves everything as it is.
LEMMA PassBegins ==
  ASSUME PictureIInv, NEW w \in Workers, NEW p, EmptyHands(p), p.step # "idle",
         p.gone \subseteq DOMAIN posters, Goes(w, p), UNCHANGED <<posters, art>>,
         refreshes' = refreshes + 1, calm' = (calm /\ Quiet)
  PROVE  PictureIInv'
  <1>1. Shape /\ Meaning
    BY DEF PictureIInv
  <1>2. Goes(w, p) /\ UNCHANGED <<posters, art>> /\ refreshes' = refreshes + 1 /\ calm' = (calm /\ Quiet)
    OBVIOUS
  <1>3. EmptyHands(p)
    OBVIOUS
  <1>4. DOMAIN pass' = Workers /\ pass'[w] = p /\ \A v \in Workers \ {w} : pass'[v] = pass[v]
    BY <1>1, <1>2, GoesFacts
  <1>5. Shape'
    <2>1. \A v \in Workers : PassShape(pass'[v])
      BY <1>1, <1>3, <1>4 DEF Shape, EmptyHands
    <2>2. \A i \in DOMAIN posters : RowShape(posters[i], refreshes + 1)
      BY <1>1 DEF Shape, RowShape
    <2>3. refreshes' \in Nat /\ calm' \in BOOLEAN
      BY <1>1, <1>2 DEF Shape
    <2> QED
      BY <1>1, <1>2, <1>4, <2>1, <2>2, <2>3 DEF Shape
  <1>6. Meaning'
    <2>1. ToSet(p.queue) = {}
      BY <1>3, EmptyQueue DEF EmptyHands
    <2>2. \A i, film : Means(i, film)' => Means(i, film)
      BY <1>1, <1>2, <2>1, MeansGoes
    <2> QED
      BY <1>1, <1>2, <2>2, MeaningKept
  <1>7. RememberedMatches'
    BY <1>3, <1>4 DEF PictureIInv, RememberedMatches, Head1, EmptyHands
  <1>8. ASSUME calm' PROVE CalmState'
    <2>1. calm /\ Quiet
      BY <1>2, <1>8
    <2>2. /\ \A i \in DOMAIN posters : Waits(i) => i \notin DOMAIN art
          /\ \A i \in DOMAIN posters : HasArt(i) => Served(i) # {}
          /\ NoneOlder
      BY <2>1, QuietFacts
    <2>3. \A v \in Workers : EmptyHands(pass'[v]) /\ SafeToForget(v)'
      BY <1>2, <1>3, <1>4, <2>1, OthersEmpty DEF Quiet, SafeToForget
    <2>4. Emptied' /\ StillWaits' /\ JustFetched'
      BY <2>3, EmptyHandsFacts
    <2>5. Alone'
      BY <1>4, <2>1 DEF Alone, Quiet
    <2>6. NoOldPicture'
      BY <1>2, <2>2 DEF NoOldPicture, Waits
    <2>7. ToldOrMended' /\ NoneOlder'
      BY <1>2, <2>2 DEF ToldOrMended, HasArt, Served, NoneOlder
    <2> QED
      BY <2>4, <2>5, <2>6, <2>7 DEF CalmState
  <1> QED
    BY <1>5, <1>6, <1>7, <1>8 DEF PictureIInv

LEMMA RefreshAllKeeps ==
  ASSUME PictureIInv, NEW w \in Workers, RefreshAll(w)
  PROVE  PictureIInv'
  <1>1. PICK p : p = [Idle EXCEPT !.step = "clear", !.mark = TRUE]
    OBVIOUS
  <1>2. Goes(w, p) /\ UNCHANGED <<posters, art>> /\ refreshes' = refreshes + 1 /\ calm' = (calm /\ Quiet)
    BY <1>1 DEF RefreshAll, Begins1
  <1>3. EmptyHands(p) /\ p.step = "clear" /\ p.gone = {}
    BY <1>1, BootFacts DEF Idle
  <1> QED
    BY <1>2, <1>3, PassBegins

LEMMA ClearedFacts ==
  ASSUME Shape, NEW n \in Nat, n >= refreshes, NEW ids \in SUBSET (DOMAIN posters), posters' = Cleared(ids, n)
  PROVE  /\ DOMAIN posters' = DOMAIN posters
         /\ \A i \in DOMAIN posters : RowShape(posters'[i], n) /\ posters'[i].film = posters[i].film
         /\ \A i \in ids : posters'[i].file = {} /\ posters'[i].tried = FALSE
         /\ \A i \in DOMAIN posters \ ids : posters'[i] = posters[i]
  <1>1. DOMAIN posters' = DOMAIN posters
    BY DEF Cleared
  <1>2. \A i \in DOMAIN posters \ ids : posters'[i] = posters[i]
    BY DEF Cleared
  <1>3. ASSUME NEW i \in DOMAIN posters
        PROVE  RowShape(posters[i], n)
    BY DEF Shape, RowShape
  <1>4. ASSUME NEW i \in ids
        PROVE  /\ posters'[i].file = {} /\ posters'[i].tried = FALSE /\ posters'[i].film = posters[i].film
               /\ RowShape(posters'[i], n)
    <2>1. posters'[i] = [posters[i] EXCEPT !.file = {}, !.tried = FALSE, !.due = n]
      BY DEF Cleared
    <2>2. n \in 0 .. n
      OBVIOUS
    <2> QED
      BY <1>3, <2>1, <2>2 DEF RowShape
  <1> QED
    BY <1>1, <1>2, <1>3, <1>4

LEMMA ForgetRowsKeeps ==
  ASSUME PictureIInv, NEW w \in Workers, ForgetRows(w)
  PROVE  PictureIInv'
  <1>1. Shape /\ Meaning
    BY DEF PictureIInv
  <1>2. pass[w].step \in {"clear", "clear again"} /\ UNCHANGED <<art, refreshes, calm>>
    BY DEF ForgetRows, counts
  <1>3. PICK p : p = [pass[w] EXCEPT !.gone = Had, !.step = IF @ = "clear" THEN "remove" ELSE "remove again"]
    OBVIOUS
  <1>4. Goes(w, p) /\ posters' = Cleared(DOMAIN posters, refreshes)
    BY <1>3 DEF ForgetRows
  <1>5. PassShape(pass[w])
    BY <1>1 DEF Shape
  <1>6. /\ DOMAIN p = DOMAIN pass[w] /\ p.gone = Had /\ p.step \in Removes /\ p.queue = pass[w].queue
        /\ p.mark = pass[w].mark /\ p.cursor = pass[w].cursor /\ p.solved = pass[w].solved
    BY <1>3, <1>5 DEF PassShape, Removes
  <1>7. p.queue = <<>>
    BY <1>2, <1>5, <1>6 DEF PassShape, InQueue, AtHead
  <1>8. PassShape(p)
    BY <1>5, <1>6, <1>7 DEF PassShape, Removes, Forgets, InQueue, AtHead
  <1>9. DOMAIN pass' = Workers /\ pass'[w] = p /\ \A v \in Workers \ {w} : pass'[v] = pass[v]
    BY <1>1, <1>4, GoesFacts
  <1>10. /\ DOMAIN posters' = DOMAIN posters
         /\ \A i \in DOMAIN posters : /\ RowShape(posters'[i], refreshes) /\ posters'[i].film = posters[i].film
                                      /\ posters'[i].file = {} /\ posters'[i].tried = FALSE
    <2>1. refreshes \in Nat /\ refreshes >= refreshes
      BY <1>1 DEF Shape
    <2> QED
      BY <1>1, <1>4, <2>1, ClearedFacts
  <1>11. Shape'
    BY <1>1, <1>2, <1>8, <1>9, <1>10 DEF Shape
  <1>12. Meaning'
    <2>1. ToSet(p.queue) = {}
      BY <1>7, EmptyQueue
    <2>2. \A i, film : Means(i, film)' => Means(i, film)
      BY <1>1, <1>2, <1>4, <1>10, <2>1, MeansGoes
    <2> QED
      BY <1>1, <1>10, <2>2, MeaningKept
  <1>13. RememberedMatches'
    BY <1>6, <1>9 DEF PictureIInv, RememberedMatches, Head1, Removes
  <1>14. ASSUME calm PROVE CalmState'
    <2>1. CalmState
      BY <1>14 DEF PictureIInv
    <2>2. \A v \in Workers \ {w} : pass[v].step = "idle" /\ ToSet(pass[v].queue) = {}
      BY <1>2, <1>14, OthersIdle
    <2>3. Alone'
      BY <1>9, <2>2 DEF Alone
    <2>4. NoOldPicture'
      <3> SUFFICES ASSUME NEW i \in DOMAIN posters, i \in DOMAIN art
                   PROVE  pass'[w].step \in Removes /\ i \in pass'[w].gone
        BY <1>2, <1>10 DEF NoOldPicture
      <3>1. ~Waits(i)
        <4> SUFFICES ASSUME Waits(i) PROVE FALSE
          OBVIOUS
        <4>1. PICK v \in Workers : pass[v].step = "write" \/ pass[v].step \in Removes
          BY <2>1 DEF CalmState, NoOldPicture
        <4>2. pass[v].step # "idle" /\ pass[v].step # "clear" /\ pass[v].step # "clear again"
          BY <4>1 DEF Removes
        <4> QED
          BY <1>2, <2>2, <4>2
      <3>2. i \in Had
        BY <3>1 DEF Had, Waits
      <3> QED
        BY <1>6, <1>9, <3>2
    <2>5. Emptied' /\ ToldOrMended' /\ NoneOlder'
      BY <1>10 DEF Emptied, SafeToForget, ToldOrMended, NoneOlder, HasArt
    <2>6. StillWaits' /\ JustFetched'
      <3>1. ToSet(p.queue) = {}
        BY <1>7, EmptyQueue
      <3>2. \A v \in Workers : ToSet(pass'[v].queue) = {}
        BY <1>9, <2>2, <3>1
      <3>3. \A v \in Workers : pass'[v].step # "write"
        BY <1>6, <1>9, <2>2 DEF Removes
      <3> QED
        BY <3>2, <3>3 DEF StillWaits, JustFetched
    <2> QED
      BY <2>3, <2>4, <2>5, <2>6 DEF CalmState
  <1> QED
    BY <1>2, <1>11, <1>12, <1>13, <1>14 DEF PictureIInv

LEMMA ForgetFilesKeeps ==
  ASSUME PictureIInv, NEW w \in Workers, ForgetFiles(w)
  PROVE  PictureIInv'
  <1>1. Shape /\ Meaning
    BY DEF PictureIInv
  <1>2. pass[w].step \in Removes /\ UNCHANGED <<posters, refreshes, calm>> /\ art' = Less(art, pass[w].gone)
    BY DEF ForgetFiles, counts, Removes
  <1>3. PICK p : p = [pass[w] EXCEPT !.gone = {}, !.step = IF @ = "remove" THEN "clear again" ELSE "batch"]
    OBVIOUS
  <1>4. Goes(w, p)
    BY <1>3 DEF ForgetFiles
  <1>5. PassShape(pass[w])
    BY <1>1 DEF Shape
  <1>6. /\ DOMAIN p = DOMAIN pass[w] /\ p.step \in {"batch", "clear again"} /\ p.queue = pass[w].queue
        /\ p.mark = pass[w].mark /\ p.cursor = pass[w].cursor /\ p.solved = pass[w].solved
    BY <1>3, <1>5 DEF PassShape
  <1>7. p.queue = <<>>
    BY <1>2, <1>5, <1>6 DEF PassShape, InQueue, AtHead, Removes
  <1>8. EmptyHands(p)
    BY <1>5, <1>6, <1>7 DEF PassShape, Forgets, InQueue, AtHead, EmptyHands
  <1>9. DOMAIN pass' = Workers /\ pass'[w] = p /\ \A v \in Workers \ {w} : pass'[v] = pass[v]
    BY <1>1, <1>4, GoesFacts
  <1>10. /\ DOMAIN art' = DOMAIN art \ pass[w].gone
         /\ \A i \in DOMAIN art' : art'[i] = art[i]
    BY <1>2 DEF Less
  <1>11. Shape'
    BY <1>1, <1>2, <1>4, <1>8, ShapeGoes DEF EmptyHands
  <1>12. Meaning'
    <2>1. ToSet(p.queue) = {}
      BY <1>7, EmptyQueue
    <2>2. \A i, film : Means(i, film)' => Means(i, film)
      BY <1>1, <1>2, <1>4, <1>10, <2>1, MeansGoes
    <2> QED
      BY <1>1, <1>2, <2>2, MeaningKept
  <1>13. RememberedMatches'
    BY <1>6, <1>9 DEF PictureIInv, RememberedMatches, Head1
  <1>14. ASSUME calm PROVE CalmState'
    <2>1. CalmState
      BY <1>14 DEF PictureIInv
    <2>2. \A v \in Workers \ {w} : pass[v].step = "idle"
      BY <1>2, <1>14, OthersIdle DEF Removes
    <2>3. Alone'
      BY <1>9, <2>2 DEF Alone
    <2>4. NoOldPicture'
      <3> SUFFICES ASSUME NEW i \in DOMAIN posters, Waits(i), i \in DOMAIN art' PROVE FALSE
        BY <1>2 DEF NoOldPicture, Waits
      <3>1. i \in DOMAIN art /\ i \notin pass[w].gone
        BY <1>10
      <3>2. PICK v \in Workers : \/ pass[v].step = "write"
                                 \/ pass[v].step \in Removes /\ i \in pass[v].gone
        BY <2>1, <3>1 DEF CalmState, NoOldPicture
      <3>3. pass[v].step # "idle"
        BY <3>2 DEF Removes
      <3> QED
        BY <1>2, <2>2, <3>1, <3>2, <3>3 DEF Removes
    <2>5. ToldOrMended' /\ NoneOlder'
      <3>1. \A i \in DOMAIN posters : posters[i].file = {}
        BY <1>2, <2>1 DEF CalmState, Emptied
      <3> QED
        BY <1>2, <3>1 DEF ToldOrMended, NoneOlder, HasArt
    <2>6. \A v \in Workers : EmptyHands(pass'[v]) /\ SafeToForget(v)'
      BY <1>6, <1>8, <1>9, <2>2, OthersEmpty DEF SafeToForget
    <2>7. Emptied' /\ StillWaits' /\ JustFetched'
      BY <2>6, EmptyHandsFacts
    <2> QED
      BY <2>3, <2>4, <2>5, <2>7 DEF CalmState
  <1> QED
    BY <1>2, <1>11, <1>12, <1>13, <1>14 DEF PictureIInv

LEMMA RefreshSomeKeeps ==
  ASSUME PictureIInv, NEW w \in Workers, NEW ids \in SUBSET (DOMAIN posters), NEW scopes,
         RefreshSome(w, ids, scopes)
  PROVE  PictureIInv'
  <1>1. PICK p : p = [Idle EXCEPT !.step = "forget", !.mark = TRUE, !.gone = ids, !.scopes = scopes]
    OBVIOUS
  <1>2. Goes(w, p) /\ UNCHANGED <<posters, art>> /\ refreshes' = refreshes + 1 /\ calm' = (calm /\ Quiet)
    BY <1>1 DEF RefreshSome, Begins1
  <1>3. EmptyHands(p) /\ p.step = "forget" /\ p.gone = ids
    BY <1>1, EmptyQueue DEF Idle, EmptyHands, PassShape, Forgets, InQueue, AtHead
  <1> QED
    BY <1>2, <1>3, PassBegins

\* What api_metadata_refresh forgets of one row leaves the rest right: an episode
\* that was given the picture of this one gets another from the pass to come.
LEMMA ForgetItemKeeps ==
  ASSUME PictureIInv, NEW w \in Workers, ForgetItem(w)
  PROVE  PictureIInv'
  <1>1. Shape /\ Meaning
    BY DEF PictureIInv
  <1>2. PICK id \in pass[w].gone :
            posters' = Cleared({id}, refreshes) /\ art' = Less(art, {id})
            /\ Goes(w, [pass[w] EXCEPT !.gone = @ \ {id}])
    BY DEF ForgetItem
  <1>3. pass[w].step = "forget" /\ UNCHANGED <<refreshes, calm>>
    BY DEF ForgetItem, counts
  <1>4. PICK p : p = [pass[w] EXCEPT !.gone = @ \ {id}]
    OBVIOUS
  <1>5. PassShape(pass[w])
    BY <1>1 DEF Shape
  <1>6. /\ DOMAIN p = DOMAIN pass[w] /\ p.step = "forget" /\ p.queue = pass[w].queue
        /\ p.mark = pass[w].mark /\ p.cursor = pass[w].cursor /\ p.solved = pass[w].solved
    BY <1>3, <1>4, <1>5 DEF PassShape
  <1>7. p.queue = <<>> /\ p.mark /\ p.cursor = 0 /\ p.solved = {}
    BY <1>3, <1>5, <1>6 DEF PassShape, InQueue, AtHead
  <1>8. EmptyHands(p)
    BY <1>5, <1>6, <1>7 DEF PassShape, Forgets, InQueue, AtHead, EmptyHands
  <1>9. DOMAIN pass' = Workers /\ pass'[w] = p /\ \A v \in Workers \ {w} : pass'[v] = pass[v]
    BY <1>1, <1>2, <1>4, GoesFacts
  <1>10. ToSet(p.queue) = {}
    BY <1>7, EmptyQueue
  <1>11. /\ DOMAIN posters' = DOMAIN posters
         /\ \A i \in DOMAIN posters : RowShape(posters'[i], refreshes) /\ posters'[i].film = posters[i].film
         /\ \A i \in {id} \cap DOMAIN posters : posters'[i].file = {} /\ posters'[i].tried = FALSE
         /\ \A i \in DOMAIN posters \ {id} : posters'[i] = posters[i]
    <2>1. PICK ids : ids = {id} \cap DOMAIN posters
      OBVIOUS
    <2>2. Cleared({id}, refreshes) = Cleared(ids, refreshes) /\ ids \in SUBSET (DOMAIN posters)
      BY <2>1 DEF Cleared
    <2>3. refreshes \in Nat /\ refreshes >= refreshes
      BY <1>1 DEF Shape
    <2>4. /\ DOMAIN posters' = DOMAIN posters
          /\ \A i \in DOMAIN posters : RowShape(posters'[i], refreshes) /\ posters'[i].film = posters[i].film
          /\ \A i \in ids : posters'[i].file = {} /\ posters'[i].tried = FALSE
          /\ \A i \in DOMAIN posters \ ids : posters'[i] = posters[i]
      BY <1>1, <1>2, <2>2, <2>3, ClearedFacts
    <2> QED
      BY <2>1, <2>4
  <1>12. DOMAIN art' = DOMAIN art \ {id} /\ \A i \in DOMAIN art' : art'[i] = art[i]
    BY <1>2 DEF Less
  <1>13. Shape'
    BY <1>1, <1>3, <1>8, <1>9, <1>11 DEF Shape, EmptyHands
  <1>14. Meaning'
    <2>1. Goes(w, p)
      BY <1>2, <1>4
    <2>2. \A i, film : Means(i, film)' => Means(i, film)
      BY <1>1, <1>10, <1>11, <1>12, <2>1, MeansGoes
    <2> QED
      BY <1>1, <1>11, <2>2, MeaningKept
  <1>15. RememberedMatches'
    BY <1>6, <1>9 DEF PictureIInv, RememberedMatches, Head1
  <1>16. ASSUME calm PROVE CalmState'
    <2>1. CalmState
      BY <1>16 DEF PictureIInv
    <2>2. \A v \in Workers \ {w} : pass[v].step = "idle"
      BY <1>3, <1>16, OthersIdle
    <2>3. \A v \in Workers : pass[v].step # "write" /\ pass[v].step \notin Removes
      BY <1>3, <2>2 DEF Removes
    <2>4. \A i \in DOMAIN posters : Waits(i) => i \notin DOMAIN art
      BY <2>1, <2>3 DEF CalmState, NoOldPicture
    <2>5. Alone'
      BY <1>9, <2>2 DEF Alone
    <2>6. NoOldPicture'
      BY <1>11, <1>12, <2>4 DEF NoOldPicture, Waits
    <2>7. NoneOlder'
      BY <1>11, <1>12, <2>1 DEF CalmState, NoneOlder
    <2>8. \A v \in Workers : EmptyHands(pass'[v]) /\ SafeToForget(v)'
      <3>1. pass'[w].gone \subseteq pass[w].gone
        BY <1>4, <1>5, <1>9 DEF PassShape
      <3>2. \A i \in DOMAIN posters : posters'[i].file \subseteq posters[i].file
        BY <1>11
      <3>3. SafeToForget(w)'
        <4>1. SafeToForget(w)
          BY <2>1 DEF CalmState, Emptied, SafeToForget
        <4> QED
          BY <1>3, <1>11, <3>1, <3>2, <4>1 DEF SafeToForget
      <3>4. \A v \in Workers \ {w} : EmptyHands(pass'[v]) /\ SafeToForget(v)'
        BY <1>9, <2>2, OthersEmpty DEF SafeToForget
      <3> QED
        BY <1>8, <1>9, <3>3, <3>4
    <2>9. Emptied' /\ StillWaits' /\ JustFetched'
      BY <2>8, EmptyHandsFacts
    <2>10. ASSUME NEW j \in DOMAIN posters, Waits(j)',
                  Series(posters[j].film) # {}, NEW i \in DOMAIN posters,
                  Series(posters[j].film) = Series(posters[i].film)
           PROVE  Mends(w, i)'
      <3>1. j \in Nat /\ j > 0
        BY <1>1 DEF Shape
      <3>2. Ahead(w, j)'
        BY <1>7, <1>9, <1>10, <3>1 DEF Ahead
      <3>3. Series(posters'[j].film) # {} /\ Series(posters'[j].film) = Series(posters'[i].film)
        BY <1>11, <2>10
      <3> QED
        BY <1>6, <1>7, <1>9, <1>11, <2>10, <3>2, <3>3 DEF Mends, Series
    <2>11. ToldOrMended'
      <3> SUFFICES ASSUME NEW i \in DOMAIN posters, posters'[i].file # {}, Served(i)' = {}
                   PROVE  Mends(w, i)'
        BY <1>11 DEF ToldOrMended, HasArt
      <3>1. i # id /\ posters'[i] = posters[i]
        BY <1>11
      <3>2. CASE Served(i) # {}
        <4>1. PICK f \in posters[i].file : f \in DOMAIN art
          BY <3>2 DEF Served
        <4>2. f = id
          BY <1>12, <3>1, <4>1 DEF Served
        <4>3. f \in DOMAIN posters /\ f # i
          <5>1. SafeToForget(w)
            BY <2>1 DEF CalmState, Emptied, SafeToForget
          <5> QED
            BY <1>3, <3>1, <4>1, <4>2, <5>1 DEF SafeToForget
        <4>4. Means(f, posters[f].film)
          BY <4>3 DEF Means
        <4>5. Kin(posters[f].film, posters[i].film)
          BY <1>1, <4>1, <4>4 DEF Meaning, FilesOfKin
        <4>6. Series(posters[f].film) # {} /\ Series(posters[f].film) = Series(posters[i].film)
          BY <1>1, <4>3, <4>5 DEF Kin, Meaning, PosterTypeOK
        <4>7. Waits(f)'
          BY <1>11, <4>2, <4>3 DEF Waits
        <4> QED
          BY <2>10, <4>3, <4>6, <4>7
      <3>3. CASE Served(i) = {}
        <4>1. PICK v \in Workers : Mends(v, i)
          BY <2>1, <3>1, <3>3 DEF CalmState, ToldOrMended, HasArt
        <4>2. PICK j \in DOMAIN posters : /\ Series(posters[j].film) # {}
                                          /\ Series(posters[j].film) = Series(posters[i].film)
                                          /\ Waits(j)
          BY <4>1 DEF Mends
        <4>3. Waits(j)'
          BY <1>11, <4>2 DEF Waits
        <4> QED
          BY <2>10, <4>2, <4>3
      <3> QED
        BY <3>2, <3>3
    <2> QED
      BY <2>5, <2>6, <2>7, <2>9, <2>11 DEF CalmState
  <1> QED
    BY <1>3, <1>13, <1>14, <1>15, <1>16 DEF PictureIInv

\* The record of the series is no picture.
LEMMA ForgetScopesKeeps ==
  ASSUME PictureIInv, NEW w \in Workers, ForgetScopes(w)
  PROVE  PictureIInv'
  <1>1. Shape /\ Meaning
    BY DEF PictureIInv
  <1>2. pass[w].step = "forget" /\ UNCHANGED <<posters, art, refreshes, calm>>
    BY DEF ForgetScopes, counts
  <1>3. PICK p : p = [pass[w] EXCEPT !.step = "batch", !.scopes = {}]
    OBVIOUS
  <1>4. Goes(w, p)
    BY <1>3 DEF ForgetScopes
  <1>5. PassShape(pass[w])
    BY <1>1 DEF Shape
  <1>6. /\ DOMAIN p = DOMAIN pass[w] /\ p.step = "batch" /\ p.queue = pass[w].queue
        /\ p.mark = pass[w].mark /\ p.cursor = pass[w].cursor /\ p.solved = pass[w].solved
    BY <1>3, <1>5 DEF PassShape
  <1>7. p.queue = <<>>
    BY <1>2, <1>5, <1>6 DEF PassShape, InQueue, AtHead
  <1>8. EmptyHands(p)
    BY <1>5, <1>6, <1>7 DEF PassShape, Forgets, InQueue, AtHead, EmptyHands
  <1>9. DOMAIN pass' = Workers /\ pass'[w] = p /\ \A v \in Workers \ {w} : pass'[v] = pass[v]
    BY <1>1, <1>4, GoesFacts
  <1>10. Shape'
    BY <1>1, <1>2, <1>4, <1>8, ShapeGoes DEF EmptyHands
  <1>11. Meaning'
    <2>1. ToSet(p.queue) = {}
      BY <1>7, EmptyQueue
    <2>2. \A i, film : Means(i, film)' => Means(i, film)
      BY <1>1, <1>2, <1>4, <2>1, MeansGoes
    <2> QED
      BY <1>1, <1>2, <2>2, MeaningKept
  <1>12. RememberedMatches'
    BY <1>6, <1>9 DEF PictureIInv, RememberedMatches, Head1
  <1>13. ASSUME calm PROVE CalmState'
    <2>1. CalmState
      BY <1>13 DEF PictureIInv
    <2>2. \A v \in Workers \ {w} : pass[v].step = "idle"
      BY <1>2, <1>13, OthersIdle
    <2>3. Alone'
      BY <1>9, <2>2 DEF Alone
    <2>4. NoOldPicture'
      <3>1. \A v \in Workers : pass[v].step # "write" /\ pass[v].step \notin Removes
        BY <1>2, <2>2 DEF Removes
      <3>2. \A i \in DOMAIN posters : Waits(i) => i \notin DOMAIN art
        BY <2>1, <3>1 DEF CalmState, NoOldPicture
      <3> QED
        BY <1>2, <3>2 DEF NoOldPicture, Waits
    <2>5. ToldOrMended'
      <3>1. ASSUME NEW i \in DOMAIN posters, NEW v \in Workers, Mends(v, i)
            PROVE  Mends(w, i)'
        <4>1. v = w
          BY <2>2, <3>1 DEF Mends
        <4>2. pass'[w].mark /\ pass'[w].step # "idle" /\ pass'[w].queue = pass[w].queue
              /\ pass'[w].cursor = pass[w].cursor /\ pass'[w].solved = pass[w].solved
          BY <1>6, <1>9, <3>1, <4>1 DEF Mends
        <4> QED
          BY <1>2, <3>1, <4>1, <4>2 DEF Mends, Waits, Ahead, Series
      <3> QED
        BY <1>2, <2>1, <3>1 DEF CalmState, ToldOrMended, HasArt, Served
    <2>6. NoneOlder'
      BY <1>2, <2>1 DEF CalmState, NoneOlder
    <2>7. \A v \in Workers : EmptyHands(pass'[v]) /\ SafeToForget(v)'
      BY <1>6, <1>8, <1>9, <2>2, OthersEmpty DEF SafeToForget
    <2>8. Emptied' /\ StillWaits' /\ JustFetched'
      BY <2>7, EmptyHandsFacts
    <2> QED
      BY <2>3, <2>4, <2>5, <2>6, <2>8 DEF CalmState
  <1> QED
    BY <1>2, <1>10, <1>11, <1>12, <1>13 DEF PictureIInv

-----------------------------------------------------------------------------
(* Posters: films come and go, and restarts.                               *)

\* A new row has an id that nothing has, and a row of a series goes only when
\* no pass runs.
RowsGoRight ==
  /\ \A i \in DOMAIN posters' \ DOMAIN posters :
        /\ i \notin DOMAIN art
        /\ \A w \in Workers : \A q \in ToSet(pass[w].queue) : q.id # i
        /\ \A j \in DOMAIN posters : i \notin posters[j].file
  /\ \A i \in DOMAIN posters \ DOMAIN posters' : Series(posters[i].film) = {} \/ Quiet

LEMMA NextIsNew ==
  ASSUME Shape
  PROVE  NextId \in Nat \ {0} /\ NextId \notin DOMAIN posters
  <1>1. DOMAIN posters \in SUBSET Nat /\ IsFiniteSet(DOMAIN posters)
    BY DEF Shape
  <1>2. CASE DOMAIN posters = {}
    BY <1>2 DEF NextId
  <1>3. CASE DOMAIN posters # {}
    <2> DEFINE m == CHOOSE i \in DOMAIN posters : \A j \in DOMAIN posters : j <= i
    <2>1. \E i \in DOMAIN posters : \A j \in DOMAIN posters : j <= i
      BY <1>1, <1>3, LargestOfFinite
    <2>2. m \in DOMAIN posters /\ \A j \in DOMAIN posters : j <= m
      BY <2>1
    <2>3. NextId = 1 + m
      BY <1>3 DEF NextId
    <2> HIDE DEF m
    <2>4. m \in Nat
      BY <1>1, <2>2
    <2> QED
      BY <2>2, <2>3, <2>4
  <1> QED
    BY <1>2, <1>3

LEMMA FilmComesKeeps ==
  ASSUME PictureIInv, NEW film \in DOMAIN Titles, FilmComes(film), RowsGoRight
  PROVE  PictureIInv'
  <1>1. Shape /\ Meaning
    BY DEF PictureIInv
  <1>2. PICK new : new = NextId
    OBVIOUS
  <1>3. UNCHANGED <<art, pass, refreshes, calm>> /\ posters' = Put(posters, new, NewRow(film))
        /\ \A i \in DOMAIN posters : posters[i].film # film
    BY <1>2 DEF FilmComes
  <1>4. new \in Nat \ {0} /\ new \notin DOMAIN posters
    BY <1>1, <1>2, NextIsNew
  <1>5. /\ DOMAIN posters' = DOMAIN posters \cup {new} /\ posters'[new] = NewRow(film)
        /\ \A i \in DOMAIN posters : posters'[i] = posters[i]
    BY <1>3, <1>4 DEF Put
  <1>6. /\ new \notin DOMAIN art
        /\ \A w \in Workers : \A q \in ToSet(pass[w].queue) : q.id # new
        /\ \A j \in DOMAIN posters : new \notin posters[j].file
    BY <1>4, <1>5 DEF RowsGoRight
  <1>7. /\ posters'[new].film = film /\ posters'[new].file = {} /\ posters'[new].tried = FALSE
        /\ RowShape(posters'[new], refreshes)
    <2>1. 0 \in 0 .. refreshes
      BY <1>1 DEF Shape
    <2> QED
      BY <1>5, <2>1 DEF NewRow, RowShape
  <1>8. Shape'
    <2>1. IsFiniteSet(DOMAIN posters')
      BY <1>1, <1>5, FS_AddElement DEF Shape
    <2> QED
      BY <1>1, <1>3, <1>4, <1>5, <1>7, <2>1 DEF Shape
  <1>9. Meaning'
    <2>1. \A i, other : Means(i, other)' => Means(i, other) \/ (i = new /\ other = film)
      <3> SUFFICES ASSUME NEW i, NEW other, Means(i, other)'
                   PROVE  Means(i, other) \/ (i = new /\ other = film)
        OBVIOUS
      <3>1. \/ i \in DOMAIN posters' /\ posters'[i].film = other
            \/ i \in DOMAIN art /\ art[i].sought = other
            \/ \E w \in Workers : \E q \in ToSet(pass[w].queue) : q.id = i /\ q.film = other
        BY <1>3 DEF Means
      <3>2. CASE i \in DOMAIN posters' /\ posters'[i].film = other
        BY <1>5, <1>7, <3>2 DEF Means
      <3> QED
        BY <3>1, <3>2 DEF Means
    <2>2. \A other : ~Means(new, other)
      BY <1>4, <1>6 DEF Means
    <2>3. OneFilm'
      <3> SUFFICES ASSUME NEW i, NEW one, Means(i, one)'
                   PROVE  one \in DOMAIN Titles /\ \A other : Means(i, other)' => one = other
        BY DEF OneFilm
      <3>1. CASE i = new
        BY <2>1, <2>2, <3>1
      <3>2. CASE i # new
        BY <1>1, <2>1, <3>2 DEF Meaning, OneFilm
      <3> QED
        BY <3>1, <3>2
    <2>4. FilesOfKin'
      <3> SUFFICES ASSUME NEW i \in DOMAIN posters', NEW f \in posters'[i].file, NEW other, Means(f, other)'
                   PROVE  Kin(other, posters'[i].film)
        BY DEF FilesOfKin, Kin
      <3>1. i \in DOMAIN posters /\ posters'[i] = posters[i]
        BY <1>5, <1>7
      <3>2. f # new
        BY <1>6, <3>1
      <3>3. Means(f, other)
        BY <2>1, <3>2
      <3> QED
        BY <1>1, <3>1, <3>3 DEF Meaning, FilesOfKin
    <2>5. PosterTypeOK'
      <3>1. \A i \in DOMAIN posters' : /\ posters'[i].film \in DOMAIN Titles
                                        /\ ~(posters'[i].file # {} /\ posters'[i].tried)
        BY <1>1, <1>5, <1>7 DEF Meaning, PosterTypeOK, HasArt
      <3>2. \A i, j \in DOMAIN posters' : posters'[i].film = posters'[j].film => i = j
        BY <1>1, <1>3, <1>5, <1>7 DEF Meaning, PosterTypeOK
      <3> QED
        BY <3>1, <3>2 DEF PosterTypeOK, HasArt
    <2>6. OneSeriesOnePoster'
      <3> SUFFICES ASSUME NEW i \in DOMAIN posters', NEW j \in DOMAIN posters', Series(posters'[i].film) # {},
                          Series(posters'[i].film) = Series(posters'[j].film),
                          posters'[i].file # {}, posters'[j].file # {}
                   PROVE  posters'[i].file = posters'[j].file
        BY DEF OneSeriesOnePoster, HasArt, Series
      <3>1. i \in DOMAIN posters /\ j \in DOMAIN posters
        BY <1>5, <1>7
      <3> QED
        BY <1>1, <1>5, <3>1 DEF Meaning, OneSeriesOnePoster, HasArt
    <2> QED
      BY <2>3, <2>4, <2>5, <2>6 DEF Meaning
  <1>10. RememberedMatches'
    BY <1>3 DEF PictureIInv, RememberedMatches, Head1
  <1>11. ASSUME calm PROVE CalmState'
    <2>1. CalmState
      BY <1>11 DEF PictureIInv
    <2>2. Alone'
      BY <1>3, <2>1 DEF CalmState, Alone
    <2>3. NoOldPicture'
      <3> SUFFICES ASSUME NEW i \in DOMAIN posters', Waits(i)', i \in DOMAIN art
                   PROVE  \E w \in Workers : \/ pass[w].step = "write" /\ Head1(w).id = i
                                             \/ pass[w].step \in Removes /\ i \in pass[w].gone
        BY <1>3 DEF NoOldPicture, Head1
      <3>1. i \in DOMAIN posters /\ Waits(i)
        BY <1>5, <1>6 DEF Waits
      <3> QED
        BY <2>1, <3>1 DEF CalmState, NoOldPicture
    <2>4. Emptied'
      <3>1. ASSUME NEW w \in Workers, pass[w].step \in Removes, NEW i \in DOMAIN posters'
            PROVE  posters'[i].file = {}
        BY <1>5, <1>7, <2>1, <3>1 DEF CalmState, Emptied
      <3>2. ASSUME NEW w \in Workers, pass[w].step = "forget",
                   NEW f \in pass[w].gone \ DOMAIN posters', NEW i \in DOMAIN posters'
            PROVE  f \notin posters'[i].file
        <4>1. \A x \in pass[w].gone \ DOMAIN posters : \A j \in DOMAIN posters : x \notin posters[j].file
          BY <2>1, <3>2 DEF CalmState, Emptied, SafeToForget
        <4>2. f \notin DOMAIN posters
          BY <1>5, <3>2
        <4> QED
          BY <1>5, <1>7, <3>2, <4>1, <4>2
      <3> QED
        BY <1>3, <3>1, <3>2 DEF Emptied, SafeToForget
    <2>5. StillWaits'
      <3> SUFFICES ASSUME NEW w \in Workers, NEW q \in ToSet(pass[w].queue)
                   PROVE  /\ q.id \in DOMAIN posters' => Waits(q.id)' \/ Series(q.film) \in pass[w].solved
                          /\ Series(q.film) # {} => q.id \in DOMAIN posters'
        BY <1>3 DEF StillWaits, Series
      <3>1. q.id \in DOMAIN posters' => q.id \in DOMAIN posters /\ (Waits(q.id) => Waits(q.id)')
        BY <1>5, <1>6 DEF Waits
      <3>2. /\ q.id \in DOMAIN posters => Waits(q.id) \/ Series(q.film) \in pass[w].solved
            /\ Series(q.film) # {} => q.id \in DOMAIN posters
        BY <2>1 DEF CalmState, StillWaits
      <3> QED
        BY <1>5, <3>1, <3>2
    <2>6. JustFetched'
      <3> SUFFICES ASSUME NEW w \in Workers, pass[w].step = "write"
                   PROVE  /\ Head1(w).id \in DOMAIN art
                          /\ Head1(w).id \in DOMAIN posters' => art[Head1(w).id].refresh = refreshes
        BY <1>3 DEF JustFetched, Head1
      <3>1. Head1(w) \in ToSet(pass[w].queue)
        BY HeadFacts DEF InQueue, AtHead
      <3>2. Head1(w).id # new
        BY <1>6, <3>1
      <3> QED
        BY <1>5, <2>1, <3>2 DEF CalmState, JustFetched
    <2>7. ToldOrMended'
      <3> SUFFICES ASSUME NEW i \in DOMAIN posters', posters'[i].file # {}
                   PROVE  Served(i)' # {} \/ \E w \in Workers : Mends(w, i)'
        BY DEF ToldOrMended, HasArt
      <3>1. i \in DOMAIN posters /\ posters'[i] = posters[i]
        BY <1>5, <1>7
      <3>2. CASE Served(i) # {}
        BY <1>3, <3>1, <3>2 DEF Served
      <3>3. ASSUME NEW w \in Workers, Mends(w, i) PROVE Mends(w, i)'
        <4>1. PICK j \in DOMAIN posters :
                /\ Series(posters[j].film) # {} /\ Series(posters[j].film) = Series(posters[i].film)
                /\ Waits(j) /\ Series(posters[j].film) \notin pass[w].solved /\ Ahead(w, j)
          BY <3>3 DEF Mends
        <4>2. j \in DOMAIN posters' /\ posters'[j] = posters[j]
          BY <1>5
        <4>3. Waits(j)' /\ Ahead(w, j)'
          BY <1>3, <4>1, <4>2 DEF Waits, Ahead
        <4>4. pass'[w].mark /\ pass'[w].step # "idle"
          BY <1>3, <3>3 DEF Mends
        <4> QED
          BY <1>3, <3>1, <4>1, <4>2, <4>3, <4>4 DEF Mends, Series
      <3> QED
        BY <2>1, <3>1, <3>2, <3>3 DEF CalmState, ToldOrMended, HasArt
    <2>8. NoneOlder'
      <3> SUFFICES ASSUME NEW i \in DOMAIN posters', NEW f \in posters'[i].file \cap DOMAIN art
                   PROVE  art[f].refresh >= posters'[i].due
        BY <1>3 DEF NoneOlder
      <3>1. i \in DOMAIN posters /\ posters'[i] = posters[i]
        BY <1>5, <1>7
      <3> QED
        BY <2>1, <3>1 DEF CalmState, NoneOlder
    <2> QED
      BY <2>2, <2>3, <2>4, <2>5, <2>6, <2>7, <2>8 DEF CalmState
  <1> QED
    BY <1>3, <1>8, <1>9, <1>10, <1>11 DEF PictureIInv

LEMMA FilmGoesKeeps ==
  ASSUME PictureIInv, NEW id \in DOMAIN posters, FilmGoes(id), RowsGoRight
  PROVE  PictureIInv'
  <1>1. Shape /\ Meaning
    BY DEF PictureIInv
  <1>2. UNCHANGED <<art, pass, refreshes, calm>> /\ posters' = Less(posters, {id})
    BY DEF FilmGoes
  <1>3. DOMAIN posters' = DOMAIN posters \ {id} /\ \A i \in DOMAIN posters' : posters'[i] = posters[i]
    BY <1>2 DEF Less
  <1>4. Series(posters[id].film) = {} \/ Quiet
    BY <1>3 DEF RowsGoRight
  <1>5. Shape'
    <2>1. IsFiniteSet(DOMAIN posters')
      BY <1>1, <1>3, FS_RemoveElement DEF Shape
    <2> QED
      BY <1>1, <1>2, <1>3, <2>1 DEF Shape
  <1>6. Meaning'
    <2>1. \A i, film : Means(i, film)' => Means(i, film)
      BY <1>2, <1>3 DEF Means
    <2>2. /\ DOMAIN posters' \subseteq DOMAIN posters
          /\ \A i \in DOMAIN posters' : /\ posters'[i].film = posters[i].film
                                        /\ posters'[i].file = posters[i].file /\ posters'[i].tried = posters[i].tried
      BY <1>3
    <2> QED
      BY <1>1, <2>1, <2>2, MeaningKept
  <1>7. RememberedMatches'
    BY <1>2 DEF PictureIInv, RememberedMatches, Head1
  <1>8. ASSUME calm PROVE CalmState'
    <2>1. CalmState
      BY <1>8 DEF PictureIInv
    <2>2. Alone'
      BY <1>2, <2>1 DEF CalmState, Alone
    <2>3. NoOldPicture'
      BY <1>2, <1>3, <2>1 DEF CalmState, NoOldPicture, Waits, Head1
    <2>4. Emptied'
      <3>1. ASSUME NEW w \in Workers, pass[w].step \in Removes, NEW i \in DOMAIN posters'
            PROVE  posters'[i].file = {}
        BY <1>3, <2>1, <3>1 DEF CalmState, Emptied
      <3>2. ASSUME NEW w \in Workers, pass[w].step = "forget",
                   NEW f \in pass[w].gone \ DOMAIN posters', NEW i \in DOMAIN posters',
                   f \in posters'[i].file
            PROVE  FALSE
        <4>1. i \in DOMAIN posters /\ i # id /\ f \in posters[i].file
          BY <1>3, <3>2
        <4>2. f = id
          <5>1. \A x \in pass[w].gone \ DOMAIN posters : \A j \in DOMAIN posters : x \notin posters[j].file
            BY <2>1, <3>2 DEF CalmState, Emptied, SafeToForget
          <5> QED
            BY <1>3, <3>2, <4>1, <5>1
        <4>3. Means(id, posters[id].film)
          BY DEF Means
        <4>4. Kin(posters[id].film, posters[i].film)
          BY <1>1, <4>1, <4>2, <4>3 DEF Meaning, FilesOfKin
        <4>5. Series(posters[id].film) = {}
          BY <1>4, <3>2 DEF Quiet
        <4>6. posters[id].film = posters[i].film
          BY <4>4, <4>5 DEF Kin
        <4> QED
          BY <1>1, <4>1, <4>6 DEF Meaning, PosterTypeOK
      <3> QED
        BY <1>2, <3>1, <3>2 DEF Emptied, SafeToForget
    <2>5. StillWaits'
      <3> SUFFICES ASSUME NEW w \in Workers, NEW q \in ToSet(pass[w].queue)
                   PROVE  /\ q.id \in DOMAIN posters' => Waits(q.id)' \/ Series(q.film) \in pass[w].solved
                          /\ Series(q.film) # {} => q.id \in DOMAIN posters'
        BY <1>2 DEF StillWaits, Series
      <3>1. /\ q.id \in DOMAIN posters => Waits(q.id) \/ Series(q.film) \in pass[w].solved
            /\ Series(q.film) # {} => q.id \in DOMAIN posters
        BY <2>1 DEF CalmState, StillWaits
      <3>2. q.id \in DOMAIN posters' => Waits(q.id)' \/ Series(q.film) \in pass[w].solved
        BY <1>3, <3>1 DEF Waits
      <3>3. ASSUME Series(q.film) # {}, q.id = id PROVE FALSE
        <4>1. Means(id, q.film) /\ Means(id, posters[id].film)
          BY <3>3 DEF Means
        <4>2. posters[id].film = q.film
          BY <1>1, <4>1 DEF Meaning, OneFilm
        <4>3. pass[w].step = "idle"
          BY <1>4, <3>3, <4>2 DEF Quiet
        <4>4. pass[w].queue = <<>>
          BY <4>3, OthersEmpty DEF EmptyHands
        <4> QED
          BY <4>4, EmptyQueue
      <3> QED
        BY <1>3, <3>1, <3>2, <3>3
    <2>6. JustFetched'
      BY <1>2, <1>3, <2>1 DEF CalmState, JustFetched, Head1
    <2>7. ToldOrMended'
      <3> SUFFICES ASSUME NEW i \in DOMAIN posters', posters'[i].file # {}
                   PROVE  Served(i)' # {} \/ \E w \in Workers : Mends(w, i)'
        BY DEF ToldOrMended, HasArt
      <3>1. i \in DOMAIN posters /\ posters'[i] = posters[i]
        BY <1>3
      <3>2. CASE Served(i) # {}
        BY <1>2, <3>1, <3>2 DEF Served
      <3>3. ASSUME NEW w \in Workers, Mends(w, i) PROVE Mends(w, i)'
        <4>1. PICK j \in DOMAIN posters :
                /\ Series(posters[j].film) # {} /\ Series(posters[j].film) = Series(posters[i].film)
                /\ Waits(j) /\ Series(posters[j].film) \notin pass[w].solved /\ Ahead(w, j)
          BY <3>3 DEF Mends
        <4>2. pass'[w].mark /\ pass'[w].step # "idle" /\ pass[w].step # "idle"
          BY <1>2, <3>3 DEF Mends
        <4>3. j # id
          BY <1>4, <4>1, <4>2 DEF Quiet
        <4>4. j \in DOMAIN posters' /\ posters'[j] = posters[j]
          BY <1>3, <4>3
        <4>5. Waits(j)' /\ Ahead(w, j)'
          BY <1>2, <4>1, <4>4 DEF Waits, Ahead
        <4> QED
          BY <1>2, <3>1, <4>1, <4>2, <4>4, <4>5 DEF Mends, Series
      <3> QED
        BY <2>1, <3>1, <3>2, <3>3 DEF CalmState, ToldOrMended, HasArt
    <2>8. NoneOlder'
      BY <1>2, <1>3, <2>1 DEF CalmState, NoneOlder
    <2> QED
      BY <2>2, <2>3, <2>4, <2>5, <2>6, <2>7, <2>8 DEF CalmState
  <1> QED
    BY <1>2, <1>5, <1>6, <1>7, <1>8 DEF PictureIInv

LEMMA RestartKeeps ==
  ASSUME PictureIInv, PosterRestart
  PROVE  PictureIInv'
  <1>1. Shape /\ Meaning
    BY DEF PictureIInv
  <1>2. UNCHANGED <<posters, art, refreshes>> /\ calm' = (calm /\ Quiet)
    BY DEF PosterRestart
  <1>3. /\ DOMAIN pass' = Workers /\ \A v \in Workers : EmptyHands(pass'[v])
        /\ \A v \in Workers : v # Boot => pass'[v].step = "idle"
        /\ \A v \in Workers : pass'[v].step # "forget"
    <2>1. pass' = [w \in Workers |-> IF w = Boot THEN [Idle EXCEPT !.step = "batch"] ELSE Idle]
      BY DEF PosterRestart
    <2> QED
      BY <2>1, BootFacts, IdleFacts
  <1>4. Emptied' /\ StillWaits' /\ JustFetched' /\ RememberedMatches'
    BY <1>3, EmptyHandsFacts DEF SafeToForget
  <1>5. Shape'
    BY <1>1, <1>2, <1>3 DEF Shape, EmptyHands
  <1>6. Meaning'
    <2>1. \A v \in Workers : ToSet(pass'[v].queue) = {}
      BY <1>3, EmptyQueue DEF EmptyHands
    <2>2. \A i, film : Means(i, film)' => Means(i, film)
      BY <1>2, <2>1 DEF Means
    <2> QED
      BY <1>1, <1>2, <2>2, MeaningKept
  <1>7. ASSUME calm' PROVE CalmState'
    <2>1. /\ \A i \in DOMAIN posters : Waits(i) => i \notin DOMAIN art
          /\ \A i \in DOMAIN posters : HasArt(i) => Served(i) # {}
          /\ NoneOlder
      BY <1>2, <1>7, QuietFacts
    <2>2. Alone'
      BY <1>3 DEF Alone
    <2>3. NoOldPicture' /\ ToldOrMended' /\ NoneOlder'
      BY <1>2, <2>1 DEF NoOldPicture, ToldOrMended, NoneOlder, Waits, HasArt, Served
    <2> QED
      BY <1>4, <2>2, <2>3 DEF CalmState
  <1> QED
    BY <1>4, <1>5, <1>6, <1>7 DEF PictureIInv

LEMMA PosterInitHolds == PosterInit => PictureIInv
  <1> SUFFICES ASSUME PosterInit PROVE PictureIInv
    OBVIOUS
  <1>1. PICK n : n = Len(FirstFilms)
    OBVIOUS
  <1>2. /\ n \in Nat /\ DOMAIN FirstFilms = 1 .. n
        /\ \A k \in 1 .. n : FirstFilms[k] \in DOMAIN Titles
        /\ \A k, l \in 1 .. n : FirstFilms[k] = FirstFilms[l] => k = l
    BY <1>1, PostersAssumption DEF IsInjective
  <1>3. /\ posters = [i \in 1 .. n |-> NewRow(FirstFilms[i])] /\ art = <<>>
        /\ refreshes = 0 /\ calm = TRUE
        /\ pass = [w \in Workers |-> IF w = Boot THEN [Idle EXCEPT !.step = "batch"] ELSE Idle]
    BY <1>2 DEF PosterInit
  <1>4. /\ DOMAIN posters = 1 .. n
        /\ \A i \in 1 .. n : posters[i].film = FirstFilms[i] /\ posters[i].file = {} /\ RowShape(posters[i], 0)
    <2>1. 0 \in 0 .. 0
      OBVIOUS
    <2>2. \A i \in 1 .. n : posters[i] = [film |-> FirstFilms[i], file |-> {}, tried |-> FALSE, due |-> 0]
      BY <1>3 DEF NewRow
    <2>3. ASSUME NEW film \in DOMAIN Titles, NEW r, r = [film |-> film, file |-> {}, tried |-> FALSE, due |-> 0]
          PROVE  r.film = film /\ r.file = {} /\ RowShape(r, 0)
      BY <2>1, <2>3 DEF RowShape
    <2>4. DOMAIN posters = 1 .. n
      BY <1>3
    <2> QED
      BY <1>2, <2>2, <2>3, <2>4
  <1>5. /\ DOMAIN pass = Workers
        /\ \A w \in Workers : /\ PassShape(pass[w]) /\ pass[w].queue = <<>> /\ pass[w].step \in {"idle", "batch"}
                              /\ w # Boot => pass[w].step = "idle"
    <2>1. [Idle EXCEPT !.step = "batch"].step = "batch"
      BY DEF Idle
    <2> QED
      BY <1>3, <2>1, BootFacts, IdleFacts DEF EmptyHands
  <1>6. \A w \in Workers : ToSet(pass[w].queue) = {}
    BY <1>5, EmptyQueue
  <1>7. DOMAIN art = {}
    BY <1>3
  <1>8. Shape
    <2>1. IsFiniteSet(1 .. n) /\ 1 .. n \subseteq Nat \ {0}
      BY <1>2, FS_Interval
    <2> QED
      BY <1>3, <1>4, <1>5, <2>1 DEF Shape
  <1>9. Meaning
    <2>1. OneFilm
      <3>1. \A i, film : Means(i, film) => i \in 1 .. n /\ FirstFilms[i] = film
        BY <1>4, <1>6, <1>7 DEF Means
      <3> QED
        BY <1>2, <3>1 DEF OneFilm
    <2>2. FilesOfKin /\ PosterTypeOK /\ OneSeriesOnePoster
      BY <1>2, <1>4 DEF FilesOfKin, PosterTypeOK, OneSeriesOnePoster, HasArt
    <2> QED
      BY <2>1, <2>2 DEF Meaning
  <1>10. CalmState
    <2>1. Alone
      BY <1>5 DEF Alone
    <2>2. NoOldPicture /\ Emptied /\ ToldOrMended /\ NoneOlder
      BY <1>4, <1>7 DEF NoOldPicture, Emptied, SafeToForget, ToldOrMended, NoneOlder, HasArt
    <2>3. StillWaits /\ JustFetched
      BY <1>5, <1>6 DEF StillWaits, JustFetched
    <2> QED
      BY <2>1, <2>2, <2>3 DEF CalmState
  <1>11. RememberedMatches
    BY <1>5 DEF RememberedMatches
  <1> QED
    BY <1>8, <1>9, <1>10, <1>11 DEF PictureIInv

LEMMA PosterStepKeeps == PictureIInv /\ [PosterNext /\ RowsGoRight]_posterVars => PictureIInv'
  <1> SUFFICES ASSUME PictureIInv, [PosterNext /\ RowsGoRight]_posterVars PROVE PictureIInv'
    OBVIOUS
  <1>1. ASSUME NEW w \in Workers,
               \/ Batch(w) \/ Look(w) \/ Resolve(w) \/ ById(w) \/ ByTitle(w)
               \/ WriteFound(w) \/ WriteMissing(w) \/ ForgetRows(w) \/ ForgetFiles(w)
               \/ ForgetItem(w) \/ ForgetScopes(w)
        PROVE  PictureIInv'
    BY <1>1, BatchKeeps, LookKeeps, ResolveKeeps, AsksForPicturesKeeps, PictureWritesKeep,
       ForgetRowsKeeps, ForgetFilesKeeps, ForgetItemKeeps, ForgetScopesKeeps
  <1>2. ASSUME NEW w \in Refreshers, RefreshAll(w) PROVE PictureIInv'
    BY <1>2, RefreshAllKeeps DEF Workers
  <1>3. ASSUME NEW w \in Refreshers, NEW id \in DOMAIN posters, RefreshOne(w, id) PROVE PictureIInv'
    BY <1>3, RefreshSomeKeeps DEF Workers, RefreshOne
  <1>4. ASSUME NEW w \in Refreshers, NEW film \in DOMAIN Titles, Series(film) # {}, RefreshSeries(w, Series(film))
        PROVE  PictureIInv'
    <2>1. PICK ids : ids = OfSeries(Series(film))
      OBVIOUS
    <2>2. ids \in SUBSET (DOMAIN posters)
      BY <2>1 DEF OfSeries
    <2>3. RefreshSome(w, ids, {<<"series", Series(film)>>})
      BY <1>4, <2>1 DEF RefreshSeries
    <2> QED
      BY <1>4, <2>1, <2>2, <2>3, RefreshSomeKeeps DEF Workers
  <1>5. ASSUME NEW film \in DOMAIN Titles, FilmComes(film), RowsGoRight PROVE PictureIInv'
    BY <1>5, FilmComesKeeps
  <1>6. ASSUME NEW id \in DOMAIN posters, FilmGoes(id), RowsGoRight PROVE PictureIInv'
    BY <1>6, FilmGoesKeeps
  <1>7. CASE PosterRestart
    BY <1>7, RestartKeeps
  <1>8. CASE UNCHANGED posterVars
    <2>1. UNCHANGED <<posters, art, pass, refreshes, calm>>
      BY <1>8 DEF posterVars
    <2>2. Shape' /\ Meaning'
      <3>1. Meaning'
        <4>1. \A i, film : Means(i, film)' => Means(i, film)
          BY <2>1 DEF Means
        <4> QED
          BY <2>1, <4>1, MeaningKept DEF PictureIInv
      <3>2. Shape'
        BY <2>1 DEF PictureIInv, Shape
      <3> QED
        BY <3>1, <3>2
    <2>3. RememberedMatches'
      BY <2>1 DEF PictureIInv, RememberedMatches, Head1
    <2>4. ASSUME calm PROVE CalmState'
      <3>1. CalmState
        BY <2>4 DEF PictureIInv
      <3>2. Alone' /\ Emptied' /\ NoneOlder'
        BY <2>1, <3>1 DEF CalmState, Alone, Emptied, SafeToForget, NoneOlder
      <3>3. NoOldPicture' /\ JustFetched'
        BY <2>1, <3>1 DEF CalmState, NoOldPicture, JustFetched, Waits, Head1
      <3>4. StillWaits'
        BY <2>1, <3>1 DEF CalmState, StillWaits, Waits
      <3>5. ToldOrMended'
        BY <2>1, <3>1 DEF CalmState, ToldOrMended, HasArt, Served, Mends, Waits, Ahead
      <3> QED
        BY <3>2, <3>3, <3>4, <3>5 DEF CalmState
    <2> QED
      BY <2>1, <2>2, <2>3, <2>4 DEF PictureIInv
  <1> QED
    BY <1>1, <1>2, <1>3, <1>4, <1>5, <1>6, <1>7, <1>8 DEF PosterNext

\* Pictures are of the films they are served for, one for a series, there when
\* a television is told of them and fetched after the last time they were asked
\* for (enrich.rs, cache.rs, api_posters_refresh and api_metadata_refresh), in
\* every library and with any number of passes at once, as long as ids are not
\* given out again and no episode goes while a pass runs.
THEOREM PicturesAreTheirOwn == PosterSpec /\ [][RowsGoRight]_posterVars => []PostersInv
  <1>1. PosterInit => PictureIInv
    BY PosterInitHolds
  <1>2. PictureIInv /\ [PosterNext]_posterVars /\ [RowsGoRight]_posterVars => PictureIInv'
    BY PosterStepKeeps
  <1>3. PictureIInv => PostersInv
    BY PicturesAreRight
  <1> QED
    BY <1>1, <1>2, <1>3, PTL DEF PosterSpec

-----------------------------------------------------------------------------
(* Subtitles: order.                                                       *)

\* What stands at places 1, ..., n is a list.
LEMMA InOrderFacts ==
  ASSUME NEW n \in Nat, NEW placed, \A p \in placed : p[1] \in 1 .. n,
         \A k \in 1 .. n : \E p \in placed : p[1] = k, NEW q, q = InOrder(placed)
  PROVE  /\ IsList(q) /\ DOMAIN q = 1 .. n
         /\ \A k \in DOMAIN q : \E p \in placed : p[1] = k /\ q[k] = p[2]
  <1> DEFINE nth(k) == CHOOSE p \in placed : p[1] = k
  <1>1. {p[1] : p \in placed} = 1 .. n
    <2>1. {p[1] : p \in placed} \subseteq 1 .. n
      OBVIOUS
    <2>2. \A k \in 1 .. n : k \in {p[1] : p \in placed}
      OBVIOUS
    <2> QED
      BY <2>1, <2>2
  <1>2. \A k \in 1 .. n : nth(k) \in placed /\ nth(k)[1] = k
    OBVIOUS
  <1>3. q = [k \in {p[1] : p \in placed} |-> nth(k)[2]]
    BY DEF InOrder
  <1> HIDE DEF nth
  <1>4. q = [k \in 1 .. n |-> nth(k)[2]]
    BY <1>1, <1>3
  <1>5. DOMAIN q = 1 .. n /\ q = [k \in 1 .. n |-> q[k]]
    BY <1>4
  <1>6. \A k \in 1 .. n : q[k] = nth(k)[2]
    BY <1>4
  <1>7. IsList(q)
    <2>1. ToSet(q) = {q[k] : k \in 1 .. n}
      BY <1>5 DEF ToSet
    <2>2. \A k \in 1 .. n : q[k] \in ToSet(q)
      BY <2>1
    <2>3. q \in [1 .. n -> ToSet(q)]
      BY <1>5, <2>2
    <2>4. q \in Seq(ToSet(q))
      BY <2>3
    <2> QED
      BY <2>4 DEF IsList
  <1>8. ASSUME NEW k \in DOMAIN q PROVE \E p \in placed : p[1] = k /\ q[k] = p[2]
    <2>1. nth(k) \in placed /\ nth(k)[1] = k /\ q[k] = nth(k)[2]
      BY <1>2, <1>5, <1>6
    <2> QED
      BY <2>1
  <1> QED
    BY <1>5, <1>7, <1>8

\* What is kept was there, and what was there once is kept once.
LEMMA KeptFacts ==
  ASSUME NEW s, NEW P \in SUBSET Nat, IsFiniteSet(P), NEW q, q = Kept(s, P)
  PROVE  /\ IsList(q) /\ \A t \in ToSet(q) : \E i \in P : t = s[i]
         /\ (\A i, j \in P : s[i] = s[j] => i = j) => IsInjective(q)
  <1>1. PICK n : n = Cardinality(P)
    OBVIOUS
  <1>2. n \in Nat
    BY <1>1, FS_CardinalityType
  <1>3. PICK placed : placed = {<<Rank(P, i) + 1, s[i]>> : i \in P}
    OBVIOUS
  <1>4. q = InOrder(placed)
    BY <1>3 DEF Kept, Rank
  <1>5. \A i \in P : Rank(P, i) \in Nat /\ Rank(P, i) < n
    BY <1>1, RanksInOrder
  <1>6. \A p \in placed : p[1] \in 1 .. n
    <2> TAKE p \in placed
    <2>1. PICK i \in P : p = <<Rank(P, i) + 1, s[i]>>
      BY <1>3
    <2>2. p[1] = Rank(P, i) + 1
      BY <2>1
    <2> QED
      BY <1>2, <1>5, <2>2
  <1>7. \A k \in 1 .. n : \E p \in placed : p[1] = k
    <2> TAKE k \in 1 .. n
    <2>1. PICK i \in P : Rank(P, i) = k - 1
      BY <1>1, RanksInOrder
    <2>2. PICK p : p = <<Rank(P, i) + 1, s[i]>>
      OBVIOUS
    <2>3. p \in placed
      BY <1>3, <2>2
    <2>4. Rank(P, i) + 1 = k
      BY <2>1
    <2>5. p[1] = k
      BY <2>2, <2>4
    <2> QED
      BY <2>3, <2>5
  <1>8. /\ IsList(q) /\ DOMAIN q = 1 .. n
        /\ \A k \in DOMAIN q : \E p \in placed : p[1] = k /\ q[k] = p[2]
    BY <1>2, <1>4, <1>6, <1>7, InOrderFacts
  <1>9. \A k \in DOMAIN q : \E p \in placed : p[1] = k /\ q[k] = p[2]
    BY <1>8
  <1>10. ASSUME NEW k \in DOMAIN q PROVE \E i \in P : k = Rank(P, i) + 1 /\ q[k] = s[i]
    <2>1. PICK p \in placed : p[1] = k /\ q[k] = p[2]
      BY <1>9
    <2>2. PICK i \in P : p = <<Rank(P, i) + 1, s[i]>>
      BY <1>3
    <2>3. p[1] = Rank(P, i) + 1 /\ p[2] = s[i]
      BY <2>2
    <2> QED
      BY <2>1, <2>3
  <1>11. ASSUME NEW t \in ToSet(q) PROVE \E i \in P : t = s[i]
    <2>1. PICK k \in DOMAIN q : t = q[k]
      BY DEF ToSet
    <2> QED
      BY <1>10, <2>1
  <1>12. ASSUME \A i, j \in P : s[i] = s[j] => i = j PROVE IsInjective(q)
    <2>1. ASSUME NEW k \in DOMAIN q, NEW l \in DOMAIN q, q[k] = q[l] PROVE k = l
      <3>1. PICK i \in P : k = Rank(P, i) + 1 /\ q[k] = s[i]
        BY <1>10
      <3>2. PICK j \in P : l = Rank(P, j) + 1 /\ q[l] = s[j]
        BY <1>10
      <3>3. i = j
        BY <1>12, <2>1, <3>1, <3>2
      <3> QED
        BY <3>1, <3>2, <3>3
    <2> QED
      BY <2>1 DEF IsInjective
  <1> QED
    BY <1>8, <1>11, <1>12

\* Six numbers compared from the first on.
LEMMA KeysLinear ==
  ASSUME NEW k \in [1..6 -> Int], NEW l \in [1..6 -> Int], NEW m \in [1..6 -> Int]
  PROVE  /\ ~LessKey(k, k)
         /\ LessKey(k, l) /\ LessKey(l, m) => LessKey(k, m)
         /\ k = l \/ LessKey(k, l) \/ LessKey(l, k)
  <1>1. ~LessKey(k, k)
    BY DEF LessKey
  <1>2. ASSUME LessKey(k, l), LessKey(l, m) PROVE LessKey(k, m)
    <2>1. PICK i \in 1..6 : k[i] < l[i] /\ \A j \in 1..(i - 1) : k[j] = l[j]
      BY <1>2 DEF LessKey
    <2>2. PICK h \in 1..6 : l[h] < m[h] /\ \A j \in 1..(h - 1) : l[j] = m[j]
      BY <1>2 DEF LessKey
    <2>3. CASE i <= h
      <3>1. k[i] < m[i]
        BY <2>1, <2>2, <2>3
      <3>2. \A j \in 1..(i - 1) : k[j] = m[j]
        BY <2>1, <2>2, <2>3
      <3> QED
        BY <3>1, <3>2 DEF LessKey
    <2>4. CASE h < i
      <3>1. k[h] < m[h]
        BY <2>1, <2>2, <2>4
      <3>2. \A j \in 1..(h - 1) : k[j] = m[j]
        BY <2>1, <2>2, <2>4
      <3> QED
        BY <3>1, <3>2 DEF LessKey
    <2> QED
      BY <2>3, <2>4
  <1>3. ASSUME k # l PROVE LessKey(k, l) \/ LessKey(l, k)
    <2>1. PICK D : D = {i \in 1..6 : k[i] # l[i]}
      OBVIOUS
    <2>2. D \in SUBSET Nat /\ D # {}
      BY <1>3, <2>1
    <2>3. PICK i \in D : \A j \in D : ~(j < i)
      BY <2>2, LeastNumber
    <2>4. i \in 1..6 /\ k[i] # l[i]
      BY <2>1, <2>3
    <2>5. \A j \in 1..(i - 1) : k[j] = l[j] /\ l[j] = k[j]
      BY <2>1, <2>3, <2>4
    <2>6. k[i] < l[i] \/ l[i] < k[i]
      BY <2>4
    <2> QED
      BY <2>4, <2>5, <2>6 DEF LessKey
  <1> QED
    BY <1>1, <1>2, <1>3

\* An order of all of S.
Linear(S, lt) ==
  /\ \A a \in S : <<a, a>> \notin lt
  /\ \A a, b \in S : a = b \/ <<a, b>> \in lt \/ <<b, a>> \in lt
  /\ \A a, b, c \in S : <<a, b>> \in lt /\ <<b, c>> \in lt => <<a, c>> \in lt

\* What of S comes before a.
Behind(S, lt, a) == {b \in S : <<b, a>> \in lt}
LEMMA OrderRanks ==
  ASSUME NEW S, IsFiniteSet(S), NEW lt, Linear(S, lt)
  PROVE  /\ \A k \in 1 .. Cardinality(S) : \E a \in S : Cardinality(Behind(S, lt, a)) = k - 1
         /\ \A a \in S : Cardinality(Behind(S, lt, a)) + 1 \in 1 .. Cardinality(S)
  <1> USE DEF Linear
  <1>1. Cardinality(S) \in Nat
    BY FS_CardinalityType
  <1>2. ASSUME NEW a \in S
        PROVE  /\ IsFiniteSet(Behind(S, lt, a)) /\ Cardinality(Behind(S, lt, a)) \in Nat
               /\ Cardinality(Behind(S, lt, a)) + 1 \in 1 .. Cardinality(S)
    <2>1. Behind(S, lt, a) \in SUBSET (S \ {a})
      BY DEF Behind
    <2>2. IsFiniteSet(S \ {a}) /\ Cardinality(S \ {a}) = Cardinality(S) - 1
      BY FS_RemoveElement
    <2>3. IsFiniteSet(Behind(S, lt, a)) /\ Cardinality(Behind(S, lt, a)) <= Cardinality(S) - 1
      BY <2>1, <2>2, FS_Subset
    <2>4. Cardinality(Behind(S, lt, a)) \in Nat
      BY <2>3, FS_CardinalityType
    <2> QED
      BY <1>1, <2>3, <2>4
  <1>3. ASSUME NEW a \in S, NEW b \in S, <<a, b>> \in lt
        PROVE  Cardinality(Behind(S, lt, a)) # Cardinality(Behind(S, lt, b))
    <2>1. Behind(S, lt, a) \in SUBSET Behind(S, lt, b)
      BY <1>3 DEF Behind
    <2>2. a \in Behind(S, lt, b) /\ a \notin Behind(S, lt, a)
      BY <1>3 DEF Behind
    <2> QED
      BY <1>2, <2>1, <2>2, FS_Subset
  <1> DEFINE f == [a \in S |-> Cardinality(Behind(S, lt, a)) + 1]
  <1>4. f \in [S -> 1 .. Cardinality(S)]
    BY <1>2
  <1>5. \A a, b \in S : f[a] = f[b] => a = b
    <2> TAKE a \in S, b \in S
    <2>1. Cardinality(Behind(S, lt, a)) \in Nat /\ Cardinality(Behind(S, lt, b)) \in Nat
      BY <1>2
    <2>2. f[a] = f[b] => Cardinality(Behind(S, lt, a)) = Cardinality(Behind(S, lt, b))
      BY <2>1
    <2> QED
      BY <1>3, <2>2
  <1>6. f \in Injection(S, 1 .. Cardinality(S))
    BY <1>4, <1>5 DEF Injection, IsInjective
  <1>7. IsFiniteSet(1 .. Cardinality(S)) /\ Cardinality(1 .. Cardinality(S)) = Cardinality(S)
    BY <1>1, FS_Interval
  <1>8. f \in Surjection(S, 1 .. Cardinality(S))
    <2> HIDE DEF f
    <2> QED
      BY <1>6, <1>7, FS_Injection
  <1>9. \A k \in 1 .. Cardinality(S) : \E a \in S : f[a] = k
    BY <1>8 DEF Surjection
  <1>10. ASSUME NEW k \in 1 .. Cardinality(S) PROVE \E a \in S : Cardinality(Behind(S, lt, a)) = k - 1
    <2>1. PICK a \in S : f[a] = k
      BY <1>9
    <2>2. Cardinality(Behind(S, lt, a)) \in Nat /\ k = Cardinality(Behind(S, lt, a)) + 1
      BY <1>2, <2>1
    <2> QED
      BY <2>2
  <1> QED
    BY <1>2, <1>10

\* A track that has all it is sorted by.
Sortable(t) == {t.codec} \cup t.language \cup UNION {LanguageName(l) : l \in t.language} \subseteq ToSet(Words)

LEMMA KeyOfNumbers ==
  ASSUME NEW t, Sortable(t) PROVE Key(t) \in [1..6 -> Int]
  <1>1. Len(Words) \in Nat /\ DOMAIN Words = 1 .. Len(Words)
    BY SubtitlesAssumption DEF IsList
  <1>2. \A w \in ToSet(Words) : Place[w] \in Nat
    <2> TAKE w \in ToSet(Words)
    <2>1. \E i \in DOMAIN Words : Words[i] = w
      BY DEF ToSet
    <2>2. Place[w] \in DOMAIN Words
      BY <2>1 DEF Place
    <2> QED
      BY <1>1, <2>2
  <1>3. \A S \in SUBSET ToSet(Words) : PlaceOf(S) \in Nat
    <2> TAKE S \in SUBSET ToSet(Words)
    <2>1. S # {} => (CHOOSE w \in S : TRUE) \in ToSet(Words)
      OBVIOUS
    <2> QED
      BY <1>2, <2>1 DEF PlaceOf
  <1>4. \A b : Flag(b) \in Nat
    BY DEF Flag
  <1>5. NameKey(t) \in Nat
    BY <1>1, <1>3 DEF NameKey, Sortable
  <1>6. PlaceOf(t.language) \in Nat /\ Place[t.codec] \in Nat
    BY <1>2, <1>3 DEF Sortable
  <1>7. Flag(~IsText(t)) \in Int /\ Flag(~t.default) \in Int /\ Flag(t.forced) \in Int
    BY <1>4
  <1> QED
    BY <1>5, <1>6, <1>7 DEF Key

\* A key with a place is before another when the key is, or, of equal keys, the place.
LEMMA KeyedLinear ==
  ASSUME NEW S, \A p \in S : p[1] \in [1..6 -> Int] /\ p[2] \in Nat /\ p = <<p[1], p[2]>>,
         NEW lt, \A p, q \in S : <<p, q>> \in lt <=> LessKey(p[1], q[1]) \/ (p[1] = q[1] /\ p[2] < q[2])
  PROVE  Linear(S, lt)
  <1>1. ASSUME NEW a \in S PROVE <<a, a>> \notin lt
    <2>1. ~LessKey(a[1], a[1]) /\ ~(a[2] < a[2])
      BY KeysLinear
    <2> QED
      BY <2>1
  <1>2. ASSUME NEW a \in S, NEW b \in S PROVE a = b \/ <<a, b>> \in lt \/ <<b, a>> \in lt
    <2>1. a[1] = b[1] \/ LessKey(a[1], b[1]) \/ LessKey(b[1], a[1])
      BY KeysLinear
    <2>2. a[2] \in Nat /\ b[2] \in Nat
      OBVIOUS
    <2>3. a[2] = b[2] \/ a[2] < b[2] \/ b[2] < a[2]
      BY <2>2
    <2>4. a[1] = b[1] /\ a[2] = b[2] => a = b
      <3>1. a = <<a[1], a[2]>> /\ b = <<b[1], b[2]>>
        OBVIOUS
      <3> QED
        BY <3>1
    <2>5. (<<a, b>> \in lt <=> LessKey(a[1], b[1]) \/ (a[1] = b[1] /\ a[2] < b[2]))
          /\ (<<b, a>> \in lt <=> LessKey(b[1], a[1]) \/ (b[1] = a[1] /\ b[2] < a[2]))
      OBVIOUS
    <2> QED
      BY <2>1, <2>3, <2>4, <2>5
  <1>3. ASSUME NEW a \in S, NEW b \in S, NEW c \in S, <<a, b>> \in lt, <<b, c>> \in lt
        PROVE  <<a, c>> \in lt
    <2>1. LessKey(a[1], b[1]) /\ LessKey(b[1], c[1]) => LessKey(a[1], c[1])
      BY KeysLinear
    <2>2. a[2] < b[2] /\ b[2] < c[2] => a[2] < c[2]
      <3>1. a[2] \in Nat /\ b[2] \in Nat /\ c[2] \in Nat
        OBVIOUS
      <3> QED
        BY <3>1
    <2>3. LessKey(a[1], b[1]) \/ (a[1] = b[1] /\ a[2] < b[2])
      BY <1>3
    <2>4. LessKey(b[1], c[1]) \/ (b[1] = c[1] /\ b[2] < c[2])
      BY <1>3
    <2>5. LessKey(a[1], c[1]) \/ (a[1] = c[1] /\ a[2] < c[2])
      BY <2>1, <2>2, <2>3, <2>4
    <2> QED
      BY <2>5
  <1> QED
    BY <1>1, <1>2, <1>3 DEF Linear

\* What is sorted was there.
LEMMA PoredajFacts ==
  ASSUME NEW s, IsList(s), \A t \in ToSet(s) : Sortable(t), NEW q, q = Poredaj(s)
  PROVE  IsList(q) /\ \A t \in ToSet(q) : t \in ToSet(s)
  <1>1. PICK D : D = DOMAIN s
    OBVIOUS
  <1>2. IsFiniteSet(D) /\ D \in SUBSET Nat
    <2>1. Len(s) \in Nat /\ D = 1 .. Len(s)
      BY <1>1 DEF IsList
    <2> QED
      BY <2>1, FS_Interval
  <1>3. \A i \in D : s[i] \in ToSet(s) /\ Key(s[i]) \in [1..6 -> Int]
    BY <1>1, KeyOfNumbers DEF ToSet
  <1> DEFINE at(i) == <<Key(s[i]), i>>
             S == {at(i) : i \in D}
             keyed == {<<Key(s[i]), i>> : i \in DOMAIN s}
             lt == {p \in S \X S : LessKey(p[1][1], p[2][1]) \/ (p[1][1] = p[2][1] /\ p[1][2] < p[2][2])}
             placed == {<<Cardinality(Behind(S, lt, p)) + 1, s[p[2]]>> : p \in S}
  <1>4. S = keyed
    BY <1>1
  <1>5. \A a, b \in S : <<a, b>> \in lt <=> LessKey(a[1], b[1]) \/ (a[1] = b[1] /\ a[2] < b[2])
    <2> HIDE DEF S
    <2> QED
      OBVIOUS
  <1>6. ASSUME NEW p \in S
        PROVE  p[1] \in [1..6 -> Int] /\ p[2] \in D /\ p = <<p[1], p[2]>>
    <2>1. PICK i \in D : p = <<Key(s[i]), i>>
      OBVIOUS
    <2>2. p[1] = Key(s[i]) /\ p[2] = i
      BY <2>1
    <2> QED
      BY <1>3, <2>1, <2>2
  <1>7. IsFiniteSet(S)
    <2> DEFINE f == [i \in D |-> at(i)]
    <2> HIDE DEF at
    <2>1. f \in Surjection(D, S)
      BY DEF Surjection
    <2> QED
      BY <1>2, <2>1, FS_Surjection
  <1>8. ASSUME NEW p \in S
        PROVE  Behind(S, lt, p) = {a \in S : LessKey(a[1], p[1]) \/ (a[1] = p[1] /\ a[2] < p[2])}
    <2> HIDE DEF S, lt
    <2> QED
      BY <1>5, <1>8 DEF Behind
  <1>9. q = InOrder(placed)
    <2> DEFINE before(p) == {a \in keyed : LessKey(a[1], p[1]) \/ (a[1] = p[1] /\ a[2] < p[2])}
    <2>1. q = InOrder({<<Cardinality(before(p)) + 1, s[p[2]]>> : p \in keyed})
      BY DEF Poredaj
    <2>2. \A p \in S : before(p) = Behind(S, lt, p)
      <3> HIDE DEF S, keyed, lt
      <3> QED
        BY <1>4, <1>8
    <2> HIDE DEF S, keyed, lt, before
    <2>3. {<<Cardinality(before(p)) + 1, s[p[2]]>> : p \in keyed} = placed
      BY <1>4, <2>2
    <2> QED
      BY <2>1, <2>3
  <1> HIDE DEF S, lt, at, keyed
  <1>10. Linear(S, lt)
    BY <1>2, <1>5, <1>6, KeyedLinear
  <1>13. PICK n : n = Cardinality(S)
    OBVIOUS
  <1>14. n \in Nat
    BY <1>7, <1>13, FS_CardinalityType
  <1>15. \A k \in 1 .. n : \E a \in S : Cardinality(Behind(S, lt, a)) = k - 1
    BY <1>7, <1>10, <1>13, OrderRanks
  <1>16. \A a \in S : Cardinality(Behind(S, lt, a)) + 1 \in 1 .. n
    BY <1>7, <1>10, <1>13, OrderRanks
  <1>17. \A p \in placed : p[1] \in 1 .. n
    <2> TAKE p \in placed
    <2>1. PICK a \in S : p = <<Cardinality(Behind(S, lt, a)) + 1, s[a[2]]>>
      OBVIOUS
    <2>2. p[1] = Cardinality(Behind(S, lt, a)) + 1
      BY <2>1
    <2> QED
      BY <1>16, <2>2
  <1>18. \A k \in 1 .. n : \E p \in placed : p[1] = k
    <2> TAKE k \in 1 .. n
    <2>1. PICK a \in S : Cardinality(Behind(S, lt, a)) = k - 1
      BY <1>15
    <2>2. PICK p : p = <<Cardinality(Behind(S, lt, a)) + 1, s[a[2]]>>
      OBVIOUS
    <2>3. p \in placed
      BY <2>2
    <2>4. Cardinality(Behind(S, lt, a)) + 1 = k
      BY <2>1
    <2>5. p[1] = k
      BY <2>2, <2>4
    <2> QED
      BY <2>3, <2>5
  <1>19. \A p \in placed : \E i \in D : p[2] = s[i]
    <2> TAKE p \in placed
    <2>1. PICK a \in S : p = <<Cardinality(Behind(S, lt, a)) + 1, s[a[2]]>>
      OBVIOUS
    <2>2. p[2] = s[a[2]]
      BY <2>1
    <2> QED
      BY <1>6, <2>2
  <1> HIDE DEF placed
  <1>20. /\ IsList(q) /\ DOMAIN q = 1 .. n
         /\ \A k \in DOMAIN q : \E p \in placed : p[1] = k /\ q[k] = p[2]
    BY <1>9, <1>14, <1>17, <1>18, InOrderFacts
  <1>21. \A k \in DOMAIN q : \E p \in placed : p[1] = k /\ q[k] = p[2]
    BY <1>20
  <1>22. ASSUME NEW t \in ToSet(q) PROVE t \in ToSet(s)
    <2>1. PICK k \in DOMAIN q : t = q[k]
      BY DEF ToSet
    <2>2. PICK p \in placed : q[k] = p[2]
      BY <1>21
    <2>3. PICK i \in D : p[2] = s[i]
      BY <1>19
    <2> QED
      BY <1>3, <2>1, <2>2, <2>3
  <1> QED
    BY <1>20, <1>22

-----------------------------------------------------------------------------
(* Subtitles: names.                                                       *)

\* A track inside a video, as long as it is known.
GoodTrack(t) ==
  /\ t \in InsideTracks /\ Spoken(t.language) /\ t.index # {}
  /\ \A i \in t.index : t.index = {i} /\ ToString(i) \in Digits
WordOf(t) == IF t.language # {} THEN CHOOSE l \in t.language : TRUE ELSE ToString(CHOOSE i \in t.index : TRUE)
Mark(b) == IF b THEN <<"forced">> ELSE <<>>
NameOf(stem, x, b) == stem \o <<x>> \o Mark(b) \o <<"srt">>

\* What such a name is made of can be read from it.
LEMMA NameParts ==
  ASSUME NEW S, NEW stem \in Seq(S), NEW x, NEW b \in BOOLEAN
  PROVE  LET name == NameOf(stem, x, b)
             n == Len(stem)
         IN  /\ IsList(name) /\ Len(name) = IF b THEN n + 3 ELSE n + 2
             /\ \A i \in 1 .. n : name[i] = stem[i]
             /\ name[n + 1] = x /\ (b => name[n + 2] = "forced")
             /\ name[Len(name)] = "srt"
  <1>1. PICK T : T = S \cup {x, "forced", "srt"}
    OBVIOUS
  <1>2. stem \in Seq(T) /\ <<x>> \in Seq(T) /\ <<"forced">> \in Seq(T) /\ <<>> \in Seq(T) /\ <<"srt">> \in Seq(T)
    BY <1>1
  <1>3. PICK head : head = stem \o <<x>>
    OBVIOUS
  <1>4. /\ head \in Seq(T) /\ Len(head) = Len(stem) + 1 /\ head[Len(stem) + 1] = x
        /\ \A i \in 1 .. Len(stem) : head[i] = stem[i]
    BY <1>2, <1>3
  <1>5. CASE b
    <2>1. NameOf(stem, x, b) = head \o <<"forced">> \o <<"srt">>
      BY <1>3, <1>5 DEF NameOf, Mark
    <2>2. PICK name : name = head \o <<"forced">> \o <<"srt">>
      OBVIOUS
    <2>3. /\ name \in Seq(T) /\ Len(name) = Len(stem) + 3 /\ name[Len(stem) + 1] = x
          /\ name[Len(stem) + 2] = "forced" /\ name[Len(stem) + 3] = "srt"
          /\ \A i \in 1 .. Len(stem) : name[i] = stem[i]
      BY <1>2, <1>4, <2>2
    <2>4. name \in Seq(ToSet(name))
      BY <2>3 DEF ToSet
    <2> QED
      BY <1>5, <2>1, <2>2, <2>3, <2>4 DEF IsList
  <1>6. CASE ~b
    <2>1. NameOf(stem, x, b) = head \o <<>> \o <<"srt">>
      BY <1>3, <1>6 DEF NameOf, Mark
    <2>2. PICK name : name = head \o <<>> \o <<"srt">>
      OBVIOUS
    <2>3. /\ name \in Seq(T) /\ Len(name) = Len(stem) + 2 /\ name[Len(stem) + 1] = x
          /\ name[Len(stem) + 2] = "srt"
          /\ \A i \in 1 .. Len(stem) : name[i] = stem[i]
      BY <1>2, <1>4, <2>2
    <2>4. name \in Seq(ToSet(name))
      BY <2>3 DEF ToSet
    <2> QED
      BY <1>6, <2>1, <2>2, <2>3, <2>4 DEF IsList
  <1> QED
    BY <1>5, <1>6

LEMMA SameParts ==
  ASSUME NEW S, NEW stem \in Seq(S), NEW x, NEW y, NEW b \in BOOLEAN, NEW c \in BOOLEAN,
         NameOf(stem, x, b) = NameOf(stem, y, c)
  PROVE  x = y /\ b = c
  <1>1. PICK name : name = NameOf(stem, x, b) /\ name = NameOf(stem, y, c)
    OBVIOUS
  <1>2. Len(stem) \in Nat
    OBVIOUS
  <1>3. Len(name) = (IF b THEN Len(stem) + 3 ELSE Len(stem) + 2) /\ name[Len(stem) + 1] = x
    BY <1>1, NameParts
  <1>4. Len(name) = (IF c THEN Len(stem) + 3 ELSE Len(stem) + 2) /\ name[Len(stem) + 1] = y
    BY <1>1, NameParts
  <1> QED
    BY <1>2, <1>3, <1>4

LEMMA NameOfInside ==
  ASSUME NEW t, GoodTrack(t), NEW stem
  PROVE  ServeName(t, stem) = NameOf(stem, WordOf(t), t.forced) /\ t.forced \in BOOLEAN
BY DEF ServeName, NameOf, WordOf, Mark, GoodTrack, InsideTracks

\* A track is called by its language or by a number, which is no language.
LEMMA SameLanguage ==
  ASSUME NEW t, GoodTrack(t), NEW u, GoodTrack(u), WordOf(t) = WordOf(u)
  PROVE  t.language = u.language
  <1>1. ASSUME NEW v, GoodTrack(v), v.language # {}
        PROVE  v.language = {WordOf(v)} /\ WordOf(v) \notin Digits
    <2>1. PICK l : l = CHOOSE a \in v.language : TRUE
      OBVIOUS
    <2>2. l \in v.language /\ WordOf(v) = l
      BY <1>1, <2>1 DEF WordOf
    <2>3. \A a \in v.language : a = l
      BY <1>1, <2>2 DEF GoodTrack, Spoken
    <2>4. l \notin Digits
      BY <1>1, <2>2 DEF GoodTrack, Spoken
    <2> QED
      BY <2>2, <2>3, <2>4
  <1>2. ASSUME NEW v, GoodTrack(v), v.language = {} PROVE WordOf(v) \in Digits
    <2>1. PICK i : i = CHOOSE a \in v.index : TRUE
      OBVIOUS
    <2>2. i \in v.index /\ WordOf(v) = ToString(i)
      BY <1>2, <2>1 DEF WordOf, GoodTrack
    <2> QED
      BY <1>2, <2>2 DEF GoodTrack
  <1>3. t.language # {} => t.language = {WordOf(t)} /\ WordOf(t) \notin Digits
    BY <1>1
  <1>4. u.language # {} => u.language = {WordOf(u)} /\ WordOf(u) \notin Digits
    BY <1>1
  <1>5. t.language = {} => WordOf(t) \in Digits
    BY <1>2
  <1>6. u.language = {} => WordOf(u) \in Digits
    BY <1>2
  <1> QED
    BY <1>3, <1>4, <1>5, <1>6

LEMMA SameName ==
  ASSUME NEW t, GoodTrack(t), NEW u, GoodTrack(u), NEW S, NEW stem \in Seq(S),
         ServeName(t, stem) = ServeName(u, stem)
  PROVE  t.language = u.language /\ t.forced = u.forced
  <1>1. NameOf(stem, WordOf(t), t.forced) = NameOf(stem, WordOf(u), u.forced)
    BY NameOfInside
  <1>2. t.forced \in BOOLEAN /\ u.forced \in BOOLEAN
    BY NameOfInside
  <1>3. WordOf(t) = WordOf(u) /\ t.forced = u.forced
    BY <1>1, <1>2, SameParts
  <1> QED
    BY <1>3, SameLanguage

\* Tracks that share a temporary file speak one language, with one mark.
LEMMA SameOutput ==
  ASSUME NEW t, GoodTrack(t), NEW u, GoodTrack(u), OutputName(t) = OutputName(u)
  PROVE  t.language = u.language /\ t.forced = u.forced
  <1>1. PICK stem : stem = <<"izvucen">>
    OBVIOUS
  <1>2. stem \in Seq({"izvucen"})
    BY <1>1
  <1>3. PICK p : p = NameOf(stem, WordOf(t), t.forced)
    OBVIOUS
  <1>4. PICK q : q = NameOf(stem, WordOf(u), u.forced)
    OBVIOUS
  <1>5. IsList(p) /\ IsList(q)
    BY <1>2, <1>3, <1>4, NameOfInside, NameParts
  <1>6. PICK x, y : OutputName(t) = p \o <<x>> /\ OutputName(u) = q \o <<y>>
    BY <1>1, <1>3, <1>4, NameOfInside DEF OutputName
  <1>7. p = q
    <2>1. PICK T : T = ToSet(p) \cup ToSet(q) \cup {x, y}
      OBVIOUS
    <2>2. p \in Seq(T) /\ q \in Seq(T) /\ <<x>> \in Seq(T) /\ <<y>> \in Seq(T)
      BY <1>5, <2>1 DEF IsList
    <2>3. PICK name : name = p \o <<x>> /\ name = q \o <<y>>
      BY <1>6
    <2>4. Len(name) = Len(p) + 1 /\ Len(name) = Len(q) + 1 /\ Len(p) \in Nat /\ Len(q) \in Nat
      BY <2>2, <2>3
    <2>5. Len(p) = Len(q)
      BY <2>4
    <2>6. \A i \in 1 .. Len(p) : name[i] = p[i]
      BY <2>2, <2>3
    <2>7. \A i \in 1 .. Len(q) : name[i] = q[i]
      BY <2>2, <2>3
    <2>8. \A i \in 1 .. Len(p) : p[i] = q[i]
      BY <2>5, <2>6, <2>7
    <2> QED
      BY <2>2, <2>5, <2>8
  <1>8. ServeName(t, stem) = ServeName(u, stem)
    BY <1>3, <1>4, <1>7, NameOfInside
  <1> QED
    BY <1>2, <1>8, SameName

\* The words behind the name of the film, and what they make of a file.
WordsAfter(stem, f) == SubSeq(f.words, Len(stem) + 1, Len(f.words))
LEMMA FileTracks ==
  ASSUME NEW stem, NEW f, NEW t \in ExternalTrack(stem, f), NEW said, said = ParseTokens(WordsAfter(stem, f))
  PROVE  /\ t.file = {f} /\ t.index = {} /\ t.language = said.language /\ t.forced = said.forced
  <1>1. PICK r \in SuffixAfterStem(stem, f.words) :
           t = [file |-> {f}, index |-> {}, codec |-> CodecFromExt(f.ext), default |-> FALSE,
                language |-> ParseTokens(r).language, forced |-> ParseTokens(r).forced,
                sdh |-> ParseTokens(r).sdh]
    BY DEF ExternalTrack
  <1>2. r = WordsAfter(stem, f)
    BY DEF SuffixAfterStem, WordsAfter
  <1> QED
    BY <1>1, <1>2

LEMMA FileName ==
  ASSUME NEW stem, NEW f, NEW t \in ExternalTrack(stem, f)
  PROVE  ServeName(t, stem) = f.words \o <<f.ext>>
  <1>1. t.file = {f}
    BY FileTracks
  <1>2. (CHOOSE g \in {f} : TRUE) = f
    OBVIOUS
  <1> QED
    BY <1>1, <1>2 DEF ServeName

\* The words and the ending of a file can be read from its name.
LEMMA NameEnds ==
  ASSUME NEW S, NEW p \in Seq(S), NEW T, NEW q \in Seq(T), NEW x, NEW y, p \o <<x>> = q \o <<y>>
  PROVE  p = q /\ x = y
  <1>1. PICK U : U = S \cup T \cup {x, y}
    OBVIOUS
  <1>2. p \in Seq(U) /\ q \in Seq(U) /\ <<x>> \in Seq(U) /\ <<y>> \in Seq(U)
    BY <1>1
  <1>3. PICK name : name = p \o <<x>> /\ name = q \o <<y>>
    OBVIOUS
  <1>4. Len(name) = Len(p) + 1 /\ Len(name) = Len(q) + 1 /\ Len(p) \in Nat /\ Len(q) \in Nat
    BY <1>2, <1>3
  <1>5. Len(p) = Len(q)
    BY <1>4
  <1>6. name[Len(p) + 1] = x /\ \A i \in 1 .. Len(p) : name[i] = p[i]
    BY <1>2, <1>3
  <1>7. name[Len(q) + 1] = y /\ \A i \in 1 .. Len(q) : name[i] = q[i]
    BY <1>2, <1>3
  <1>8. \A i \in 1 .. Len(p) : p[i] = q[i]
    BY <1>5, <1>6, <1>7
  <1>9. p = q
    BY <1>2, <1>5, <1>8
  <1> QED
    BY <1>5, <1>6, <1>7, <1>9

LEMMA SameFile ==
  ASSUME NEW stem, NEW f, IsList(f.words), NEW g, IsList(g.words),
         NEW t \in ExternalTrack(stem, f), NEW u \in ExternalTrack(stem, g),
         ServeName(t, stem) = ServeName(u, stem)
  PROVE  t.language = u.language /\ t.forced = u.forced
  <1>1. f.words \o <<f.ext>> = g.words \o <<g.ext>>
    <2>1. ServeName(t, stem) = f.words \o <<f.ext>>
      BY FileName, ZenonT(30)
    <2>2. ServeName(u, stem) = g.words \o <<g.ext>>
      BY FileName, ZenonT(30)
    <2> QED
      BY <2>1, <2>2
  <1>2. f.words = g.words
    BY <1>1, NameEnds DEF IsList
  <1>3. WordsAfter(stem, f) = WordsAfter(stem, g)
    BY <1>2 DEF WordsAfter
  <1>4. PICK said : said = ParseTokens(WordsAfter(stem, f))
    OBVIOUS
  <1>5. t.language = said.language /\ t.forced = said.forced
    BY <1>4, FileTracks
  <1>6. said = ParseTokens(WordsAfter(stem, g))
    BY <1>3, <1>4
  <1>7. u.language = said.language /\ u.forced = said.forced
    BY <1>6, FileTracks
  <1> QED
    BY <1>5, <1>7

Codes(language) == UNION {LanguageCode(l) : l \in language}

\* The words that a name of an inside track leaves behind the name of the film.
LEMMA WordsBehind ==
  ASSUME NEW S, NEW stem \in Seq(S), NEW f, IsList(f.words), NEW x, NEW b \in BOOLEAN,
         f.words \o <<f.ext>> = NameOf(stem, x, b), NEW rest, rest = WordsAfter(stem, f)
  PROVE  /\ DOMAIN rest = IF b THEN 1 .. 2 ELSE 1 .. 1
         /\ rest[1] = x /\ (b => rest[2] = "forced")
  <1>1. PICK n : n = Len(stem)
    OBVIOUS
  <1>2. n \in Nat
    BY <1>1
  <1>3. PICK name : name = NameOf(stem, x, b) /\ name = f.words \o <<f.ext>>
    OBVIOUS
  <1>4. /\ Len(name) = IF b THEN n + 3 ELSE n + 2
        /\ name[n + 1] = x /\ (b => name[n + 2] = "forced")
    <2>1. Len(NameOf(stem, x, b)) = IF b THEN Len(stem) + 3 ELSE Len(stem) + 2
      BY NameParts
    <2>2. NameOf(stem, x, b)[Len(stem) + 1] = x /\ (b => NameOf(stem, x, b)[Len(stem) + 2] = "forced")
      BY NameParts
    <2> QED
      BY <1>1, <1>3, <2>1, <2>2
  <1>5. PICK T : T = ToSet(f.words) \cup {f.ext}
    OBVIOUS
  <1>6. f.words \in Seq(T) /\ <<f.ext>> \in Seq(T)
    BY <1>5 DEF IsList
  <1>7. /\ Len(f.words) \in Nat /\ Len(name) = Len(f.words) + 1
        /\ \A i \in 1 .. Len(f.words) : name[i] = f.words[i]
    BY <1>3, <1>6
  <1>8. Len(f.words) = IF b THEN n + 2 ELSE n + 1
    BY <1>2, <1>4, <1>7
  <1>9. f.words[n + 1] = x /\ (b => f.words[n + 2] = "forced")
    BY <1>2, <1>4, <1>7, <1>8
  <1>10. rest = SubSeq(f.words, n + 1, Len(f.words))
    BY <1>1 DEF WordsAfter
  <1>11. /\ DOMAIN rest = IF b THEN 1 .. 2 ELSE 1 .. 1
         /\ rest[1] = f.words[n + 1] /\ (b => rest[2] = f.words[n + 2])
    <2>1. PICK words : words = f.words
      OBVIOUS
    <2>2. words \in Seq(T) /\ rest = SubSeq(words, n + 1, Len(words))
      BY <1>6, <1>10, <2>1
    <2>3. CASE b
      <3>1. Len(words) = n + 2 /\ rest = SubSeq(words, n + 1, n + 2)
        BY <1>8, <2>1, <2>2, <2>3
      <3>2. Len(rest) = 2 /\ DOMAIN rest = 1 .. 2 /\ rest[1] = words[n + 1] /\ rest[2] = words[n + 2]
        BY <1>2, <2>2, <3>1
      <3> QED
        BY <2>1, <2>3, <3>2
    <2>4. CASE ~b
      <3>1. Len(words) = n + 1 /\ rest = SubSeq(words, n + 1, n + 1)
        BY <1>8, <2>1, <2>2, <2>4
      <3>2. Len(rest) = 1 /\ DOMAIN rest = 1 .. 1 /\ rest[1] = words[n + 1]
        BY <1>2, <2>2, <3>1
      <3> QED
        BY <2>1, <2>4, <3>2
    <2> QED
      BY <2>3, <2>4
  <1> QED
    BY <1>9, <1>11

LEMMA FileForInside ==
  ASSUME NEW o, GoodTrack(o), NEW S, NEW stem \in Seq(S), NEW f, IsList(f.words),
         NEW t \in ExternalTrack(stem, f), ServeName(o, stem) = ServeName(t, stem)
  PROVE  t.forced = o.forced /\ (o.language # {} => Codes(t.language) = Codes(o.language))
  <1>1. PICK x, b : x = WordOf(o) /\ b = o.forced
    OBVIOUS
  <1>2. b \in BOOLEAN /\ f.words \o <<f.ext>> = NameOf(stem, x, b)
    BY <1>1, FileName, NameOfInside
  <1>3. PICK rest : rest = WordsAfter(stem, f)
    OBVIOUS
  <1>4. /\ DOMAIN rest = IF b THEN 1 .. 2 ELSE 1 .. 1
        /\ rest[1] = x /\ (b => rest[2] = "forced")
    BY <1>2, <1>3, WordsBehind
  <1>5. /\ o.language # {} => o.language = {x} /\ x \notin ForcedWords \cup SdhWords \cup QualityDetail \cup Digits
        /\ o.language = {} => x \in Digits
    <2>1. ASSUME o.language # {}
          PROVE  o.language = {x} /\ x \notin ForcedWords \cup SdhWords \cup QualityDetail \cup Digits
      <3>1. x \in o.language
        BY <1>1, <2>1 DEF WordOf
      <3> QED
        BY <3>1 DEF GoodTrack, Spoken
    <2>2. ASSUME o.language = {} PROVE x \in Digits
      <3>1. PICK i : i = CHOOSE a \in o.index : TRUE
        OBVIOUS
      <3>2. i \in o.index /\ x = ToString(i)
        BY <1>1, <2>2, <3>1 DEF WordOf, GoodTrack
      <3> QED
        BY <3>2 DEF GoodTrack
    <2> QED
      BY <2>1, <2>2
  <1>6. x \notin ForcedWords
    BY <1>5, SubtitlesAssumption
  <1>7. ToSet(rest) = IF b THEN {x, "forced"} ELSE {x}
    BY <1>4 DEF ToSet
  <1>8. (ToSet(rest) \cap ForcedWords # {}) <=> b
    BY <1>2, <1>6, <1>7 DEF ForcedWords
  <1>9. t.forced = (ToSet(rest) \cap ForcedWords # {})
    <2>1. PICK said : said = ParseTokens(rest)
      OBVIOUS
    <2>2. t.forced = said.forced
      BY <1>3, <2>1, FileTracks
    <2> QED
      BY <2>1, <2>2 DEF ParseTokens
  <1>10. t.forced = o.forced
    BY <1>1, <1>2, <1>8, <1>9
  <1>11. ASSUME o.language # {} PROVE Codes(t.language) = Codes(o.language)
    <2> DEFINE speaks(w) == w \notin ForcedWords \cup SdhWords \cup QualityDetail \cup Digits
                            /\ LanguageCode(w) # {}
    <2>1. PICK P : P = {i \in DOMAIN rest : speaks(rest[i])}
      OBVIOUS
    <2>2. t.language = UNION {LanguageCode(w) : w \in FirstAt(rest, P)}
      <3>1. PICK said : said = ParseTokens(rest)
        OBVIOUS
      <3>2. t.language = said.language
        BY <1>3, <3>1, FileTracks
      <3> QED
        BY <2>1, <3>1, <3>2 DEF ParseTokens
    <2>3. Codes(o.language) = LanguageCode(x)
      BY <1>5, <1>11 DEF Codes
    <2>4. CASE LanguageCode(x) = {}
      <3>1. P = {}
        BY <1>2, <1>4, <2>1, <2>4 DEF ForcedWords
      <3>2. t.language = {}
        BY <2>2, <3>1 DEF FirstAt
      <3> QED
        BY <2>3, <2>4, <3>2 DEF Codes
    <2>5. CASE LanguageCode(x) # {}
      <3>1. P = {1}
        <4>1. 1 \in DOMAIN rest /\ \A i \in DOMAIN rest : i = 1 \/ (i = 2 /\ b)
          BY <1>2, <1>4
        <4>2. speaks(rest[1])
          BY <1>4, <1>5, <1>11, <2>5
        <4>3. b => ~speaks(rest[2])
          BY <1>4 DEF ForcedWords
        <4> HIDE DEF speaks
        <4> QED
          BY <2>1, <4>1, <4>2, <4>3
      <3>2. FirstAt(rest, P) = {x}
        BY <1>4, <3>1 DEF FirstAt
      <3>3. t.language = LanguageCode(x)
        BY <2>2, <3>2
      <3>4. x \in Known
        BY <2>5 DEF LanguageCode
      <3>5. Codes(LanguageCode(x)) = LanguageCode(x)
        BY <3>4, SubtitlesAssumption DEF Codes
      <3> QED
        BY <2>3, <3>3, <3>5
    <2> QED
      BY <2>4, <2>5
  <1> QED
    BY <1>10, <1>11

-----------------------------------------------------------------------------
(* Subtitles: what is offered and what is found.                           *)

LEMMA ExternalFacts ==
  ASSUME NEW film \in DOMAIN Films, NEW q, q = External[film]
  PROVE  /\ IsList(q)
         /\ \A t \in ToSet(q) : /\ Sortable(t)
                                /\ \E f \in ToSet(Files) : t \in ExternalTrack(Films[film], f)
  <1>1. PICK beside : beside = [i \in DOMAIN Files |-> CHOOSE t \in ExternalTrack(Films[film], Files[i]) : TRUE]
    OBVIOUS
  <1>2. PICK P : P = {i \in DOMAIN Files : IsSubtitleFile(Files[i]) /\ ExternalTrack(Films[film], Files[i]) # {}}
    OBVIOUS
  <1>3. q = Poredaj(Kept(beside, P))
    BY <1>1, <1>2 DEF External
  <1>4. P \in SUBSET Nat /\ IsFiniteSet(P)
    <2>1. Len(Files) \in Nat /\ DOMAIN Files = 1 .. Len(Files)
      BY SubtitlesAssumption DEF IsList
    <2>2. IsFiniteSet(1 .. Len(Files)) /\ P \in SUBSET (1 .. Len(Files))
      BY <1>2, <2>1, FS_Interval
    <2>3. IsFiniteSet(P)
      BY <2>2, FS_Subset
    <2> QED
      BY <2>1, <2>2, <2>3
  <1>5. PICK found : found = Kept(beside, P)
    OBVIOUS
  <1>6. IsList(found) /\ \A t \in ToSet(found) : \E i \in P : t = beside[i]
    <2>1. IsList(found)
      BY <1>4, <1>5, KeptFacts
    <2>2. ASSUME NEW t \in ToSet(found) PROVE \E i \in P : t = beside[i]
      BY <1>4, <1>5, KeptFacts
    <2> QED
      BY <2>1, <2>2
  <1>7. ASSUME NEW t \in ToSet(found)
        PROVE  Sortable(t) /\ \E f \in ToSet(Files) : t \in ExternalTrack(Films[film], f)
    <2>1. PICK i \in P : t = beside[i]
      BY <1>6
    <2>2. /\ i \in DOMAIN Files /\ Files[i] \in ToSet(Files)
          /\ IsSubtitleFile(Files[i]) /\ ExternalTrack(Films[film], Files[i]) # {}
      BY <1>2 DEF ToSet
    <2>3. t \in ExternalTrack(Films[film], Files[i])
      BY <1>1, <2>1, <2>2
    <2>4. Sortable(t)
      BY <2>2, <2>3, SubtitlesAssumption DEF Sortable
    <2> QED
      BY <2>2, <2>3, <2>4
  <1>8. IsList(q) /\ \A t \in ToSet(q) : t \in ToSet(found)
    BY <1>3, <1>5, <1>6, <1>7, PoredajFacts
  <1> QED
    BY <1>7, <1>8

\* What the cache of the probe has of the tracks inside a film.
InsideOf(film) ==
  /\ embedded[film] \in Seq(InsideTracks)
  /\ \A t \in ToSet(embedded[film]) : GoodTrack(t) /\ \A i \in t.index : Spoken(Speaks[film][i])
TracksKnown == DOMAIN embedded = DOMAIN Films /\ \A film \in DOMAIN Films : InsideOf(film)

LEMMA ListsAreLists ==
  ASSUME NEW T, NEW s \in Seq(T) PROVE IsList(s)
  <1>1. PICK k : k = Len(s)
    OBVIOUS
  <1>2. k \in Nat /\ s = [i \in 1 .. k |-> s[i]] /\ ToSet(s) = {s[i] : i \in 1 .. k}
    BY <1>1, LenProperties DEF ToSet
  <1> QED
    BY <1>2 DEF IsList

LEMMA Joined ==
  ASSUME NEW S, NEW p \in Seq(S), NEW T, NEW q \in Seq(T), NEW all, all = p \o q
  PROVE  /\ IsList(all)
         /\ \A i \in DOMAIN p : i \in 1 .. Len(p) /\ i \in DOMAIN all /\ all[i] = p[i]
         /\ \A i \in DOMAIN all :
               /\ i \in Nat
               /\ (i \in DOMAIN p /\ all[i] = p[i]) \/ (i > Len(p) /\ all[i] \in ToSet(q))
  <1>1. PICK U : U = S \cup T
    OBVIOUS
  <1>2. p \in Seq(U) /\ q \in Seq(U)
    BY <1>1
  <1>3. PICK m, n : m = Len(p) /\ n = Len(q)
    OBVIOUS
  <1>4. m \in Nat /\ n \in Nat /\ DOMAIN p = 1 .. m /\ DOMAIN q = 1 .. n
    BY <1>2, <1>3
  <1>5. /\ all \in Seq(U) /\ Len(all) = m + n
        /\ \A i \in 1 .. m : all[i] = p[i]
        /\ \A i \in 1 .. n : all[m + i] = q[i]
    BY <1>2, <1>3
  <1>6. IsList(all)
    BY <1>5, ListsAreLists
  <1>7. DOMAIN all = 1 .. (m + n)
    <2>1. all \in Seq(U)
      BY <1>5
    <2>2. DOMAIN all = 1 .. Len(all)
      BY <2>1, LenProperties
    <2> QED
      BY <1>5, <2>2
  <1>8. ASSUME NEW i \in DOMAIN p PROVE i \in 1 .. m /\ i \in DOMAIN all /\ all[i] = p[i]
    <2>1. i \in 1 .. m /\ i \in 1 .. (m + n)
      BY <1>4
    <2> QED
      BY <1>5, <1>7, <2>1
  <1>9. ASSUME NEW i \in DOMAIN all
        PROVE  /\ i \in Nat
               /\ (i \in DOMAIN p /\ all[i] = p[i]) \/ (i > m /\ all[i] \in ToSet(q))
    <2>1. i \in Nat /\ 1 <= i /\ i <= m + n
      BY <1>4, <1>7
    <2>2. CASE i <= m
      <3>1. i \in 1 .. m
        BY <1>4, <2>1, <2>2
      <3>2. i \in DOMAIN p
        BY <1>4, <3>1
      <3>3. all[i] = p[i]
        BY <1>5, <3>1
      <3> QED
        BY <2>1, <3>2, <3>3
    <2>3. CASE ~(i <= m)
      <3>1. PICK k : k = i - m
        OBVIOUS
      <3>2. k \in 1 .. n /\ i = m + k /\ i > m
        BY <1>4, <2>1, <2>3, <3>1
      <3>3. k \in DOMAIN q /\ all[i] = q[k]
        BY <1>4, <1>5, <3>2
      <3>4. all[i] \in ToSet(q)
        BY <3>3 DEF ToSet
      <3> QED
        BY <2>1, <3>2, <3>4
    <2> QED
      BY <2>2, <2>3
  <1> QED
    BY <1>3, <1>6, <1>8, <1>9

\* A track of a film: of a file, or inside the video.
Belongs(film, t) == t \in ToSet(External[film]) \/ GoodTrack(t)

LEMMA AllTracks ==
  ASSUME TracksKnown, NEW film \in DOMAIN Films, NEW all, all = External[film] \o embedded[film]
  PROVE  IsList(all) /\ \A t \in ToSet(all) : Sortable(t) /\ Belongs(film, t)
  <1>1. PICK p, q : p = External[film] /\ q = embedded[film]
    OBVIOUS
  <1>2. p \in Seq(ToSet(p)) /\ q \in Seq(InsideTracks) /\ \A t \in ToSet(q) : GoodTrack(t)
    BY <1>1, ExternalFacts DEF IsList, TracksKnown, InsideOf
  <1>3. all = p \o q
    BY <1>1
  <1>4. /\ IsList(all)
        /\ \A i \in DOMAIN all :
              /\ i \in Nat
              /\ (i \in DOMAIN p /\ all[i] = p[i]) \/ (i > Len(p) /\ all[i] \in ToSet(q))
    BY <1>2, <1>3, Joined
  <1>5. ASSUME NEW t \in ToSet(all) PROVE Sortable(t) /\ Belongs(film, t)
    <2>1. PICK i \in DOMAIN all : t = all[i]
      BY DEF ToSet
    <2>2. t \in ToSet(p) \/ GoodTrack(t)
      BY <1>2, <1>4, <2>1 DEF ToSet
    <2>3. ASSUME GoodTrack(t) PROVE Sortable(t)
      BY <2>3 DEF GoodTrack, Spoken, InsideTracks, Sortable
    <2> QED
      BY <1>1, <2>2, <2>3, ExternalFacts DEF Belongs
  <1> QED
    BY <1>4, <1>5

LEMMA OfferedFacts ==
  ASSUME TracksKnown, NEW film \in DOMAIN Films, NEW q, q = Offered(film)
  PROVE  IsList(q) /\ \A t \in ToSet(q) : Belongs(film, t)
  <1>1. PICK all : all = External[film] \o embedded[film]
    OBVIOUS
  <1>2. PICK sorted : sorted = Poredaj(all)
    OBVIOUS
  <1>3. PICK P : P = {i \in DOMAIN sorted : IsText(sorted[i])}
    OBVIOUS
  <1>4. q = Kept(sorted, P)
    BY <1>1, <1>2, <1>3 DEF Offered
  <1>5. IsList(all) /\ \A t \in ToSet(all) : Sortable(t)
    BY <1>1, AllTracks
  <1>6. IsList(sorted) /\ \A t \in ToSet(sorted) : t \in ToSet(all)
    BY <1>2, <1>5, PoredajFacts
  <1>7. P \in SUBSET Nat /\ IsFiniteSet(P)
    <2>1. Len(sorted) \in Nat /\ DOMAIN sorted = 1 .. Len(sorted)
      BY <1>6 DEF IsList
    <2>2. IsFiniteSet(1 .. Len(sorted)) /\ P \in SUBSET (1 .. Len(sorted))
      BY <1>3, <2>1, FS_Interval
    <2>3. IsFiniteSet(P)
      BY <2>2, FS_Subset
    <2> QED
      BY <2>1, <2>2, <2>3
  <1>8. IsList(q) /\ \A t \in ToSet(q) : \E i \in P : t = sorted[i]
    BY <1>4, <1>7, KeptFacts
  <1>9. ASSUME NEW t \in ToSet(q) PROVE Belongs(film, t)
    <2>1. PICK i \in P : t = sorted[i]
      BY <1>8
    <2>2. t \in ToSet(all)
      BY <1>3, <1>6, <2>1 DEF ToSet
    <2> QED
      BY <1>1, <2>2, AllTracks
  <1> QED
    BY <1>8, <1>9

\* No two subtitles of a film are offered under one name.
LEMMA NamesOnce == TracksKnown => EachNameOnce
  <1> SUFFICES ASSUME TracksKnown, NEW film \in DOMAIN Films PROVE IsInjective(Offers(film))
    BY DEF EachNameOnce
  <1>1. PICK tracks : tracks = Offered(film)
    OBVIOUS
  <1>2. PICK names : names = Called(film, tracks)
    OBVIOUS
  <1>3. PICK P : P = FirstPlaces(names)
    OBVIOUS
  <1>4. Len(tracks) \in Nat /\ DOMAIN tracks = 1 .. Len(tracks)
    BY <1>1, OfferedFacts DEF IsList
  <1>5. P \in SUBSET (1 .. Len(tracks)) /\ \A i \in P : \A j \in 1..(i - 1) : names[j] # names[i]
    BY <1>2, <1>3, <1>4 DEF Called, FirstPlaces
  <1>6. P \in SUBSET Nat /\ IsFiniteSet(P)
    <2>1. IsFiniteSet(1 .. Len(tracks))
      BY <1>4, FS_Interval
    <2>2. IsFiniteSet(P)
      BY <1>5, <2>1, FS_Subset
    <2> QED
      BY <1>4, <1>5, <2>2
  <1>7. \A i, j \in P : names[i] = names[j] => i = j
    <2> SUFFICES ASSUME NEW i \in P, NEW j \in P, names[i] = names[j], i # j PROVE FALSE
      OBVIOUS
    <2>1. i \in 1 .. Len(tracks) /\ j \in 1 .. Len(tracks)
      BY <1>5
    <2>2. i \in 1 .. j - 1 \/ j \in 1 .. i - 1
      BY <1>4, <2>1
    <2> QED
      BY <1>5, <2>2
  <1>8. Offers(film) = Kept(names, P)
    BY <1>1, <1>2, <1>3 DEF Offers
  <1> QED
    BY <1>6, <1>7, <1>8, KeptFacts

\* Whatever was offered under a name, what is found under it now speaks the
\* same language: among files the first of the same words, a file before a
\* track inside, and no track inside in the place of a file.
LEMMA FoundSuits ==
  ASSUME TracksKnown, NEW film \in DOMAIN Films, NEW o, Belongs(film, o),
         NEW t \in FindTrack(film, ServeName(o, Films[film]))
  PROVE  /\ t.forced = o.forced /\ (o.language # {} => Codes(t.language) = Codes(o.language))
         /\ (t.file = {} => GoodTrack(t)) /\ (t.file # {} <=> t.index = {})
  <1>1. PICK all : all = External[film] \o embedded[film]
    OBVIOUS
  <1>2. PICK name : name = ServeName(o, Films[film])
    OBVIOUS
  <1>3. PICK P : P = {i \in DOMAIN all : Called(film, all)[i] = name}
    OBVIOUS
  <1>4. PICK i \in P : t = all[i] /\ \A j \in P : i <= j
    BY <1>1, <1>2, <1>3 DEF FindTrack, FirstCalled, FirstAt
  <1>5. \A j \in DOMAIN all : j \in P <=> ServeName(all[j], Films[film]) = name
    BY <1>3 DEF Called
  <1>6. i \in DOMAIN all /\ ServeName(t, Films[film]) = name
    BY <1>3, <1>4, <1>5
  <1>7. Films[film] \in Seq(ToSet(Films[film]))
    BY SubtitlesAssumption DEF IsList
  <1>8. ASSUME NEW u \in ToSet(External[film])
        PROVE  \E f : IsList(f.words) /\ u \in ExternalTrack(Films[film], f)
    BY ExternalFacts, SubtitlesAssumption
  <1>9. \A v : GoodTrack(v) => v.file = {} /\ v.index # {}
    BY DEF GoodTrack, InsideTracks
  <1>10. CASE t \in ToSet(External[film])
    <2>1. PICK f : IsList(f.words) /\ t \in ExternalTrack(Films[film], f)
      BY <1>8, <1>10
    <2>2. t.file = {f} /\ t.index = {}
      BY <2>1, FileTracks
    <2>3. ASSUME o \in ToSet(External[film]) PROVE t.language = o.language /\ t.forced = o.forced
      <3>1. PICK g : IsList(g.words) /\ o \in ExternalTrack(Films[film], g)
        BY <1>8, <2>3
      <3> QED
        BY <1>2, <1>6, <2>1, <3>1, SameFile
    <2>4. ASSUME GoodTrack(o)
          PROVE  t.forced = o.forced /\ (o.language # {} => Codes(t.language) = Codes(o.language))
      BY <1>2, <1>6, <1>7, <2>1, <2>4, FileForInside
    <2> QED
      BY <2>2, <2>3, <2>4 DEF Belongs
  <1>11. CASE t \notin ToSet(External[film])
    <2>1. PICK p, q : p = External[film] /\ q = embedded[film]
      OBVIOUS
    <2>2. p \in Seq(ToSet(p)) /\ q \in Seq(InsideTracks) /\ \A u \in ToSet(q) : GoodTrack(u)
      BY <2>1, ExternalFacts DEF IsList, TracksKnown, InsideOf
    <2>3. all = p \o q
      BY <1>1, <2>1
    <2>4. \A j \in DOMAIN p : j \in 1 .. Len(p) /\ j \in DOMAIN all /\ all[j] = p[j]
      BY <2>2, <2>3, Joined
    <2>5. \A j \in DOMAIN all :
             /\ j \in Nat
             /\ (j \in DOMAIN p /\ all[j] = p[j]) \/ (j > Len(p) /\ all[j] \in ToSet(q))
      BY <2>2, <2>3, Joined
    <2>6. i \in Nat /\ i > Len(p) /\ GoodTrack(t)
      <3>1. i \notin DOMAIN p
        BY <1>4, <1>11, <2>1, <2>4 DEF ToSet
      <3>2. i \in Nat /\ i > Len(p) /\ all[i] \in ToSet(q)
        BY <1>6, <2>5, <3>1
      <3> QED
        BY <1>4, <2>2, <3>2
    <2>7. GoodTrack(o)
      <3>1. SUFFICES ASSUME o \in ToSet(External[film]) PROVE FALSE
        BY DEF Belongs
      <3>2. PICK j \in DOMAIN p : o = p[j]
        BY <2>1, <3>1 DEF ToSet
      <3>3. j \in 1 .. Len(p) /\ j \in DOMAIN all /\ all[j] = o
        BY <2>4, <3>2
      <3>4. i <= j
        BY <1>2, <1>4, <1>5, <3>3
      <3>5. Len(p) \in Nat
        BY <2>2
      <3> QED
        BY <2>6, <3>3, <3>4, <3>5
    <2>8. t.language = o.language /\ t.forced = o.forced
      BY <1>2, <1>6, <1>7, <2>6, <2>7, SameName
    <2> QED
      BY <1>9, <2>6, <2>8
  <1> QED
    BY <1>10, <1>11

-----------------------------------------------------------------------------
(* Subtitles: requests.                                                    *)

\* What is in a temporary file came from a track of the same language and mark.
TempSays ==
  \A n \in DOMAIN temp : \A c \in temp[n] :
     \E t : GoodTrack(t) /\ OutputName(t) = n /\ c.language = t.language /\ c.forced = t.forced

\* It is what the request meant.
Suits(w, g) ==
  /\ w.language # {} => Codes(g.language) = Codes(w.language)
  /\ g.forced = w.forced
Meant(w) ==
  \E o : /\ Belongs(w.film, o) /\ w.name = ServeName(o, Films[w.film])
         /\ w.language = o.language /\ w.forced = o.forced
WantShape(w) == DOMAIN w = {"film", "name", "language", "forced", "step", "track", "got"} /\ w.film \in DOMAIN Films
Extracting(w) == \A t \in w.track : GoodTrack(t) /\ Suits(w, t) /\ OutputName(t) \in DOMAIN temp
WantOK(w) ==
  /\ WantShape(w) /\ Meant(w)
  /\ w.step = "ffmpeg" => Extracting(w)
  /\ \A g \in w.got : Suits(w, g)
WantsAreMeant == DOMAIN wants = Viewers /\ \A v \in Viewers : \A w \in wants[v] : WantOK(w)

SubtitlesIInv == TracksKnown /\ TempSays /\ WantsAreMeant

LEMMA SubBegins == SubInit => SubtitlesIInv
  <1> SUFFICES ASSUME SubInit PROVE SubtitlesIInv
    OBVIOUS
  <1>1. DOMAIN embedded = DOMAIN Films
    BY SubtitlesAssumption DEF SubInit
  <1>2. ASSUME NEW film \in DOMAIN Films PROVE InsideOf(film)
    <2>1. embedded[film] \in Seq(InsideTracks) /\ embedded[film] = Inside[film]
      BY SubtitlesAssumption DEF SubInit
    <2>2. ASSUME NEW t \in ToSet(embedded[film])
          PROVE  GoodTrack(t) /\ \A i \in t.index : Spoken(Speaks[film][i])
      <3>1. t \in InsideTracks
        <4>1. PICK k \in DOMAIN embedded[film] : t = embedded[film][k]
          BY DEF ToSet
        <4> QED
          BY <2>1, <4>1
      <3>2. /\ Spoken(t.language) /\ t.index # {}
            /\ \A i \in t.index : /\ t.index = {i} /\ ToString(i) \in Digits
                                  /\ Spoken(Speaks[film][i])
        BY <2>1, <2>2, SubtitlesAssumption
      <3> QED
        BY <3>1, <3>2 DEF GoodTrack
    <2> QED
      BY <2>1, <2>2 DEF InsideOf
  <1>3. TracksKnown
    BY <1>1, <1>2 DEF TracksKnown
  <1>4. TempSays
    BY DEF SubInit, TempSays
  <1>5. WantsAreMeant
    BY DEF SubInit, WantsAreMeant
  <1> QED
    BY <1>3, <1>4, <1>5 DEF SubtitlesIInv

LEMMA GuessKeeps ==
  ASSUME SubtitlesIInv, NEW film \in DOMAIN Films, NEW k \in DOMAIN embedded[film], GuessLanguage(film, k)
  PROVE  SubtitlesIInv'
  <1>1. PICK s, t, u : /\ s = embedded[film] /\ t = s[k]
                       /\ u = [t EXCEPT !.language = Speaks[film][CHOOSE i \in t.index : TRUE]]
    OBVIOUS
  <1>2. DOMAIN embedded = DOMAIN Films /\ InsideOf(film)
    BY DEF SubtitlesIInv, TracksKnown
  <1>3. embedded' = [embedded EXCEPT ![film] = [s EXCEPT ![k] = u]] /\ temp' = temp /\ wants' = wants
    BY <1>1 DEF GuessLanguage
  <1>4. s \in Seq(InsideTracks) /\ t \in ToSet(s) /\ k \in 1 .. Len(s)
    BY <1>1, <1>2 DEF InsideOf, ToSet
  <1>5. GoodTrack(t) /\ \A i \in t.index : Spoken(Speaks[film][i])
    BY <1>1, <1>2, <1>4 DEF InsideOf
  <1>6. PICK i \in t.index : i = CHOOSE j \in t.index : TRUE
    BY <1>5 DEF GoodTrack
  <1>7. Spoken(Speaks[film][i]) /\ u = [t EXCEPT !.language = Speaks[film][i]]
    BY <1>1, <1>5, <1>6
  <1>8. u \in InsideTracks /\ u.language = Speaks[film][i] /\ u.index = t.index
    <2>1. Speaks[film][i] \in SUBSET ToSet(Words) /\ t \in InsideTracks
      BY <1>5, <1>7 DEF Spoken, GoodTrack
    <2> QED
      BY <1>7, <2>1 DEF InsideTracks
  <1>9. GoodTrack(u) /\ \A j \in u.index : Spoken(Speaks[film][j])
    BY <1>5, <1>7, <1>8 DEF GoodTrack
  <1>10. PICK r : r = [s EXCEPT ![k] = u]
    OBVIOUS
  <1>11. r \in Seq(InsideTracks)
    BY <1>4, <1>8, <1>10, ExceptSeq
  <1>12. ASSUME NEW x \in ToSet(r) PROVE x = u \/ x \in ToSet(s)
    <2>1. PICK j \in DOMAIN r : x = r[j]
      BY DEF ToSet
    <2>2. j \in DOMAIN s /\ (x = u \/ x = s[j])
      BY <1>10, <2>1
    <2> QED
      BY <2>2 DEF ToSet
  <1>13. \A x \in ToSet(r) : GoodTrack(x) /\ \A j \in x.index : Spoken(Speaks[film][j])
    BY <1>1, <1>2, <1>9, <1>12 DEF InsideOf
  <1>14. DOMAIN embedded' = DOMAIN Films /\ embedded'[film] = r
         /\ \A f \in DOMAIN Films : f # film => embedded'[f] = embedded[f]
    BY <1>2, <1>3, <1>10
  <1>15. \A f \in DOMAIN Films : InsideOf(f)'
    <2> TAKE f \in DOMAIN Films
    <2>1. CASE f = film
      BY <1>11, <1>13, <1>14, <2>1 DEF InsideOf
    <2>2. CASE f # film
      <3>1. InsideOf(f)
        BY DEF SubtitlesIInv, TracksKnown
      <3> QED
        BY <1>14, <2>2, <3>1 DEF InsideOf
    <2> QED
      BY <2>1, <2>2
  <1>16. TracksKnown'
    BY <1>14, <1>15 DEF TracksKnown
  <1>17. TempSays'
    BY <1>3 DEF SubtitlesIInv, TempSays
  <1>18. WantsAreMeant'
    BY <1>3 DEF SubtitlesIInv, WantsAreMeant, WantOK, Extracting
  <1> QED
    BY <1>16, <1>17, <1>18 DEF SubtitlesIInv

\* A request of one television changes, and no temporary file goes.
LEMMA WantChanges ==
  ASSUME WantsAreMeant, NEW v \in Viewers, NEW S, wants' = [wants EXCEPT ![v] = S],
         \A n \in DOMAIN temp : n \in DOMAIN temp', \A w \in S : WantOK(w)'
  PROVE  WantsAreMeant'
  <1>1. DOMAIN wants' = Viewers /\ wants'[v] = S /\ \A x \in Viewers : x # v => wants'[x] = wants[x]
    BY DEF WantsAreMeant
  <1>2. ASSUME NEW w, WantOK(w) PROVE WantOK(w)'
    BY <1>2 DEF WantOK, Extracting
  <1>3. ASSUME NEW x \in Viewers, NEW w \in wants'[x] PROVE WantOK(w)'
    <2>1. CASE x = v
      BY <1>1, <1>3, <2>1
    <2>2. CASE x # v
      <3>1. WantOK(w)
        BY <1>1, <1>3, <2>2 DEF WantsAreMeant
      <3> QED
        BY <1>2, <3>1
    <2> QED
      BY <2>1, <2>2
  <1> QED
    BY <1>1, <1>3 DEF WantsAreMeant

LEMMA AskingKeeps ==
  ASSUME SubtitlesIInv, NEW v \in Viewers, NEW film \in DOMAIN Films, AsksSubtitle(v, film)
  PROVE  SubtitlesIInv'
  <1>1. PICK tracks : tracks = Offered(film)
    OBVIOUS
  <1>2. PICK names : names = Called(film, tracks)
    OBVIOUS
  <1>3. PICK i \in FirstPlaces(names) : wants' = [wants EXCEPT ![v] = {Request(film, names[i], tracks[i])}]
    BY <1>1, <1>2 DEF AsksSubtitle
  <1>4. embedded' = embedded /\ temp' = temp
    BY DEF AsksSubtitle
  <1>5. i \in DOMAIN tracks /\ names[i] = ServeName(tracks[i], Films[film])
    BY <1>2, <1>3 DEF FirstPlaces, Called
  <1>6. Belongs(film, tracks[i])
    <2>1. tracks[i] \in ToSet(tracks)
      BY <1>5 DEF ToSet
    <2> QED
      BY <1>1, <2>1, OfferedFacts DEF SubtitlesIInv
  <1>7. PICK w : w = Request(film, names[i], tracks[i])
    OBVIOUS
  <1>8. /\ WantShape(w) /\ w.film = film /\ w.name = names[i] /\ w.language = tracks[i].language
        /\ w.forced = tracks[i].forced /\ w.step # "ffmpeg" /\ w.got = {}
    BY <1>7 DEF Request, WantShape
  <1>9. WantOK(w)'
    BY <1>5, <1>6, <1>8 DEF WantOK, Meant
  <1>10. WantsAreMeant'
    BY <1>3, <1>4, <1>7, <1>9, WantChanges DEF SubtitlesIInv
  <1>11. TracksKnown' /\ TempSays'
    BY <1>4 DEF SubtitlesIInv, TracksKnown, InsideOf, TempSays
  <1> QED
    BY <1>10, <1>11 DEF SubtitlesIInv

LEMMA WatchesKeeps ==
  ASSUME SubtitlesIInv, NEW v \in Viewers, Watches(v) PROVE SubtitlesIInv'
  <1>1. wants' = [wants EXCEPT ![v] = {}] /\ embedded' = embedded /\ temp' = temp
    BY DEF Watches
  <1>2. WantsAreMeant'
    BY <1>1, WantChanges DEF SubtitlesIInv
  <1> QED
    BY <1>1, <1>2 DEF SubtitlesIInv, TracksKnown, InsideOf, TempSays

\* What a request comes to next: what it gets suits it, and so does what it extracts.
LEMMA TurnKeeps ==
  ASSUME WantsAreMeant, NEW v \in Viewers, NEW w \in wants[v], NEW phase, NEW tracks, NEW got,
         Turn(v, w, phase, tracks, got), \A n \in DOMAIN temp : n \in DOMAIN temp',
         phase = "ffmpeg" => \A t \in tracks : GoodTrack(t) /\ Suits(w, t) /\ OutputName(t) \in DOMAIN temp',
         \A g \in got : Suits(w, g)
  PROVE  WantsAreMeant'
  <1>1. WantOK(w)
    BY DEF WantsAreMeant
  <1>2. PICK u : u = [w EXCEPT !.step = phase, !.track = tracks, !.got = got]
    OBVIOUS
  <1>3. wants' = [wants EXCEPT ![v] = {u}]
    BY <1>2 DEF Turn
  <1>4. /\ WantShape(u) /\ u.film = w.film /\ u.name = w.name /\ u.language = w.language
        /\ u.forced = w.forced /\ u.step = phase /\ u.track = tracks /\ u.got = got
    BY <1>1, <1>2 DEF WantOK, WantShape
  <1>5. Meant(u)
    BY <1>1, <1>4 DEF WantOK, Meant
  <1>6. \A g : Suits(u, g) <=> Suits(w, g)
    BY <1>4 DEF Suits
  <1>7. WantOK(u)'
    BY <1>4, <1>5, <1>6 DEF WantOK, Extracting
  <1> QED
    BY <1>3, <1>7, WantChanges

\* A file is emptied, or holds what a track of its name says.
LEMMA FileHoldsKeeps ==
  ASSUME TempSays, NEW t, GoodTrack(t), NEW content, FileHolds(OutputName(t), content),
         \A c \in content : c.language = t.language /\ c.forced = t.forced
  PROVE  TempSays' /\ OutputName(t) \in DOMAIN temp' /\ \A n \in DOMAIN temp : n \in DOMAIN temp'
  <1>1. PICK name : name = OutputName(t)
    OBVIOUS
  <1>2. temp' = [n \in DOMAIN temp \cup {name} |-> IF n = name THEN content ELSE temp[n]]
    BY <1>1 DEF FileHolds
  <1>3. ASSUME NEW n \in DOMAIN temp', NEW c \in temp'[n]
        PROVE  \E x : GoodTrack(x) /\ OutputName(x) = n /\ c.language = x.language /\ c.forced = x.forced
    <2>1. CASE n = name
      BY <1>1, <1>2, <1>3, <2>1
    <2>2. CASE n # name
      <3>1. n \in DOMAIN temp /\ c \in temp[n]
        BY <1>2, <1>3, <2>2
      <3> QED
        BY <3>1 DEF TempSays
    <2> QED
      BY <2>1, <2>2
  <1> QED
    BY <1>1, <1>2, <1>3 DEF TempSays

LEMMA SharedSuits ==
  ASSUME TempSays, NEW w, NEW t, GoodTrack(t), Suits(w, t), OutputName(t) \in DOMAIN temp,
         NEW g \in temp[OutputName(t)]
  PROVE  Suits(w, g)
  <1>1. PICK u : GoodTrack(u) /\ OutputName(u) = OutputName(t) /\ g.language = u.language /\ g.forced = u.forced
    BY DEF TempSays
  <1>2. t.language = u.language /\ t.forced = u.forced
    BY <1>1, SameOutput
  <1>3. g.language = t.language /\ g.forced = t.forced
    BY <1>1, <1>2
  <1> QED
    BY <1>3 DEF Suits

LEMMA LooksUpKeeps ==
  ASSUME SubtitlesIInv, NEW v \in Viewers, LooksUp(v) PROVE SubtitlesIInv'
  <1>1. PICK w \in wants[v] :
           /\ w.step = "asked" /\ UNCHANGED embedded
           /\ LET found == {t \in FindTrack(w.film, w.name) : t.index = {} \/ IsText(t)}
              IN  \/ found = {} /\ Turn(v, w, "done", {}, {}) /\ UNCHANGED temp
                  \/ \E t \in found :
                        t.file # {} /\ Turn(v, w, "done", found, Content(w.film, t)) /\ UNCHANGED temp
                  \/ \E t \in found :
                        /\ t.index # {} /\ Filled(OutputName(t))
                        /\ Turn(v, w, "done", found, temp[OutputName(t)]) /\ UNCHANGED temp
                  \/ \E t \in found :
                        /\ t.index # {} /\ ~Filled(OutputName(t))
                        /\ Turn(v, w, "ffmpeg", found, {}) /\ FileHolds(OutputName(t), {})
    BY DEF LooksUp
  <1>2. PICK found : found = {t \in FindTrack(w.film, w.name) : t.index = {} \/ IsText(t)}
    OBVIOUS
  <1>3. TracksKnown /\ TempSays /\ WantsAreMeant /\ WantOK(w)
    BY DEF SubtitlesIInv, WantsAreMeant
  <1>4. PICK o : /\ Belongs(w.film, o) /\ w.name = ServeName(o, Films[w.film])
                 /\ w.language = o.language /\ w.forced = o.forced
    BY <1>3 DEF WantOK, Meant
  <1>5. ASSUME NEW t \in found
        PROVE  Suits(w, t) /\ (t.index # {} => GoodTrack(t))
    <2>1. w.film \in DOMAIN Films /\ t \in FindTrack(w.film, ServeName(o, Films[w.film]))
      BY <1>2, <1>3, <1>4 DEF WantOK, WantShape
    <2>2. /\ t.forced = o.forced /\ (o.language # {} => Codes(t.language) = Codes(o.language))
          /\ (t.file = {} => GoodTrack(t)) /\ (t.file # {} <=> t.index = {})
      BY <1>3, <1>4, <2>1, FoundSuits
    <2> QED
      BY <1>4, <2>2 DEF Suits
  <1>6. \A t, u \in FindTrack(w.film, w.name) : t = u
    <2>1. PICK all : all = External[w.film] \o embedded[w.film]
      OBVIOUS
    <2>2. IsList(all)
      BY <1>3, <2>1, AllTracks DEF WantOK, WantShape
    <2>3. DOMAIN all = 1 .. Len(all) /\ Len(all) \in Nat
      BY <2>2, LenProperties DEF IsList
    <2>4. PICK P : P = {i \in DOMAIN all : Called(w.film, all)[i] = w.name}
      OBVIOUS
    <2>5. FindTrack(w.film, w.name) = {all[i] : i \in {p \in P : \A q \in P : p <= q}}
      BY <2>1, <2>4 DEF FindTrack, FirstCalled, FirstAt, Called
    <2>6. \A i, j \in P : i <= j /\ j <= i => i = j
      BY <2>3, <2>4
    <2> QED
      BY <2>5, <2>6
  <1>7. embedded' = embedded
    BY <1>1
  <1>8. TracksKnown'
    BY <1>3, <1>7 DEF TracksKnown, InsideOf
  <1>9. CASE found = {} /\ Turn(v, w, "done", {}, {}) /\ UNCHANGED temp
    <2>1. WantsAreMeant'
      BY <1>3, <1>9, TurnKeeps
    <2> QED
      BY <1>3, <1>8, <1>9, <2>1 DEF SubtitlesIInv, TempSays
  <1>10. ASSUME NEW t \in found, t.file # {}, Turn(v, w, "done", found, Content(w.film, t)), UNCHANGED temp
         PROVE  SubtitlesIInv'
    <2>1. \A g \in Content(w.film, t) : g.language = t.language /\ g.forced = t.forced
      BY DEF Content
    <2>2. \A g \in Content(w.film, t) : Suits(w, g)
      BY <1>5, <2>1 DEF Suits
    <2>3. WantsAreMeant'
      BY <1>3, <1>10, <2>2, TurnKeeps
    <2> QED
      BY <1>3, <1>8, <1>10, <2>3 DEF SubtitlesIInv, TempSays
  <1>11. ASSUME NEW t \in found, t.index # {}, Filled(OutputName(t)),
                Turn(v, w, "done", found, temp[OutputName(t)]), UNCHANGED temp
         PROVE  SubtitlesIInv'
    <2>1. \A g \in temp[OutputName(t)] : Suits(w, g)
      BY <1>3, <1>5, <1>11, SharedSuits DEF Filled
    <2>2. WantsAreMeant'
      BY <1>3, <1>11, <2>1, TurnKeeps
    <2> QED
      BY <1>3, <1>8, <1>11, <2>2 DEF SubtitlesIInv, TempSays
  <1>12. ASSUME NEW t \in found, t.index # {}, Turn(v, w, "ffmpeg", found, {}), FileHolds(OutputName(t), {})
         PROVE  SubtitlesIInv'
    <2>1. GoodTrack(t) /\ found = {t}
      BY <1>2, <1>5, <1>6, <1>12
    <2>2. TempSays' /\ OutputName(t) \in DOMAIN temp' /\ \A n \in DOMAIN temp : n \in DOMAIN temp'
      BY <1>3, <1>12, <2>1, FileHoldsKeeps
    <2>3. \A x \in found : GoodTrack(x) /\ Suits(w, x) /\ OutputName(x) \in DOMAIN temp'
      BY <1>5, <2>1, <2>2
    <2>4. WantsAreMeant'
      BY <1>3, <1>12, <2>2, <2>3, TurnKeeps
    <2> QED
      BY <1>8, <2>2, <2>4 DEF SubtitlesIInv
  <1> QED
    BY <1>1, <1>2, <1>9, <1>10, <1>11, <1>12

LEMMA ExtractsKeeps ==
  ASSUME SubtitlesIInv, NEW v \in Viewers, Extracts(v) PROVE SubtitlesIInv'
  <1>0. PICK w \in wants[v] : \E t \in w.track :
           /\ w.step = "ffmpeg" /\ UNCHANGED embedded
           /\ \/ FileHolds(OutputName(t), Content(w.film, t)) /\ UNCHANGED wants
              \/ Turn(v, w, "done", w.track, temp[OutputName(t)]) /\ UNCHANGED temp
    BY DEF Extracts
  <1>1. PICK t \in w.track :
           /\ w.step = "ffmpeg" /\ UNCHANGED embedded
           /\ \/ FileHolds(OutputName(t), Content(w.film, t)) /\ UNCHANGED wants
              \/ Turn(v, w, "done", w.track, temp[OutputName(t)]) /\ UNCHANGED temp
    BY <1>0
  <1>2. TracksKnown /\ TempSays /\ WantsAreMeant /\ WantOK(w)
    BY DEF SubtitlesIInv, WantsAreMeant
  <1>3. GoodTrack(t) /\ Suits(w, t) /\ OutputName(t) \in DOMAIN temp
    BY <1>1, <1>2 DEF WantOK, Extracting
  <1>4. embedded' = embedded
    BY <1>1
  <1>5. TracksKnown'
    BY <1>2, <1>4 DEF TracksKnown, InsideOf
  <1>6. CASE FileHolds(OutputName(t), Content(w.film, t)) /\ UNCHANGED wants
    <2>1. \A g \in Content(w.film, t) : g.language = t.language /\ g.forced = t.forced
      BY DEF Content
    <2>2. TempSays' /\ \A n \in DOMAIN temp : n \in DOMAIN temp'
      BY <1>2, <1>3, <1>6, <2>1, FileHoldsKeeps
    <2>3. WantsAreMeant'
      BY <1>2, <1>6, <2>2 DEF WantsAreMeant, WantOK, Extracting
    <2> QED
      BY <1>5, <2>2, <2>3 DEF SubtitlesIInv
  <1>7. CASE Turn(v, w, "done", w.track, temp[OutputName(t)]) /\ UNCHANGED temp
    <2>1. \A g \in temp[OutputName(t)] : Suits(w, g)
      BY <1>2, <1>3, SharedSuits
    <2>2. WantsAreMeant'
      BY <1>2, <1>7, <2>1, TurnKeeps
    <2> QED
      BY <1>2, <1>5, <1>7, <2>2 DEF SubtitlesIInv, TempSays
  <1> QED
    BY <1>1, <1>6, <1>7

LEMMA SubKeeps == SubtitlesIInv /\ [SubNext]_subVars => SubtitlesIInv'
  <1> SUFFICES ASSUME SubtitlesIInv, [SubNext]_subVars PROVE SubtitlesIInv'
    OBVIOUS
  <1>1. CASE UNCHANGED subVars
    BY <1>1 DEF subVars, SubtitlesIInv, TracksKnown, InsideOf, TempSays, WantsAreMeant, WantOK, Extracting
  <1>2. ASSUME NEW film \in DOMAIN Films, NEW k \in DOMAIN embedded[film], GuessLanguage(film, k)
        PROVE  SubtitlesIInv'
    BY <1>2, GuessKeeps
  <1>3. ASSUME NEW v \in Viewers, NEW film \in DOMAIN Films, AsksSubtitle(v, film) PROVE SubtitlesIInv'
    BY <1>3, AskingKeeps
  <1>4. ASSUME NEW v \in Viewers, LooksUp(v) \/ Extracts(v) \/ Watches(v) PROVE SubtitlesIInv'
    BY <1>4, LooksUpKeeps, ExtractsKeeps, WatchesKeeps
  <1> QED
    BY <1>1, <1>2, <1>3, <1>4 DEF SubNext

(***************************************************************************)
(* Whoever asks for a subtitle in a language gets one in that language,    *)
(* forced or not as offered, whichever request or film filled the file     *)
(* that requests share and whatever is guessed meanwhile, and no two       *)
(* subtitles of a film have one name (routes.rs subtitle_by_name,          *)
(* izvuci_ugradjeni; browse.rs node_to_object), for names of films and     *)
(* files that tell whose a file is.                                        *)
(***************************************************************************)
THEOREM SubtitlesOfferedAsNamed ==
  ASSUME FilesOfTheirFilm PROVE SubSpec => []SubtitlesAsNamed
  <1>1. SubtitlesIInv => SubtitlesAsNamed
    <2> SUFFICES ASSUME SubtitlesIInv PROVE SubtitlesAsNamed
      OBVIOUS
    <2>1. LanguageAsNamed
      BY DEF SubtitlesIInv, WantsAreMeant, WantOK, Suits, Codes, LanguageAsNamed
    <2>2. EachNameOnce
      BY NamesOnce DEF SubtitlesIInv
    <2> QED
      BY <2>1, <2>2 DEF SubtitlesAsNamed
  <1> QED
    BY <1>1, SubBegins, SubKeeps, PTL DEF SubSpec

=============================================================================
