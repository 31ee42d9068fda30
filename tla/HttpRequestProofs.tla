------------------------- MODULE HttpRequestProofs -------------------------
(***************************************************************************)
(* Theorems about how HttpParser reads the head of the first request: the  *)
(* places where it stands, and what it has understood of the headers.      *)
(***************************************************************************)
EXTENDS HttpParserProofs, SequenceTheorems

-----------------------------------------------------------------------------
(* Where the parts of a head end, counted in units from its beginning.     *)

Url(m) == m.url
Eol(m) == m.eol
Major(m) == m.version[1]
Minor(m) == m.version[2]
NoVersion(m) == m.version = <<>>
Protocol(m) == IF m.method = "SOURCE" THEN "ICE" ELSE "HTTP"
NameOf(m, i) == m.headers[i].name
LeadOf(m, i) == m.headers[i].lead
ValueOf(m, i) == m.headers[i].value
FoldOf(m, i) == m.headers[i].fold
Count(m) == Len(m.headers)

(* The lines of the headers, and the first k of them as one text.          *)
LinesOf(m) == [j \in 1..Count(m) |-> WriteHeader(m.headers[j], Eol(m))]
Lines(m, k) == FlattenSeq([j \in 1..k |-> LinesOf(m)[j]])

MethodAt(m) == Len(m.before)
UrlAt(m) == MethodAt(m) + 3
UrlEnd(m) == UrlAt(m) + Len(Url(m))
LineEnd(m) == UrlEnd(m) + (IF NoVersion(m) THEN 0 ELSE 7)
HeadersAt(m) == LineEnd(m) + Len(Eol(m))
HeaderAt(m, i) == HeadersAt(m) + Len(Lines(m, i - 1))
NameEnd(m, i) == HeaderAt(m, i) + Len(NameOf(m, i))
LeadEnd(m, i) == NameEnd(m, i) + 1 + Len(LeadOf(m, i))
ValueEnd(m, i) == LeadEnd(m, i) + Len(ValueOf(m, i))
FoldAt(m, i) == ValueEnd(m, i) + Len(Eol(m))
FoldEnd(m, i) == FoldAt(m, i) + Len(FoldOf(m, i))
HeadEnd(m) == HeaderAt(m, Count(m) + 1) + Len(Eol(m))

-----------------------------------------------------------------------------
(* Where a parser p that has consumed d units of the head of m is.         *)

Versions(m, p) ==
  IF NoVersion(m) THEN p.http_major = 0 /\ p.http_minor = 9
  ELSE p.http_major = Digits[Major(m).w] /\ p.http_minor = Digits[Minor(m).w]

InUrl(m, p, d) ==
  \/ p.state = "s_req_method" /\ p.index \in {1, 2} /\ d = MethodAt(m) + p.index
  \/ p.state = "s_req_spaces_before_url" /\ d = UrlAt(m)
  \/ p.state \in UrlStates /\ d \in UrlAt(m) + 1 .. UrlEnd(m)

InVersion(m, p, d) ==
  /\ ~NoVersion(m)
  /\ \/ p.state = "s_req_http_start" /\ d = UrlEnd(m) + 1
     \/ p.state \in {"s_req_http_H", "s_req_http_I"} /\ d = UrlEnd(m) + 2
     \/ p.state = "s_req_http_HTTP" /\ d = UrlEnd(m) + 3
     \/ p.state = "s_req_http_major" /\ d = UrlEnd(m) + 4
     \/ /\ p.http_major = Digits[Major(m).w]
        /\ \/ p.state = "s_req_http_dot" /\ d = UrlEnd(m) + 5
           \/ p.state = "s_req_http_minor" /\ d = UrlEnd(m) + 6
           \/ p.state = "s_req_http_end" /\ d = UrlEnd(m) + 7 /\ Versions(m, p)

InLine(m, p, d) ==
  \/ p.state = "s_start_req" /\ d \in 0..MethodAt(m)
  \/ /\ p.method = m.method
     /\ \/ InUrl(m, p, d)
        \/ InVersion(m, p, d)
        \/ p.state = "s_req_line_almost_done" /\ Eol(m) = CRLF /\ d = LineEnd(m) + 1 /\ Versions(m, p)

EmptyValue(m, i) == ValueOf(m, i) = <<>>
Folded(m, i) == FoldOf(m, i) # <<>>

AtHeader(m, i, state, d) == state = "s_header_field_start" /\ d = HeaderAt(m, i)
InName(m, i, state, d) == state = "s_header_field" /\ d \in HeaderAt(m, i) + 1 .. NameEnd(m, i)
(* The unit before d is one of us, inside the lead of header i.            *)
BehindBlank(m, i, d, us) ==
  d \in NameEnd(m, i) + 2 .. LeadEnd(m, i) /\ LeadOf(m, i)[d - NameEnd(m, i) - 1] \in us
InLead(m, i, state, d) ==
  \/ /\ state = "s_header_value_discard_ws"
     /\ d = NameEnd(m, i) + 1 \/ BehindBlank(m, i, d, {SP, HT})
  \/ /\ state = "s_header_value_discard_ws_almost_done"
     /\ \/ BehindBlank(m, i, d, {CR})
        \/ EmptyValue(m, i) /\ Eol(m) = CRLF /\ d = LeadEnd(m, i) + 1
  \/ /\ state = "s_header_value_discard_lws"
     /\ \/ BehindBlank(m, i, d, {LF})
        \/ EmptyValue(m, i) /\ d = FoldAt(m, i)
InText(m, i, state, d) == state = "s_header_value" /\ d \in LeadEnd(m, i) + 1 .. ValueEnd(m, i)
BehindText(m, i, state, d) ==
  /\ ~EmptyValue(m, i)
  /\ \/ state = "s_header_almost_done" /\ d = FoldAt(m, i) - 1
     \/ state = "s_header_value_lws" /\ d = FoldAt(m, i)
     \/ state = "s_header_value_start" /\ d = FoldAt(m, i) /\ Folded(m, i)
InFold(m, i, state, d) == state = "s_header_value" /\ d \in FoldAt(m, i) + 1 .. FoldEnd(m, i)
BehindFold(m, i, state, d) ==
  /\ Folded(m, i)
  /\ \/ state = "s_header_almost_done" /\ d = FoldEnd(m, i) + Len(Eol(m)) - 1
     \/ state = "s_header_value_lws" /\ d = FoldEnd(m, i) + Len(Eol(m))
BehindHeaders(m, state, d) ==
  state \in {"s_headers_almost_done", "s_headers_done"} /\ d = HeadEnd(m) - 1
-----------------------------------------------------------------------------
(* FlattenSeq(), which is a function of recursive definition.              *)

(* Induction over the natural numbers with a set in place of a predicate:  *)
(* among the intervals that end at a counterexample one is minimal.        *)
LEMMA SetInduction ==
  ASSUME NEW T, 0 \in T, \A n \in Nat : n \in T => n + 1 \in T
  PROVE  Nat \subseteq T
<1> DEFINE R == StrictSubsetOrdering(Nat)
           F == FiniteSubsetsOf(Nat)
           Bad == {1..n : n \in Nat \ T}
<1>1. SUFFICES ASSUME Bad # {} PROVE FALSE
  OBVIOUS
<1>2. Bad \subseteq F
  <2> SUFFICES ASSUME NEW n \in Nat \ T PROVE 1..n \in F
    OBVIOUS
  <2>1. 1..n \in SUBSET Nat
    OBVIOUS
  <2>2. IsFiniteSet(1..n)
    BY FS_Interval
  <2> QED
    BY <2>1, <2>2 DEF FiniteSubsetsOf
<1>3. IsWellFoundedOn(R, F)
  BY FS_StrictSubsetOrderingWellFounded
<1>4. \E x \in Bad : \A y \in Bad : ~ (<<y, x>> \in R)
  <2> HIDE DEF Bad, R, F
  <2> QED
    BY <1>1, <1>2, <1>3, WFMin
<1>5. PICK m \in Nat \ T : \A n \in Nat \ T : ~ (<<1..n, 1..m>> \in R)
  BY <1>4
<1>6. m # 0 /\ m \in Nat /\ m - 1 \in Nat
  BY <1>5
<1>7. /\ 1 .. m - 1 \in SUBSET Nat /\ 1..m \in SUBSET Nat
      /\ 1 .. m - 1 \subseteq 1..m
      /\ m \in 1..m /\ m \notin 1 .. m - 1
  BY <1>6
<1>8. <<1 .. m - 1, 1..m>> \in R
  BY <1>7 DEF StrictSubsetOrdering
<1>9. m - 1 \in T
  BY <1>5, <1>6, <1>8
<1>10. (m - 1) + 1 \in T
  BY <1>6, <1>9
<1> QED
  BY <1>6, <1>5, <1>10

(* f joins the first k of ws, one after the other. *)
Joins(f, ws, k) == f = [i \in 1..k |-> IF i = 1 THEN ws[i] ELSE f[i - 1] \o ws[i]]

LEMMA JoinsExists == ASSUME NEW ws, NEW n \in Nat PROVE \E f : Joins(f, ws, n)
<1> DEFINE T == {k \in Nat : \E f : Joins(f, ws, k)}
<1>1. 0 \in T
  <2> DEFINE f == [i \in 1..0 |-> 0]
  <2>1. f = [i \in 1..0 |-> IF i = 1 THEN ws[i] ELSE f[i - 1] \o ws[i]]
    OBVIOUS
  <2> HIDE DEF f
  <2>2. Joins(f, ws, 0)
    BY <2>1 DEF Joins
  <2> QED
    BY <2>2
<1>2. ASSUME NEW k \in Nat, k \in T PROVE k + 1 \in T
  <2>1. PICK f : Joins(f, ws, k)
    BY <1>2
  <2>2. ASSUME NEW i \in 1..k PROVE f[i] = IF i = 1 THEN ws[i] ELSE f[i - 1] \o ws[i]
    <3>1. f = [j \in 1..k |-> IF j = 1 THEN ws[j] ELSE f[j - 1] \o ws[j]]
      BY <2>1 DEF Joins
    <3> QED
      BY <3>1, Zenon
  <2> DEFINE g == [i \in 1 .. k + 1 |->
                     IF i = k + 1 THEN IF k = 0 THEN ws[i] ELSE f[k] \o ws[i] ELSE f[i]]
  <2>3. ASSUME NEW i \in 1 .. k + 1
        PROVE  g[i] = IF i = 1 THEN ws[i] ELSE g[i - 1] \o ws[i]
    <3>1. CASE i = k + 1 /\ k = 0
      BY <3>1
    <3>2. CASE i = k + 1 /\ k # 0
      <4>1. i - 1 = k /\ k \in 1 .. k + 1 /\ k # k + 1 /\ i # 1
        BY <3>2
      <4>2. g[k] = f[k]
        BY <4>1
      <4>3. g[i] = f[k] \o ws[i]
        BY <3>2
      <4> HIDE DEF g
      <4> QED
        BY <4>1, <4>2, <4>3
    <3>3. CASE i # k + 1
      <4>1. i \in 1..k /\ g[i] = f[i]
        BY <3>3
      <4>2. i # 1 => i - 1 \in 1..k /\ g[i - 1] = f[i - 1]
        BY <4>1
      <4> HIDE DEF g
      <4> QED
        BY <4>1, <4>2, <2>2
    <3> QED
      BY <3>1, <3>2, <3>3
  <2>4. g = [i \in 1 .. k + 1 |-> g[i]]
    OBVIOUS
  <2> HIDE DEF g
  <2>5. [i \in 1 .. k + 1 |-> g[i]] = [i \in 1 .. k + 1 |-> IF i = 1 THEN ws[i] ELSE g[i - 1] \o ws[i]]
    BY <2>3, Zenon
  <2>6. Joins(g, ws, k + 1)
    BY <2>4, <2>5, Zenon DEF Joins
  <2> QED
    BY <2>6
<1> HIDE DEF T
<1>3. Nat \subseteq T
  BY <1>1, <1>2, SetInduction
<1> QED
  BY <1>3 DEF T

LEMMA JoinsStep ==
  ASSUME NEW f, NEW ws, NEW n \in Nat, Joins(f, ws, n), NEW i \in 1..n
  PROVE  f[i] = IF i = 1 THEN ws[i] ELSE f[i - 1] \o ws[i]
<1>1. f = [j \in 1..n |-> IF j = 1 THEN ws[j] ELSE f[j - 1] \o ws[j]]
  BY DEF Joins
<1> QED
  BY <1>1, Zenon

LEMMA JoinsAgree ==
  ASSUME NEW ws, NEW k \in Nat, NEW f, Joins(f, ws, k), NEW g, Joins(g, ws, k + 1)
  PROVE  \A j \in 1..k : f[j] = g[j]
<1> DEFINE T == {i \in Nat : i \in 1..k => f[i] = g[i]}
<1>1. 0 \in T
  OBVIOUS
<1>2. ASSUME NEW i \in Nat, i \in T PROVE i + 1 \in T
  <2> SUFFICES ASSUME i + 1 \in 1..k PROVE f[i + 1] = g[i + 1]
    OBVIOUS
  <2>1. f[i + 1] = IF i + 1 = 1 THEN ws[i + 1] ELSE f[(i + 1) - 1] \o ws[i + 1]
    BY JoinsStep
  <2>2. i + 1 \in 1 .. k + 1 /\ k + 1 \in Nat
    OBVIOUS
  <2>3. g[i + 1] = IF i + 1 = 1 THEN ws[i + 1] ELSE g[(i + 1) - 1] \o ws[i + 1]
    BY <2>2, JoinsStep
  <2>4. (i + 1) - 1 = i
    OBVIOUS
  <2>5. i + 1 # 1 => f[i] = g[i]
    BY <1>2
  <2> QED
    BY <2>1, <2>3, <2>4, <2>5
<1> HIDE DEF T
<1>3. Nat \subseteq T
  BY <1>1, <1>2, SetInduction
<1> QED
  BY <1>3 DEF T

LEMMA FlattenJoins ==
  ASSUME NEW ws, Len(ws) \in Nat \ {0}
  PROVE  \E f : Joins(f, ws, Len(ws)) /\ FlattenSeq(ws) = f[Len(ws)]
<1> DEFINE f == CHOOSE f : f = [i \in 1..Len(ws) |-> IF i = 1 THEN ws[i] ELSE f[i - 1] \o ws[i]]
<1>1. \E g : Joins(g, ws, Len(ws))
  BY JoinsExists
<1>2. Joins(f, ws, Len(ws))
  BY <1>1, Zenon DEF Joins
<1>3. FlattenSeq(ws) = f[Len(ws)]
  BY DEF FlattenSeq
<1> QED
  BY <1>2, <1>3

LEMMA JoinsFirst ==
  ASSUME NEW w, NEW n \in Nat, NEW f, Joins(f, [i \in 1..n |-> w[i]], n)
  PROVE  Joins(f, w, n)
<1> DEFINE ws == [i \in 1..n |-> w[i]]
<1>1. \A i \in 1..n : ws[i] = w[i]
  OBVIOUS
<1>2. f = [i \in 1..n |-> IF i = 1 THEN ws[i] ELSE f[i - 1] \o ws[i]]
  BY Zenon DEF Joins
<1> HIDE DEF ws
<1>3. [i \in 1..n |-> IF i = 1 THEN ws[i] ELSE f[i - 1] \o ws[i]]
      = [i \in 1..n |-> IF i = 1 THEN w[i] ELSE f[i - 1] \o w[i]]
  BY <1>1, Zenon
<1> QED
  BY <1>2, <1>3, Zenon DEF Joins

(* One more sequence is appended. *)
LEMMA FlattenGrows ==
  ASSUME NEW S, NEW k \in Nat, NEW w, w[k + 1] \in Seq(S)
  PROVE  FlattenSeq([i \in 1 .. k + 1 |-> w[i]]) = FlattenSeq([i \in 1..k |-> w[i]]) \o w[k + 1]
<1> DEFINE ws == [i \in 1 .. k + 1 |-> w[i]]
           vs == [i \in 1..k |-> w[i]]
<1>0. k + 1 \in Nat \ {0}
  OBVIOUS
<1>1. Len(ws) = k + 1 /\ Len(vs) = k
  OBVIOUS
<1>2. PICK g : Joins(g, ws, k + 1) /\ FlattenSeq(ws) = g[k + 1]
  <2> HIDE DEF ws
  <2>1. \E f : Joins(f, ws, Len(ws)) /\ FlattenSeq(ws) = f[Len(ws)]
    BY <1>0, <1>1, FlattenJoins
  <2> QED
    BY <2>1, <1>1
<1>3. Joins(g, w, k + 1)
  BY <1>0, <1>2, JoinsFirst
<1>4. g[k + 1] = IF k + 1 = 1 THEN w[k + 1] ELSE g[(k + 1) - 1] \o w[k + 1]
  BY <1>0, <1>3, JoinsStep
<1> SUFFICES FlattenSeq(ws) = FlattenSeq(vs) \o w[k + 1]
  OBVIOUS
<1>5. CASE k = 0
  <2>1. FlattenSeq(vs) = <<>>
    <3>1. vs = <<>>
      BY <1>5
    <3> QED
      BY <1>1, <1>5, <3>1 DEF FlattenSeq
  <2> HIDE DEF ws, vs
  <2> QED
    BY <2>1, <1>2, <1>4, <1>5
<1>6. CASE k # 0
  <2>1. PICK f : Joins(f, vs, k) /\ FlattenSeq(vs) = f[k]
    <3> HIDE DEF vs
    <3>1. \E f : Joins(f, vs, Len(vs)) /\ FlattenSeq(vs) = f[Len(vs)]
      BY <1>1, <1>6, FlattenJoins
    <3> QED
      BY <3>1, <1>1
  <2>2. Joins(f, w, k)
    BY <2>1, JoinsFirst
  <2>3. k \in 1..k /\ k + 1 # 1 /\ (k + 1) - 1 = k
    BY <1>6
  <2> HIDE DEF ws, vs
  <2>4. \A j \in 1..k : f[j] = g[j]
    BY <1>3, <2>2, JoinsAgree, SMT
  <2> QED
    BY <1>2, <1>4, <2>1, <2>3, <2>4
<1> QED
  BY <1>5, <1>6

LEMMA FlattenNone == FlattenSeq([i \in 1..0 |-> 0]) = <<>> /\ \A v : [i \in 1..0 |-> v] = <<>>
<1>1. [i \in 1..0 |-> 0] = <<>> /\ \A v : [i \in 1..0 |-> v] = <<>>
  OBVIOUS
<1>2. Len(<<>>) = 0
  OBVIOUS
<1> QED
  BY <1>1, <1>2 DEF FlattenSeq

-----------------------------------------------------------------------------
(* The text of a head, part by part.                                       *)

(* Units, and the characters that a head is written with.                  *)
Sign == Unit \cup {CR, LF, SP, Ch(":"), Ch("/"), Ch("."), Half("HTTP", 1), Half("HTTP", 2),
                   Half("ICE", 1), Half("ICE", 2)}

(* In text, part follows the first o units. *)
Segment(text, o, part) ==
  /\ part \in Seq(Sign) /\ o \in Nat /\ o + Len(part) <= Len(text)
  /\ \A k \in 1..Len(part) : text[o + k] = part[k]

LEMMA SegmentAll == ASSUME NEW s \in Seq(Sign) PROVE Segment(s, 0, s)
<1>1. \A k \in 1..Len(s) : 0 + k = k
  OBVIOUS
<1> QED
  BY <1>1 DEF Segment

LEMMA SegmentFirst ==
  ASSUME NEW a \in Seq(Sign), NEW b \in Seq(Sign), NEW o, NEW s, Segment(a, o, s)
  PROVE  Segment(a \o b, o, s)
<1>0. s \in Seq(Sign) /\ o \in Nat /\ o + Len(s) <= Len(a)
  BY DEF Segment
<1>1. ASSUME NEW k \in 1..Len(s) PROVE (a \o b)[o + k] = s[k]
  <2>1. o + k \in 1..Len(a)
    BY <1>0
  <2>2. (a \o b)[o + k] = a[o + k]
    BY <2>1, ConcatProperties
  <2> QED
    BY <2>2 DEF Segment
<1>2. Len(a \o b) = Len(a) + Len(b)
  OBVIOUS
<1>3. o + Len(s) <= Len(a \o b)
  BY <1>0, <1>2
<1> QED
  BY <1>0, <1>1, <1>3 DEF Segment

LEMMA SegmentLast ==
  ASSUME NEW a \in Seq(Sign), NEW b \in Seq(Sign), NEW o, o = Len(a)
  PROVE  Segment(a \o b, o, b)
<1>1. ASSUME NEW k \in 1..Len(b) PROVE (a \o b)[Len(a) + k] = b[k]
  <2>1. Len(a) + k \in Len(a) + 1 .. Len(a) + Len(b) /\ Len(a) + k - Len(a) = k
    OBVIOUS
  <2> QED
    BY <2>1, ConcatProperties
<1>2. Len(a \o b) = Len(a) + Len(b)
  OBVIOUS
<1> QED
  BY <1>1, <1>2 DEF Segment

LEMMA SegmentWithin ==
  ASSUME NEW text, NEW o, NEW a, Segment(text, o, a), NEW p, NEW s, Segment(a, p, s),
         Len(text) \in Nat
  PROVE  Segment(text, o + p, s)
<1>0. /\ s \in Seq(Sign) /\ a \in Seq(Sign) /\ o \in Nat /\ p \in Nat
      /\ o + Len(a) <= Len(text) /\ p + Len(s) <= Len(a)
  BY DEF Segment
<1>1. ASSUME NEW k \in 1..Len(s) PROVE text[(o + p) + k] = s[k]
  <2>1. p + k \in 1..Len(a) /\ (o + p) + k = o + (p + k)
    BY <1>0
  <2>2. text[o + (p + k)] = a[p + k]
    BY <2>1 DEF Segment
  <2>3. a[p + k] = s[k]
    BY DEF Segment
  <2> QED
    BY <2>1, <2>2, <2>3
<1>2. o + p \in Nat /\ (o + p) + Len(s) <= Len(text)
  BY <1>0
<1> QED
  BY <1>0, <1>1, <1>2 DEF Segment

(* w is a and then b. *)
Follows(w, a, b) == a \in Seq(Sign) /\ b \in Seq(Sign) /\ w = a \o b

LEMMA FollowsText ==
  ASSUME NEW w, NEW a, NEW b, Follows(w, a, b)
  PROVE  w \in Seq(Sign) /\ Len(w) = Len(a) + Len(b) /\ Segment(w, Len(a), b)
<1>1. a \o b \in Seq(Sign) /\ Len(a \o b) = Len(a) + Len(b)
  BY DEF Follows
<1> QED
  BY <1>1, SegmentLast DEF Follows

LEMMA FollowsFirst ==
  ASSUME NEW w, NEW a, NEW b, Follows(w, a, b), NEW o, NEW s, Segment(a, o, s)
  PROVE  Segment(w, o, s)
BY SegmentFirst DEF Follows

LEMMA SomeSigns == ASSUME NEW S, S \subseteq Sign, NEW s \in Seq(S) PROVE s \in Seq(Sign)
<1>1. Len(s) \in Nat /\ s \in [1..Len(s) -> S]
  OBVIOUS
<1>2. s \in [1..Len(s) -> Sign]
  BY <1>1
<1> QED
  BY <1>1, <1>2, SeqDef

LEMMA UnitSigns == ASSUME NEW s \in Seq(Unit) PROVE s \in Seq(Sign)
<1>1. Unit \subseteq Sign
  BY DEF Sign
<1> QED
  BY <1>1, SomeSigns

LEMMA EolType ==
  ASSUME NEW m, HeadOK(m)
  PROVE  /\ m.eol \in Seq(Sign) /\ Len(m.eol) \in {1, 2}
         /\ m.eol = <<LF>> \/ m.eol = CRLF
         /\ Len(m.eol) = 1 => m.eol[1] = LF
         /\ Len(m.eol) = 2 => m.eol = CRLF /\ m.eol[1] = CR /\ m.eol[2] = LF
<1>1. CR \in Sign /\ LF \in Sign
  BY DEF Sign
<1>2. m.eol = <<LF>> \/ m.eol = <<CR, LF>>
  BY DEF HeadOK, CRLF
<1>3. CASE m.eol = <<LF>>
  BY <1>1, <1>3
<1>4. CASE m.eol = <<CR, LF>>
  BY <1>1, <1>4 DEF CRLF
<1> QED
  BY <1>2, <1>3, <1>4

(* The texts that a header is written as.                                  *)
OfSix(w, n, o, l, v, f, e) ==
  /\ n \in Seq(Sign) /\ o \in Seq(Sign) /\ Len(o) = 1 /\ l \in Seq(Sign)
  /\ v \in Seq(Sign) /\ f \in Seq(Sign) /\ e \in Seq(Sign)
  /\ w = n \o o \o l \o v \o f \o e

(* Where in it the value begins, and where it ends.                        *)
ValueFrom(n, l) == Len(n) + 1 + Len(l)
ValueTo(n, l, v) == ValueFrom(n, l) + Len(v)

LEMMA TextOfHeader ==
  ASSUME NEW w, NEW n, NEW o, NEW l, NEW v, NEW f, NEW e, OfSix(w, n, o, l, v, f, e)
  PROVE  /\ w \in Seq(Sign) /\ Len(w) = ValueTo(n, l, v) + Len(f) + Len(e)
         /\ ValueFrom(n, l) \in Nat /\ ValueTo(n, l, v) \in Nat
         /\ Segment(w, 0, n) /\ Segment(w, Len(n), o) /\ Segment(w, Len(n) + 1, l)
         /\ Segment(w, ValueFrom(n, l), v) /\ Segment(w, ValueTo(n, l, v), f)
         /\ Segment(w, ValueTo(n, l, v) + Len(f), e)
<1> DEFINE t0 == n \o o
           t1 == t0 \o l
           t2 == t1 \o v
           t3 == t2 \o f
           b == ValueFrom(n, l)
           c == ValueTo(n, l, v)
<1>00. b = Len(n) + 1 + Len(l) /\ c = b + Len(v)
  BY DEF ValueFrom, ValueTo
<1> HIDE DEF b, c
<1>0. /\ n \in Seq(Sign) /\ o \in Seq(Sign) /\ Len(o) = 1 /\ l \in Seq(Sign)
      /\ v \in Seq(Sign) /\ f \in Seq(Sign) /\ e \in Seq(Sign) /\ w = t3 \o e
  BY DEF OfSix
<1>1. Segment(n, 0, n)
  BY <1>0, SegmentAll
<1>2. t0 \in Seq(Sign) /\ Len(t0) = Len(n) + 1 /\ Segment(t0, 0, n) /\ Segment(t0, Len(n), o)
  <2>1. Follows(t0, n, o)
    BY <1>0 DEF Follows
  <2> HIDE DEF t0
  <2>2. t0 \in Seq(Sign) /\ Len(t0) = Len(n) + Len(o) /\ Segment(t0, Len(n), o)
    BY <2>1, FollowsText, Zenon
  <2>3. Segment(t0, 0, n)
    BY <1>1, <2>1, FollowsFirst, Zenon
  <2> QED
    BY <1>0, <2>2, <2>3, Zenon
<1> HIDE DEF t0
<1>3. /\ t1 \in Seq(Sign) /\ Len(t1) = b
      /\ Segment(t1, 0, n) /\ Segment(t1, Len(n), o) /\ Segment(t1, Len(n) + 1, l)
  <2>1. Follows(t1, t0, l)
    BY <1>0, <1>2 DEF Follows
  <2> HIDE DEF t1
  <2> QED
    BY <1>00, <1>2, <2>1, FollowsText, FollowsFirst
<1> HIDE DEF t1
<1>4. /\ t2 \in Seq(Sign) /\ Len(t2) = c
      /\ Segment(t2, 0, n) /\ Segment(t2, Len(n), o) /\ Segment(t2, Len(n) + 1, l)
      /\ Segment(t2, b, v)
  <2>1. Follows(t2, t1, v)
    BY <1>0, <1>3 DEF Follows
  <2> HIDE DEF t2
  <2> QED
    BY <1>00, <1>3, <2>1, FollowsText, FollowsFirst
<1> HIDE DEF t2
<1>5. /\ t3 \in Seq(Sign) /\ Len(t3) = c + Len(f)
      /\ Segment(t3, 0, n) /\ Segment(t3, Len(n), o) /\ Segment(t3, Len(n) + 1, l)
      /\ Segment(t3, b, v) /\ Segment(t3, c, f)
  <2>1. Follows(t3, t2, f)
    BY <1>0, <1>4 DEF Follows
  <2> HIDE DEF t3
  <2> QED
    BY <1>00, <1>4, <2>1, FollowsText, FollowsFirst
<1> HIDE DEF t3
<1>6. /\ w \in Seq(Sign) /\ Len(w) = c + Len(f) + Len(e)
      /\ Segment(w, 0, n) /\ Segment(w, Len(n), o) /\ Segment(w, Len(n) + 1, l)
      /\ Segment(w, b, v) /\ Segment(w, c, f) /\ Segment(w, c + Len(f), e)
  <2>1. Follows(w, t3, e)
    BY <1>0, <1>5 DEF Follows
  <2>2. w \in Seq(Sign) /\ Len(w) = Len(t3) + Len(e) /\ Segment(w, Len(t3), e)
    BY <2>1, FollowsText, Zenon
  <2>3. /\ Segment(w, 0, n) /\ Segment(w, Len(n), o) /\ Segment(w, Len(n) + 1, l)
        /\ Segment(w, b, v) /\ Segment(w, c, f)
    BY <1>5, <2>1, FollowsFirst, Zenon
  <2>4. Len(t3) = c + Len(f)
    BY <1>5
  <2> QED
    BY <2>2, <2>3, <2>4, Zenon
<1>7. b \in Nat /\ c \in Nat
  BY <1>0, <1>00
<1> QED
  BY <1>6, <1>7, Zenon DEF b, c

(* ... in which a fold is a line of its own.                               *)
Continues(g, e, f) == IF f = <<>> THEN g = <<>> ELSE Follows(g, e, f)

LEMMA FoldedHeader ==
  ASSUME NEW w, NEW n, NEW o, NEW l, NEW v, NEW g, NEW e, OfSix(w, n, o, l, v, g, e),
         NEW f, Continues(g, e, f)
  PROVE  /\ w \in Seq(Sign)
         /\ ValueFrom(n, l) \in Nat /\ ValueTo(n, l, v) \in Nat
         /\ Segment(w, 0, n) /\ Segment(w, Len(n), o) /\ Segment(w, Len(n) + 1, l)
         /\ Segment(w, ValueFrom(n, l), v) /\ Segment(w, ValueTo(n, l, v), e)
         /\ f = <<>> => Len(w) = ValueTo(n, l, v) + Len(e)
         /\ f # <<>> =>
              /\ Segment(w, ValueTo(n, l, v) + Len(e), f)
              /\ Segment(w, ValueTo(n, l, v) + Len(e) + Len(f), e)
              /\ Len(w) = ValueTo(n, l, v) + Len(e) + Len(f) + Len(e)
<1> DEFINE c == ValueTo(n, l, v)
<1> HIDE DEF c
<1>1. /\ w \in Seq(Sign) /\ Len(w) = c + Len(g) + Len(e)
      /\ ValueFrom(n, l) \in Nat /\ c \in Nat
      /\ Segment(w, 0, n) /\ Segment(w, Len(n), o) /\ Segment(w, Len(n) + 1, l)
      /\ Segment(w, ValueFrom(n, l), v) /\ Segment(w, c, g) /\ Segment(w, c + Len(g), e)
  BY TextOfHeader, Zenon DEF c
<1>2. e \in Seq(Sign) /\ Len(e) \in Nat /\ Len(w) \in Nat
  <2>1. e \in Seq(Sign)
    BY DEF OfSix
  <2> QED
    BY <1>1, <2>1
<1>3. CASE f = <<>>
  <2>1. g = <<>>
    BY <1>3 DEF Continues
  <2>2. Len(g) = 0
    BY <2>1
  <2>3. c + Len(g) = c
    BY <1>1, <2>2
  <2> QED
    BY <1>1, <1>3, <2>3, Zenon DEF c
<1>4. CASE f # <<>>
  <2>1. Follows(g, e, f)
    BY <1>4 DEF Continues
  <2>2. Len(g) = Len(e) + Len(f) /\ Segment(g, Len(e), f)
    BY <2>1, FollowsText
  <2>3. Segment(g, 0, e)
    BY <1>2, <2>1, SegmentAll, FollowsFirst, Zenon
  <2>4. Segment(w, c + 0, e) /\ Segment(w, c + Len(e), f)
    BY <1>1, <1>2, <2>2, <2>3, SegmentWithin, Zenon
  <2>5. Len(f) \in Nat
    BY <2>1 DEF Follows
  <2>6. c + 0 = c /\ c + Len(g) = c + Len(e) + Len(f)
    BY <1>1, <1>2, <2>2, <2>5
  <2> QED
    BY <1>1, <1>4, <2>4, <2>6, Zenon DEF c
<1> QED
  BY <1>3, <1>4, Zenon

-----------------------------------------------------------------------------
(* The text of the head of m.                                              *)

LEMMA HeadersType ==
  ASSUME NEW m, HeadOK(m)
  PROVE  Count(m) \in Nat /\ DOMAIN m.headers = 1..Count(m) /\ \A i \in 1..Count(m) : m.headers[i] \in Parts
BY DEF HeadOK, Count

FoldLine(eol, f) == IF f = <<>> THEN <<>> ELSE eol \o f

LEMMA FoldContinues ==
  ASSUME NEW eol \in Seq(Sign), NEW f \in Seq(Sign)
  PROVE  FoldLine(eol, f) \in Seq(Sign) /\ Continues(FoldLine(eol, f), eol, f)
BY DEF FoldLine, Continues, Follows

LEMMA HeaderParts ==
  ASSUME NEW h \in Parts, NEW eol \in Seq(Sign)
  PROVE  /\ h.name \in Seq(Sign) /\ h.lead \in Seq(Sign) /\ h.value \in Seq(Sign)
         /\ h.fold \in Seq(Sign)
         /\ OfSix(WriteHeader(h, eol), h.name, <<Ch(":")>>, h.lead, h.value, FoldLine(eol, h.fold), eol)
<1>0. h.name \in Seq(Sign) /\ h.lead \in Seq(Sign) /\ h.value \in Seq(Sign) /\ h.fold \in Seq(Sign)
  <2>1. h.name \in Seq(Unit) /\ h.lead \in Seq(Unit) /\ h.value \in Seq(Unit) /\ h.fold \in Seq(Unit)
    BY DEF Parts
  <2> QED
    BY <2>1, UnitSigns
<1>1. <<Ch(":")>> \in Seq(Sign) /\ Len(<<Ch(":")>>) = 1
  <2>1. Ch(":") \in Sign
    BY DEF Sign
  <2> QED
    BY <2>1
<1>2. FoldLine(eol, h.fold) \in Seq(Sign)
  BY <1>0, FoldContinues
<1>3. WriteHeader(h, eol) = h.name \o <<Ch(":")>> \o h.lead \o h.value \o FoldLine(eol, h.fold) \o eol
  BY DEF WriteHeader, FoldLine
<1> QED
  BY <1>0, <1>1, <1>2, <1>3, Zenon DEF OfSix

LEMMA HeaderTypes ==
  ASSUME NEW m, HeadOK(m), NEW i \in 1..Count(m)
  PROVE  /\ NameOf(m, i) \in Seq(Sign) /\ LeadOf(m, i) \in Seq(Sign) /\ ValueOf(m, i) \in Seq(Sign)
         /\ FoldOf(m, i) \in Seq(Sign)
         /\ OfSix(LinesOf(m)[i], NameOf(m, i), <<Ch(":")>>, LeadOf(m, i), ValueOf(m, i),
                  FoldLine(Eol(m), FoldOf(m, i)), Eol(m))
<1> DEFINE h == m.headers[i]
<1>1. h \in Parts /\ Eol(m) \in Seq(Sign)
  BY HeadersType, EolType DEF Eol
<1>2. LinesOf(m)[i] = WriteHeader(h, Eol(m))
  BY DEF LinesOf
<1>3. NameOf(m, i) = h.name /\ LeadOf(m, i) = h.lead /\ ValueOf(m, i) = h.value /\ FoldOf(m, i) = h.fold
  BY DEF NameOf, LeadOf, ValueOf, FoldOf
<1> HIDE DEF h
<1> QED
  BY <1>1, <1>2, <1>3, HeaderParts

LEMMA HeaderLengths ==
  ASSUME NEW m, HeadOK(m), NEW i \in 1..Count(m)
  PROVE  /\ Len(NameOf(m, i)) \in Nat /\ Len(LeadOf(m, i)) \in Nat
         /\ Len(ValueOf(m, i)) \in Nat /\ Len(FoldOf(m, i)) \in Nat
<1>1. \A s \in Seq(Sign) : Len(s) \in Nat
  OBVIOUS
<1> QED
  BY <1>1, HeaderTypes

LEMMA LineType ==
  ASSUME NEW m, HeadOK(m), NEW i \in 1..Count(m)
  PROVE  LinesOf(m)[i] \in Seq(Sign)
BY HeaderTypes, TextOfHeader, Zenon

LEMMA LinesGrow ==
  ASSUME NEW m, HeadOK(m), NEW k \in Nat, k + 1 \in 1..Count(m)
  PROVE  Lines(m, k + 1) = Lines(m, k) \o LinesOf(m)[k + 1]
<1>1. LinesOf(m)[k + 1] \in Seq(Sign)
  BY LineType
<1> QED
  BY <1>1, FlattenGrows DEF Lines

LEMMA LinesText ==
  ASSUME NEW m, HeadOK(m)
  PROVE  \A k \in 0..Count(m) :
           /\ Lines(m, k) \in Seq(Sign)
           /\ \A i \in 1..k : Segment(Lines(m, k), Len(Lines(m, i - 1)), LinesOf(m)[i])
<1> DEFINE T == {k \in Nat : k <= Count(m) =>
                   /\ Lines(m, k) \in Seq(Sign)
                   /\ \A i \in 1..k : Segment(Lines(m, k), Len(Lines(m, i - 1)), LinesOf(m)[i])}
<1>1. 0 \in T
  <2>1. Lines(m, 0) = <<>>
    <3>1. [j \in 1..0 |-> LinesOf(m)[j]] = <<>>
      OBVIOUS
    <3> QED
      BY <3>1, FlattenNone DEF Lines
  <2>2. <<>> \in Seq(Sign) /\ 1..0 = {}
    OBVIOUS
  <2> QED
    BY <2>1, <2>2
<1>2. ASSUME NEW n \in Nat, n \in T PROVE n + 1 \in T
  <2> SUFFICES ASSUME n + 1 <= Count(m)
               PROVE  /\ Lines(m, n + 1) \in Seq(Sign)
                      /\ \A i \in 1 .. n + 1 :
                           Segment(Lines(m, n + 1), Len(Lines(m, i - 1)), LinesOf(m)[i])
    OBVIOUS
  <2>0. Count(m) \in Nat
    BY HeadersType
  <2>1. /\ Lines(m, n) \in Seq(Sign)
        /\ \A i \in 1..n : Segment(Lines(m, n), Len(Lines(m, i - 1)), LinesOf(m)[i])
    BY <1>2, <2>0
  <2>2. LinesOf(m)[n + 1] \in Seq(Sign) /\ Lines(m, n + 1) = Lines(m, n) \o LinesOf(m)[n + 1]
    BY <2>0, LinesGrow, LineType
  <2>3. Follows(Lines(m, n + 1), Lines(m, n), LinesOf(m)[n + 1])
    BY <2>1, <2>2 DEF Follows
  <2>4. Lines(m, n + 1) \in Seq(Sign) /\ Segment(Lines(m, n + 1), Len(Lines(m, n)), LinesOf(m)[n + 1])
    BY <2>3, FollowsText
  <2>5. ASSUME NEW i \in 1 .. n + 1 PROVE Segment(Lines(m, n + 1), Len(Lines(m, i - 1)), LinesOf(m)[i])
    <3>1. CASE i = n + 1
      BY <2>4, <3>1
    <3>2. CASE i \in 1..n
      BY <2>1, <2>3, <3>2, FollowsFirst
    <3> QED
      BY <3>1, <3>2
  <2> QED
    BY <2>4, <2>5
<1> HIDE DEF T
<1>3. Nat \subseteq T
  BY <1>1, <1>2, SetInduction
<1>4. Count(m) \in Nat
  BY HeadersType
<1> QED
  BY <1>3, <1>4 DEF T

(* What a head is written as. *)
OfHead(t, b, w, s, u, v, e, r) ==
  /\ b \in Seq(Sign) /\ w \in Seq(Sign) /\ Len(w) = 2 /\ s \in Seq(Sign) /\ Len(s) = 1
  /\ u \in Seq(Sign) /\ v \in Seq(Sign) /\ e \in Seq(Sign) /\ r \in Seq(Sign)
  /\ t = b \o w \o s \o u \o v \o e \o r

UrlTo(b, u) == Len(b) + 3 + Len(u)
LineTo(b, u, v) == UrlTo(b, u) + Len(v)
HeadersFrom(b, u, v, e) == LineTo(b, u, v) + Len(e)

LEMMA TextOfHead ==
  ASSUME NEW t, NEW b, NEW w, NEW s, NEW u, NEW v, NEW e, NEW r, OfHead(t, b, w, s, u, v, e, r)
  PROVE  /\ t \in Seq(Sign)
         /\ Len(b) \in Nat /\ UrlTo(b, u) \in Nat /\ LineTo(b, u, v) \in Nat /\ HeadersFrom(b, u, v, e) \in Nat
         /\ Segment(t, 0, b) /\ Segment(t, Len(b), w) /\ Segment(t, Len(b) + 2, s)
         /\ Segment(t, Len(b) + 3, u) /\ Segment(t, UrlTo(b, u), v)
         /\ Segment(t, LineTo(b, u, v), e) /\ Segment(t, HeadersFrom(b, u, v, e), r)
<1> DEFINE t0 == b \o w
           t1 == t0 \o s
           t2 == t1 \o u
           t3 == t2 \o v
           t4 == t3 \o e
           o1 == Len(b) + 2
           o2 == Len(b) + 3
           o3 == UrlTo(b, u)
           o4 == LineTo(b, u, v)
           o5 == HeadersFrom(b, u, v, e)
<1>0. /\ b \in Seq(Sign) /\ w \in Seq(Sign) /\ Len(w) = 2 /\ s \in Seq(Sign) /\ Len(s) = 1
      /\ u \in Seq(Sign) /\ v \in Seq(Sign) /\ e \in Seq(Sign) /\ r \in Seq(Sign) /\ t = t4 \o r
  BY DEF OfHead
<1>1. /\ Len(b) \in Nat /\ o1 \in Nat /\ o2 \in Nat /\ o3 \in Nat /\ o4 \in Nat /\ o5 \in Nat
      /\ o1 = Len(b) + Len(w) /\ o2 = o1 + Len(s) /\ o3 = o2 + Len(u) /\ o4 = o3 + Len(v)
      /\ o5 = o4 + Len(e)
  BY <1>0 DEF UrlTo, LineTo, HeadersFrom
<1> HIDE DEF o1, o2, o3, o4, o5
<1>2. t0 \in Seq(Sign) /\ Len(t0) = o1 /\ Segment(t0, 0, b) /\ Segment(t0, Len(b), w)
  <2>1. Follows(t0, b, w) /\ Segment(b, 0, b)
    BY <1>0, SegmentAll DEF Follows
  <2> HIDE DEF t0
  <2>2. t0 \in Seq(Sign) /\ Len(t0) = Len(b) + Len(w) /\ Segment(t0, Len(b), w)
    BY <2>1, FollowsText
  <2>3. Segment(t0, 0, b)
    BY <2>1, FollowsFirst, Zenon
  <2> QED
    BY <1>1, <2>2, <2>3, Zenon
<1> HIDE DEF t0
<1>3. /\ t1 \in Seq(Sign) /\ Len(t1) = o2
      /\ Segment(t1, 0, b) /\ Segment(t1, Len(b), w) /\ Segment(t1, o1, s)
  <2>1. Follows(t1, t0, s)
    BY <1>0, <1>2 DEF Follows
  <2> HIDE DEF t1
  <2>2. t1 \in Seq(Sign) /\ Len(t1) = Len(t0) + Len(s) /\ Segment(t1, Len(t0), s)
    BY <2>1, FollowsText
  <2>3. Segment(t1, 0, b) /\ Segment(t1, Len(b), w)
    BY <1>2, <2>1, FollowsFirst, Zenon
  <2> QED
    BY <1>1, <1>2, <2>2, <2>3, Zenon
<1> HIDE DEF t1
<1>4. /\ t2 \in Seq(Sign) /\ Len(t2) = o3
      /\ Segment(t2, 0, b) /\ Segment(t2, Len(b), w) /\ Segment(t2, o1, s) /\ Segment(t2, o2, u)
  <2>1. Follows(t2, t1, u)
    BY <1>0, <1>3 DEF Follows
  <2> HIDE DEF t2
  <2>2. t2 \in Seq(Sign) /\ Len(t2) = Len(t1) + Len(u) /\ Segment(t2, Len(t1), u)
    BY <2>1, FollowsText
  <2>3. Segment(t2, 0, b) /\ Segment(t2, Len(b), w) /\ Segment(t2, o1, s)
    BY <1>3, <2>1, FollowsFirst, Zenon
  <2> QED
    BY <1>1, <1>3, <2>2, <2>3, Zenon
<1> HIDE DEF t2
<1>5. /\ t3 \in Seq(Sign) /\ Len(t3) = o4
      /\ Segment(t3, 0, b) /\ Segment(t3, Len(b), w) /\ Segment(t3, o1, s) /\ Segment(t3, o2, u)
      /\ Segment(t3, o3, v)
  <2>1. Follows(t3, t2, v)
    BY <1>0, <1>4 DEF Follows
  <2> HIDE DEF t3
  <2>2. t3 \in Seq(Sign) /\ Len(t3) = Len(t2) + Len(v) /\ Segment(t3, Len(t2), v)
    BY <2>1, FollowsText
  <2>3. Segment(t3, 0, b) /\ Segment(t3, Len(b), w) /\ Segment(t3, o1, s) /\ Segment(t3, o2, u)
    BY <1>4, <2>1, FollowsFirst, Zenon
  <2> QED
    BY <1>1, <1>4, <2>2, <2>3, Zenon
<1> HIDE DEF t3
<1>6. /\ t4 \in Seq(Sign) /\ Len(t4) = o5
      /\ Segment(t4, 0, b) /\ Segment(t4, Len(b), w) /\ Segment(t4, o1, s) /\ Segment(t4, o2, u)
      /\ Segment(t4, o3, v) /\ Segment(t4, o4, e)
  <2>1. Follows(t4, t3, e)
    BY <1>0, <1>5 DEF Follows
  <2> HIDE DEF t4
  <2>2. t4 \in Seq(Sign) /\ Len(t4) = Len(t3) + Len(e) /\ Segment(t4, Len(t3), e)
    BY <2>1, FollowsText
  <2>3. /\ Segment(t4, 0, b) /\ Segment(t4, Len(b), w) /\ Segment(t4, o1, s) /\ Segment(t4, o2, u)
        /\ Segment(t4, o3, v)
    BY <1>5, <2>1, FollowsFirst, Zenon
  <2> QED
    BY <1>1, <1>5, <2>2, <2>3, Zenon
<1> HIDE DEF t4
<1>7. Follows(t, t4, r)
  BY <1>0, <1>6 DEF Follows
<1>8. t \in Seq(Sign) /\ Len(t) = Len(t4) + Len(r) /\ Segment(t, Len(t4), r)
  BY <1>7, FollowsText
<1>9. /\ Segment(t, 0, b) /\ Segment(t, Len(b), w) /\ Segment(t, o1, s) /\ Segment(t, o2, u)
      /\ Segment(t, o3, v) /\ Segment(t, o4, e)
  BY <1>6, <1>7, FollowsFirst, Zenon
<1>10. Segment(t, o5, r)
  BY <1>6, <1>8, Zenon
<1> QED
  BY <1>1, <1>8, <1>9, <1>10, Zenon DEF o1, o2, o3, o4, o5

(* The version, unit by unit. *)
LEMMA VersionText ==
  ASSUME NEW m, HeadOK(m)
  PROVE  /\ WriteVersion(m) \in Seq(Sign)
         /\ NoVersion(m) => Len(WriteVersion(m)) = 0
         /\ ~NoVersion(m) =>
              /\ Len(WriteVersion(m)) = 7
              /\ WriteVersion(m)[1] = SP
              /\ WriteVersion(m)[2] = Half(Protocol(m), 1) /\ WriteVersion(m)[3] = Half(Protocol(m), 2)
              /\ WriteVersion(m)[4] = Ch("/") /\ WriteVersion(m)[5] = Major(m)
              /\ WriteVersion(m)[6] = Ch(".") /\ WriteVersion(m)[7] = Minor(m)
<1>1. CASE m.version = <<>>
  BY <1>1 DEF WriteVersion, NoVersion
<1>2. CASE m.version # <<>>
  <2> DEFINE p1 == Half(Protocol(m), 1)
             p2 == Half(Protocol(m), 2)
             v1 == m.version[1]
             v2 == m.version[2]
  <2>1. v1 \in Sign /\ v2 \in Sign
    <3>1. m.version \in Seq(Unit) /\ Len(m.version) \in {0, 2} /\ m.version # <<>>
      BY <1>2 DEF HeadOK
    <3>2. Len(m.version) = 2
      BY <3>1
    <3>3. m.version[1] \in Unit /\ m.version[2] \in Unit
      BY <3>1, <3>2
    <3> QED
      BY <3>3 DEF Sign
  <2>2. p1 \in Sign /\ p2 \in Sign /\ SP \in Sign /\ Ch("/") \in Sign /\ Ch(".") \in Sign
    BY DEF Sign, Protocol
  <2>3. WriteVersion(m) = <<SP>> \o <<p1, p2>> \o <<Ch("/"), v1, Ch("."), v2>>
    BY <1>2 DEF WriteVersion, Protocol, Word
  <2> DEFINE a == <<SP>>
             b == <<p1, p2>>
             c == <<Ch("/"), v1, Ch("."), v2>>
             ab == a \o b
             w == WriteVersion(m)
  <2> HIDE DEF p1, p2, v1, v2
  <2>4. /\ a \in Seq(Sign) /\ b \in Seq(Sign) /\ c \in Seq(Sign)
        /\ Len(a) = 1 /\ Len(b) = 2 /\ Len(c) = 4
        /\ a[1] = SP /\ b[1] = p1 /\ b[2] = p2
        /\ c[1] = Ch("/") /\ c[2] = v1 /\ c[3] = Ch(".") /\ c[4] = v2
    BY <2>1, <2>2
  <2>5. w = ab \o c
    BY <2>3
  <2> HIDE DEF a, b, c, w
  <2>6. Follows(ab, a, b) /\ Segment(a, 0, a)
    BY <2>4, SegmentAll DEF Follows
  <2> HIDE DEF ab
  <2>7. ab \in Seq(Sign) /\ Len(ab) = 3 /\ Segment(ab, 1, b) /\ Segment(ab, 0, a)
    <3>1. ab \in Seq(Sign) /\ Len(ab) = Len(a) + Len(b) /\ Segment(ab, Len(a), b)
      BY <2>6, FollowsText
    <3>2. Segment(ab, 0, a)
      BY <2>6, FollowsFirst, Zenon
    <3>3. Len(ab) = 3
      BY <2>4, <3>1
    <3> QED
      BY <2>4, <3>1, <3>2, <3>3, Zenon
  <2>8. Follows(w, ab, c)
    BY <2>4, <2>5, <2>7 DEF Follows
  <2>9. w \in Seq(Sign) /\ Len(w) = 7 /\ Segment(w, 3, c) /\ Segment(w, 1, b) /\ Segment(w, 0, a)
    <3>1. w \in Seq(Sign) /\ Len(w) = Len(ab) + Len(c) /\ Segment(w, Len(ab), c)
      BY <2>8, FollowsText
    <3>2. Segment(w, 0, a) /\ Segment(w, 1, b)
      BY <2>7, <2>8, FollowsFirst, Zenon
    <3>3. Len(w) = 7
      BY <2>4, <2>7, <3>1
    <3> QED
      BY <2>4, <2>7, <3>1, <3>2, <3>3, Zenon
  <2>10. w[0 + 1] = SP /\ w[1 + 1] = p1 /\ w[1 + 2] = p2
    BY <2>4, <2>9 DEF Segment
  <2>11. w[3 + 1] = Ch("/") /\ w[3 + 2] = v1 /\ w[3 + 3] = Ch(".") /\ w[3 + 4] = v2
    BY <2>4, <2>9 DEF Segment
  <2>12. /\ w[1] = SP /\ w[2] = p1 /\ w[3] = p2 /\ w[4] = Ch("/") /\ w[5] = v1
         /\ w[6] = Ch(".") /\ w[7] = v2
    BY <2>10, <2>11
  <2> QED
    BY <1>2, <2>9, <2>12, Zenon DEF NoVersion, Major, Minor, p1, p2, v1, v2, w
<1> QED
  BY <1>1, <1>2

LEMMA HeadParts ==
  ASSUME NEW m, HeadOK(m)
  PROVE  OfHead(WriteHead(m), m.before, Word(m.method), <<SP>>, Url(m), WriteVersion(m), Eol(m),
                Lines(m, Count(m)) \o Eol(m))
<1> DEFINE rest == Lines(m, Count(m)) \o Eol(m)
<1>1. m.before \in Seq(Sign)
  <2>1. m.before \in Seq({CR, LF})
    BY DEF HeadOK
  <2>2. {CR, LF} \subseteq Sign
    BY DEF Sign
  <2> QED
    BY <2>1, <2>2, SomeSigns
<1>2. Word(m.method) \in Seq(Sign) /\ Len(Word(m.method)) = 2
  <2>1. Half(m.method, 1) \in Sign /\ Half(m.method, 2) \in Sign
    BY DEF Sign, Unit, Half, HeadOK
  <2> QED
    BY <2>1 DEF Word
<1>3. <<SP>> \in Seq(Sign) /\ Len(<<SP>>) = 1
  <2>1. SP \in Sign
    BY DEF Sign
  <2> QED
    BY <2>1
<1>4. Url(m) \in Seq(Sign)
  <2>1. Url(m) \in Seq(Unit)
    BY DEF HeadOK, Url
  <2> QED
    BY <2>1, UnitSigns
<1>5. Eol(m) \in Seq(Sign) /\ WriteVersion(m) \in Seq(Sign)
  BY EolType, VersionText DEF Eol
<1>6. Lines(m, Count(m)) \in Seq(Sign)
  BY LinesText, HeadersType
<1>7. rest \in Seq(Sign)
  BY <1>5, <1>6
<1>8. WriteHeaders(m.headers, m.eol) = rest
  <2>1. [i \in DOMAIN m.headers |-> WriteHeader(m.headers[i], m.eol)] = [j \in 1..Count(m) |-> LinesOf(m)[j]]
    <3>1. DOMAIN m.headers = 1..Count(m)
      BY HeadersType
    <3>2. \A j \in 1..Count(m) : LinesOf(m)[j] = WriteHeader(m.headers[j], m.eol)
      BY DEF LinesOf, Eol
    <3> QED
      BY <3>1, <3>2
  <2> QED
    BY <2>1 DEF WriteHeaders, Lines, Eol
<1>9. WriteHead(m) = m.before \o Word(m.method) \o <<SP>> \o Url(m) \o WriteVersion(m) \o Eol(m) \o rest
  BY <1>8 DEF WriteHead, Url, Eol
<1> HIDE DEF rest
<1>10. OfHead(WriteHead(m), m.before, Word(m.method), <<SP>>, Url(m), WriteVersion(m), Eol(m), rest)
  BY <1>1, <1>2, <1>3, <1>4, <1>5, <1>7, <1>9, Zenon DEF OfHead
<1> QED
  BY <1>10 DEF rest

(* t begins with the head of m. *)
Reads(t, m) == HeadOK(m) /\ Len(t) \in Nat /\ Segment(t, 0, WriteHead(m))

LEMMA SegmentInFirst ==
  ASSUME NEW t, NEW w, Segment(t, 0, w), Len(t) \in Nat, NEW o, NEW s, Segment(w, o, s)
  PROVE  Segment(t, o, s)
<1>1. Segment(t, 0 + o, s)
  BY SegmentWithin
<1>2. 0 + o = o
  BY DEF Segment
<1> QED
  BY <1>1, <1>2

LEMMA LineOffsets ==
  ASSUME NEW m, HeadOK(m)
  PROVE  /\ MethodAt(m) \in Nat /\ Len(Url(m)) \in Nat /\ Len(Eol(m)) \in {1, 2}
         /\ UrlEnd(m) = UrlTo(m.before, Url(m))
         /\ LineEnd(m) = LineTo(m.before, Url(m), WriteVersion(m))
         /\ HeadersAt(m) = HeadersFrom(m.before, Url(m), WriteVersion(m), Eol(m))
         /\ UrlAt(m) \in Nat /\ UrlEnd(m) \in Nat /\ LineEnd(m) \in Nat /\ HeadersAt(m) \in Nat
<1>1. MethodAt(m) \in Nat /\ Len(Url(m)) \in Nat /\ Len(Eol(m)) \in {1, 2}
  <2>1. m.before \in Seq(Sign) /\ Url(m) \in Seq(Sign)
    BY HeadParts DEF OfHead
  <2> QED
    BY <2>1, EolType DEF Eol, MethodAt
<1>2. Len(WriteVersion(m)) = IF NoVersion(m) THEN 0 ELSE 7
  BY VersionText
<1>3. UrlEnd(m) = UrlTo(m.before, Url(m))
  BY <1>1 DEF UrlEnd, UrlAt, MethodAt, UrlTo
<1>4. UrlAt(m) \in Nat /\ UrlEnd(m) \in Nat
  BY <1>1 DEF UrlEnd, UrlAt
<1>5. LineEnd(m) = LineTo(m.before, Url(m), WriteVersion(m)) /\ LineEnd(m) \in Nat
  BY <1>2, <1>3, <1>4 DEF LineEnd, LineTo
<1>6. /\ HeadersAt(m) = HeadersFrom(m.before, Url(m), WriteVersion(m), Eol(m))
      /\ HeadersAt(m) \in Nat
  BY <1>1, <1>5 DEF HeadersAt, HeadersFrom
<1> QED
  BY <1>1, <1>3, <1>4, <1>5, <1>6

LEMMA LineSegments ==
  ASSUME NEW t, NEW m, Reads(t, m)
  PROVE  /\ Segment(t, 0, m.before) /\ Segment(t, MethodAt(m), Word(m.method))
         /\ Segment(t, MethodAt(m) + 2, <<SP>>) /\ Segment(t, UrlAt(m), Url(m))
         /\ Segment(t, UrlEnd(m), WriteVersion(m)) /\ Segment(t, LineEnd(m), Eol(m))
         /\ Segment(t, HeadersAt(m), Lines(m, Count(m)) \o Eol(m))
<1> DEFINE w == WriteHead(m)
<1>1. HeadOK(m) /\ Len(t) \in Nat /\ Segment(t, 0, w)
  BY DEF Reads
<1> HIDE DEF w
<1>2. OfHead(w, m.before, Word(m.method), <<SP>>, Url(m), WriteVersion(m), Eol(m),
             Lines(m, Count(m)) \o Eol(m))
  BY <1>1, HeadParts DEF w
<1>3. /\ Segment(w, 0, m.before) /\ Segment(w, MethodAt(m), Word(m.method))
      /\ Segment(w, MethodAt(m) + 2, <<SP>>) /\ Segment(w, UrlAt(m), Url(m))
      /\ Segment(w, UrlEnd(m), WriteVersion(m)) /\ Segment(w, LineEnd(m), Eol(m))
      /\ Segment(w, HeadersAt(m), Lines(m, Count(m)) \o Eol(m))
  <2>1. /\ UrlEnd(m) = UrlTo(m.before, Url(m))
        /\ LineEnd(m) = LineTo(m.before, Url(m), WriteVersion(m))
        /\ HeadersAt(m) = HeadersFrom(m.before, Url(m), WriteVersion(m), Eol(m))
    BY <1>1, LineOffsets
  <2>2. MethodAt(m) = Len(m.before) /\ UrlAt(m) = Len(m.before) + 3
    BY DEF MethodAt, UrlAt
  <2> QED
    BY <1>2, <2>1, <2>2, TextOfHead, Zenon
<1> QED
  BY <1>1, <1>3, SegmentInFirst, Zenon

LEMMA HeaderOffsets ==
  ASSUME NEW m, HeadOK(m)
  PROVE  /\ \A i \in 1 .. Count(m) + 1 : HeaderAt(m, i) \in Nat
         /\ HeadEnd(m) \in Nat
         /\ HeaderAt(m, 1) = HeadersAt(m)
<1>1. Count(m) \in Nat /\ HeadersAt(m) \in Nat /\ Len(Eol(m)) \in {1, 2}
  BY HeadersType, LineOffsets
<1>2. \A k \in 0..Count(m) : Len(Lines(m, k)) \in Nat
  BY LinesText
<1>3. \A i \in 1 .. Count(m) + 1 : i - 1 \in 0..Count(m)
  BY <1>1
<1>4. \A i \in 1 .. Count(m) + 1 : HeaderAt(m, i) \in Nat
  BY <1>1, <1>2, <1>3 DEF HeaderAt
<1>5. Count(m) + 1 \in 1 .. Count(m) + 1
  BY <1>1
<1>6. Lines(m, 0) = <<>>
  <2>1. [j \in 1..0 |-> LinesOf(m)[j]] = <<>>
    OBVIOUS
  <2> QED
    BY <2>1, FlattenNone DEF Lines
<1>7. HeaderAt(m, 1) = HeadersAt(m)
  BY <1>1, <1>6 DEF HeaderAt
<1> QED
  BY <1>1, <1>4, <1>5, <1>7 DEF HeadEnd

LEMMA HeaderPlaces ==
  ASSUME NEW m, HeadOK(m), NEW i \in 1..Count(m)
  PROVE  /\ HeaderAt(m, i) \in Nat /\ NameEnd(m, i) \in Nat /\ LeadEnd(m, i) \in Nat
         /\ ValueEnd(m, i) \in Nat /\ FoldAt(m, i) \in Nat /\ FoldEnd(m, i) \in Nat
         /\ Len(NameOf(m, i)) \in Nat /\ Len(LeadOf(m, i)) \in Nat
         /\ Len(ValueOf(m, i)) \in Nat /\ Len(FoldOf(m, i)) \in Nat
         /\ Len(Eol(m)) \in {1, 2}
         /\ LeadEnd(m, i) = HeaderAt(m, i) + ValueFrom(NameOf(m, i), LeadOf(m, i))
         /\ ValueEnd(m, i) = HeaderAt(m, i) + ValueTo(NameOf(m, i), LeadOf(m, i), ValueOf(m, i))
<1>1. /\ Len(NameOf(m, i)) \in Nat /\ Len(LeadOf(m, i)) \in Nat
      /\ Len(ValueOf(m, i)) \in Nat /\ Len(FoldOf(m, i)) \in Nat
      /\ Len(Eol(m)) \in {1, 2}
  BY HeaderLengths, LineOffsets
<1>2. Count(m) \in Nat /\ i \in 1 .. Count(m) + 1
  BY HeadersType
<1>3. HeaderAt(m, i) \in Nat
  BY <1>2, HeaderOffsets
<1>4. NameEnd(m, i) \in Nat
  BY <1>1, <1>3 DEF NameEnd
<1>5. LeadEnd(m, i) \in Nat /\ LeadEnd(m, i) = HeaderAt(m, i) + ValueFrom(NameOf(m, i), LeadOf(m, i))
      /\ ValueFrom(NameOf(m, i), LeadOf(m, i)) \in Nat
  BY <1>1, <1>3 DEF NameEnd, LeadEnd, ValueFrom
<1>6. /\ ValueEnd(m, i) \in Nat
      /\ ValueEnd(m, i) = HeaderAt(m, i) + ValueTo(NameOf(m, i), LeadOf(m, i), ValueOf(m, i))
  BY <1>1, <1>3, <1>5 DEF ValueEnd, ValueTo
<1>7. FoldAt(m, i) \in Nat
  BY <1>1, <1>6 DEF FoldAt
<1>8. FoldEnd(m, i) \in Nat
  BY <1>1, <1>7 DEF FoldEnd
<1> QED
  BY <1>1, <1>3, <1>4, <1>5, <1>6, <1>7, <1>8

LEMMA HeaderSegments ==
  ASSUME NEW t, NEW m, Reads(t, m), NEW i \in 1..Count(m)
  PROVE  /\ Segment(t, HeaderAt(m, i), NameOf(m, i)) /\ Segment(t, NameEnd(m, i), <<Ch(":")>>)
         /\ Segment(t, NameEnd(m, i) + 1, LeadOf(m, i)) /\ Segment(t, LeadEnd(m, i), ValueOf(m, i))
         /\ Segment(t, ValueEnd(m, i), Eol(m))
         /\ ~Folded(m, i) => HeaderAt(m, i + 1) = FoldAt(m, i)
         /\ Folded(m, i) =>
              /\ Segment(t, FoldAt(m, i), FoldOf(m, i)) /\ Segment(t, FoldEnd(m, i), Eol(m))
              /\ HeaderAt(m, i + 1) = FoldEnd(m, i) + Len(Eol(m))
<1> DEFINE n == NameOf(m, i)
           l == LeadOf(m, i)
           v == ValueOf(m, i)
           f == FoldOf(m, i)
           e == Eol(m)
           w == LinesOf(m)[i]
           o == HeaderAt(m, i)
           all == Lines(m, Count(m)) \o e
<1>0. HeadOK(m) /\ Len(t) \in Nat /\ Count(m) \in Nat
  BY HeadersType DEF Reads
<1>1. /\ w \in Seq(Sign)
      /\ ValueFrom(n, l) \in Nat /\ ValueTo(n, l, v) \in Nat
      /\ Segment(w, 0, n) /\ Segment(w, Len(n), <<Ch(":")>>) /\ Segment(w, Len(n) + 1, l)
      /\ Segment(w, ValueFrom(n, l), v) /\ Segment(w, ValueTo(n, l, v), e)
      /\ f = <<>> => Len(w) = ValueTo(n, l, v) + Len(e)
      /\ f # <<>> =>
           /\ Segment(w, ValueTo(n, l, v) + Len(e), f)
           /\ Segment(w, ValueTo(n, l, v) + Len(e) + Len(f), e)
           /\ Len(w) = ValueTo(n, l, v) + Len(e) + Len(f) + Len(e)
  <2>1. e \in Seq(Sign)
    BY <1>0, EolType DEF Eol
  <2>2. /\ f \in Seq(Sign)
        /\ OfSix(w, n, <<Ch(":")>>, l, v, FoldLine(e, f), e)
    BY <1>0, HeaderTypes
  <2> HIDE DEF n, l, v, f, e, w
  <2>3. Continues(FoldLine(e, f), e, f)
    BY <2>1, <2>2, FoldContinues, Zenon
  <2> QED
    BY <2>2, <2>3, FoldedHeader
<1>2. Segment(t, o, w)
  <2>1. Lines(m, Count(m)) \in Seq(Sign) /\ Segment(Lines(m, Count(m)), Len(Lines(m, i - 1)), w)
    BY <1>0, LinesText
  <2>2. Follows(all, Lines(m, Count(m)), e)
    BY <1>0, <2>1, EolType DEF Eol, Follows
  <2> HIDE DEF all, w
  <2>3. Segment(all, Len(Lines(m, i - 1)), w)
    BY <2>1, <2>2, FollowsFirst
  <2>4. Segment(t, HeadersAt(m), all)
    BY LineSegments DEF all
  <2>5. Segment(t, HeadersAt(m) + Len(Lines(m, i - 1)), w)
    BY <1>0, <2>3, <2>4, SegmentWithin, Zenon
  <2> QED
    BY <2>5 DEF HeaderAt
<1>3. /\ HeaderAt(m, i) \in Nat /\ NameEnd(m, i) \in Nat /\ LeadEnd(m, i) \in Nat
      /\ ValueEnd(m, i) \in Nat /\ FoldAt(m, i) \in Nat /\ FoldEnd(m, i) \in Nat
      /\ Len(n) \in Nat /\ Len(f) \in Nat /\ Len(e) \in {1, 2}
      /\ LeadEnd(m, i) = o + ValueFrom(n, l) /\ ValueEnd(m, i) = o + ValueTo(n, l, v)
  BY <1>0, HeaderPlaces
<1>4. HeaderAt(m, i + 1) = o + Len(w)
  <2>1. i - 1 \in Nat /\ (i - 1) + 1 = i /\ i - 1 \in 0..Count(m) /\ (i + 1) - 1 = i
    BY <1>0
  <2>2. Lines(m, i) = Lines(m, i - 1) \o w
    BY <1>0, <2>1, LinesGrow
  <2>3. Lines(m, i - 1) \in Seq(Sign)
    BY <1>0, <2>1, LinesText
  <2>4. Len(Lines(m, i)) = Len(Lines(m, i - 1)) + Len(w) /\ Len(w) \in Nat /\ Len(Lines(m, i - 1)) \in Nat
    BY <1>1, <2>2, <2>3
  <2>5. HeadersAt(m) \in Nat
    BY <1>0, LineOffsets
  <2> HIDE DEF w
  <2> QED
    BY <2>1, <2>4, <2>5 DEF HeaderAt
<1> HIDE DEF n, l, v, f, e, w, o
<1> DEFINE c == ValueTo(n, l, v)
<1> HIDE DEF c
<1>5. /\ NameEnd(m, i) = o + Len(n) /\ NameEnd(m, i) + 1 = o + (Len(n) + 1)
      /\ o + 0 = o /\ FoldAt(m, i) = o + (c + Len(e)) /\ FoldEnd(m, i) = o + (c + Len(e) + Len(f))
      /\ FoldEnd(m, i) + Len(e) = o + (c + Len(e) + Len(f) + Len(e))
  <2>1. o \in Nat /\ c \in Nat /\ ValueEnd(m, i) = o + c
    BY <1>1, <1>3 DEF o, c
  <2> DEFINE x == Len(n)
             y == Len(e)
             z == Len(f)
  <2>2. x \in Nat /\ y \in Nat /\ z \in Nat
    BY <1>3
  <2>3. NameEnd(m, i) = o + x
    BY DEF NameEnd, n, o
  <2>4. FoldAt(m, i) = ValueEnd(m, i) + y
    BY DEF FoldAt, e
  <2>5. FoldEnd(m, i) = FoldAt(m, i) + z
    BY DEF FoldEnd, f
  <2> HIDE DEF x, y, z
  <2>6. FoldAt(m, i) = o + (c + y)
    BY <2>1, <2>2, <2>4
  <2>7. FoldEnd(m, i) = o + (c + y + z)
    BY <2>1, <2>2, <2>5, <2>6
  <2>8. NameEnd(m, i) + 1 = o + (x + 1) /\ o + 0 = o
    BY <2>1, <2>2, <2>3
  <2>9. FoldEnd(m, i) + y = o + (c + y + z + y)
    BY <2>1, <2>2, <2>7
  <2> QED
    BY <2>3, <2>6, <2>7, <2>8, <2>9 DEF x, y, z
<1>6. /\ Segment(t, o + 0, n) /\ Segment(t, o + Len(n), <<Ch(":")>>) /\ Segment(t, o + (Len(n) + 1), l)
      /\ Segment(t, o + ValueFrom(n, l), v) /\ Segment(t, o + c, e)
  BY <1>0, <1>1, <1>2, SegmentWithin, Zenon DEF c
<1>7. ASSUME f # <<>>
      PROVE  /\ Segment(t, o + (c + Len(e)), f) /\ Segment(t, o + (c + Len(e) + Len(f)), e)
             /\ Len(w) = c + Len(e) + Len(f) + Len(e)
  BY <1>0, <1>1, <1>2, <1>7, SegmentWithin, Zenon DEF c
<1>8. f = <<>> => Len(w) = c + Len(e)
  BY <1>1 DEF c
<1>9. ValueEnd(m, i) = o + c
  BY <1>3 DEF c
<1>10. Folded(m, i) <=> f # <<>>
  BY DEF Folded, f
<1>11. /\ Segment(t, o, n) /\ Segment(t, NameEnd(m, i), <<Ch(":")>>)
       /\ Segment(t, NameEnd(m, i) + 1, l) /\ Segment(t, LeadEnd(m, i), v)
       /\ Segment(t, ValueEnd(m, i), e)
  BY <1>3, <1>5, <1>6, <1>9, Zenon
<1>12. ~Folded(m, i) => HeaderAt(m, i + 1) = FoldAt(m, i)
  BY <1>4, <1>5, <1>8, <1>10, Zenon
<1>13. Folded(m, i) =>
         /\ Segment(t, FoldAt(m, i), f) /\ Segment(t, FoldEnd(m, i), e)
         /\ HeaderAt(m, i + 1) = FoldEnd(m, i) + Len(e)
  BY <1>4, <1>5, <1>7, <1>10, Zenon
<1> QED
  BY <1>11, <1>12, <1>13, Zenon DEF n, l, v, f, e, o

LEMMA EndSegment ==
  ASSUME NEW t, NEW m, Reads(t, m)
  PROVE  Segment(t, HeaderAt(m, Count(m) + 1), Eol(m)) /\ HeadEnd(m) <= Len(t)
<1> DEFINE all == Lines(m, Count(m)) \o Eol(m)
<1>0. HeadOK(m) /\ Len(t) \in Nat /\ Count(m) \in Nat
  BY HeadersType DEF Reads
<1>1. Follows(all, Lines(m, Count(m)), Eol(m))
  BY <1>0, LinesText, EolType DEF Eol, Follows
<1> HIDE DEF all
<1>2. Segment(all, Len(Lines(m, Count(m))), Eol(m))
  BY <1>1, FollowsText
<1>3. Segment(t, HeadersAt(m), all)
  BY LineSegments DEF all
<1>4. Segment(t, HeadersAt(m) + Len(Lines(m, Count(m))), Eol(m))
  BY <1>0, <1>2, <1>3, SegmentWithin, Zenon
<1>5. (Count(m) + 1) - 1 = Count(m)
  BY <1>0
<1>6. Segment(t, HeaderAt(m, Count(m) + 1), Eol(m))
  BY <1>4, <1>5 DEF HeaderAt
<1> QED
  BY <1>6 DEF Segment, HeadEnd

-----------------------------------------------------------------------------
(* The units at each place.                                                *)

LEMMA SegmentUnit ==
  ASSUME NEW t, NEW o, NEW part, Segment(t, o, part), NEW p \in Nat, o < p, p <= o + Len(part)
  PROVE  t[p] = part[p - o] /\ p - o \in 1..Len(part)
<1>1. o \in Nat /\ Len(part) \in Nat
  BY DEF Segment
<1>2. p - o \in 1..Len(part) /\ o + (p - o) = p
  BY <1>1
<1>3. t[o + (p - o)] = part[p - o]
  BY <1>2 DEF Segment
<1> QED
  BY <1>2, <1>3

LEMMA SegmentText ==
  ASSUME NEW t \in Seq(Unit), NEW o, NEW part, Segment(t, o, part), part # <<>>
  PROVE  SubSeq(t, o + 1, o + Len(part)) = part
<1>1. /\ o \in Nat /\ Len(part) \in Nat /\ part \in Seq(Sign) /\ o + Len(part) <= Len(t)
      /\ Len(t) \in Nat
  BY DEF Segment
<1>2. Len(part) >= 1
  BY <1>1
<1>3. \A i \in o + 1 .. o + Len(part) : t[i] \in Unit
  BY <1>1
<1>4. SubSeq(t, o + 1, o + Len(part)) \in Seq(Unit)
      /\ Len(SubSeq(t, o + 1, o + Len(part))) = (o + Len(part)) - (o + 1) + 1
      /\ \A i \in 1 .. (o + Len(part)) - (o + 1) + 1 :
           SubSeq(t, o + 1, o + Len(part))[i] = t[(o + 1) + i - 1]
  BY <1>1, <1>2, <1>3, SubSeqProperties
<1> DEFINE n == Len(part)
           sub == SubSeq(t, o + 1, o + n)
<1>5. (o + n) - (o + 1) + 1 = n /\ \A i \in 1..n : (o + 1) + i - 1 = o + i
  BY <1>1
<1>6. Len(sub) = n /\ \A i \in 1..n : sub[i] = t[o + i]
  BY <1>4, <1>5
<1>7. \A i \in 1..n : sub[i] = part[i]
  BY <1>6 DEF Segment
<1>8. sub \in Seq(Sign)
  BY <1>4, UnitSigns
<1> HIDE DEF sub
<1>9. sub = part
  BY <1>1, <1>6, <1>7, <1>8, SeqEqual
<1> QED
  BY <1>9 DEF sub

LEMMA LineEnds ==
  /\ CR # LF /\ CR # SP /\ LF # SP /\ ~IsBlank(CR) /\ ~IsBlank(LF)
  /\ CR # Ch(":") /\ LF # Ch(":") /\ SP # Ch(":") /\ ~IsToken(Ch(":"))
  /\ CR.h = 0 /\ LF.h = 0 /\ SP.h = 0
BY DEF CR, LF, SP, HT, Ch, IsBlank, IsToken, IsAlpha, IsNum, Digits

LEMMA EolUnits ==
  ASSUME NEW m, NEW t, HeadOK(m), NEW o, Segment(t, o, Eol(m))
  PROVE  /\ t[o + 1] \in {CR, LF}
         /\ t[o + 1] = LF => Len(Eol(m)) = 1
         /\ t[o + 1] = CR => Len(Eol(m)) = 2 /\ Eol(m) = CRLF
<1>1. o \in Nat /\ Len(Eol(m)) \in {1, 2}
  BY EolType DEF Segment, Eol
<1>2. t[o + 1] = Eol(m)[1]
  BY <1>1 DEF Segment
<1>3. /\ Len(Eol(m)) = 1 => Eol(m)[1] = LF
      /\ Len(Eol(m)) = 2 => Eol(m) = CRLF /\ Eol(m)[1] = CR
  BY EolType DEF Eol
<1> QED
  BY <1>1, <1>2, <1>3, LineEnds

LEMMA NameUnits ==
  ASSUME NEW t, NEW m, Reads(t, m), NEW i \in 1..Count(m), NEW p \in Nat,
         HeaderAt(m, i) < p, p <= NameEnd(m, i)
  PROVE  /\ t[p] = NameOf(m, i)[p - HeaderAt(m, i)] /\ p - HeaderAt(m, i) \in 1..Len(NameOf(m, i))
         /\ t[p] \notin {CR, LF, SP, HT, Ch(":")}
<1>0. HeadOK(m)
  BY DEF Reads
<1>1. Segment(t, HeaderAt(m, i), NameOf(m, i)) /\ NameEnd(m, i) = HeaderAt(m, i) + Len(NameOf(m, i))
  BY HeaderSegments DEF NameEnd
<1>2. t[p] = NameOf(m, i)[p - HeaderAt(m, i)] /\ p - HeaderAt(m, i) \in 1..Len(NameOf(m, i))
  BY <1>1, SegmentUnit
<1>3. NameOf(m, i)[p - HeaderAt(m, i)] \notin {CR, LF, SP, HT, Ch(":")}
  <2>1. NameOf(m, i) \in Seq(Sign) /\ HeaderOK(m.headers[i])
    BY <1>0, HeaderTypes, HeadersType DEF HeadOK
  <2>2. \A k \in DOMAIN NameOf(m, i) : NameOf(m, i)[k] \notin {CR, LF, SP, HT, Ch(":")}
    BY <2>1 DEF HeaderOK, NameOf
  <2>3. DOMAIN NameOf(m, i) = 1..Len(NameOf(m, i))
    BY <2>1
  <2> QED
    BY <1>2, <2>2, <2>3
<1> QED
  BY <1>2, <1>3

LEMMA NameHere ==
  ASSUME NEW m, HeadOK(m), NEW i \in 1..Count(m)
  PROVE  NameOf(m, i) # <<>> /\ HeaderAt(m, i) < NameEnd(m, i) /\ Len(NameOf(m, i)) \in Nat \ {0}
<1>1. NameOf(m, i) # <<>> /\ NameOf(m, i) \in Seq(Sign)
  BY HeaderTypes, HeadersType DEF HeadOK, HeaderOK, NameOf
<1>2. Len(NameOf(m, i)) \in Nat \ {0}
  BY <1>1
<1>3. HeaderAt(m, i) \in Nat
  BY HeaderPlaces
<1> QED
  BY <1>1, <1>2, <1>3 DEF NameEnd

(* What begins a line of the head is no blank.                             *)
LEMMA LineBegins ==
  ASSUME NEW t, NEW m, Reads(t, m), NEW i \in 1 .. Count(m) + 1
  PROVE  /\ ~IsBlank(t[HeaderAt(m, i) + 1])
         /\ i \in 1..Count(m) => t[HeaderAt(m, i) + 1] \notin {CR, LF}
         /\ i = Count(m) + 1 => t[HeaderAt(m, i) + 1] \in {CR, LF}
<1>0. HeadOK(m) /\ Count(m) \in Nat
  BY HeadersType DEF Reads
<1>1. CASE i \in 1..Count(m)
  <2>1. HeaderAt(m, i) \in Nat /\ NameEnd(m, i) \in Nat /\ HeaderAt(m, i) < NameEnd(m, i)
    BY <1>0, <1>1, HeaderPlaces, NameHere
  <2>2. t[HeaderAt(m, i) + 1] \notin {CR, LF, SP, HT, Ch(":")}
    BY <1>1, <2>1, NameUnits
  <2>3. i # Count(m) + 1
    BY <1>0, <1>1
  <2> QED
    BY <2>2, <2>3 DEF IsBlank
<1>2. CASE i = Count(m) + 1
  <2>1. t[HeaderAt(m, i) + 1] \in {CR, LF}
    BY <1>0, <1>2, EndSegment, EolUnits
  <2>2. ~(i \in 1..Count(m))
    BY <1>0, <1>2
  <2> QED
    BY <1>2, <2>1, <2>2, LineEnds
<1>3. i \in 1..Count(m) \/ i = Count(m) + 1
  BY <1>0
<1> QED
  BY <1>1, <1>2, <1>3

LEMMA LeadUnits ==
  ASSUME NEW t, NEW m, Reads(t, m), NEW i \in 1..Count(m), NEW p \in Nat,
         NameEnd(m, i) + 1 < p, p <= LeadEnd(m, i)
  PROVE  LET k == p - NameEnd(m, i) - 1
             l == LeadOf(m, i)
         IN  /\ t[p] = l[k] /\ k \in 1..Len(l)
             /\ IsBlank(l[k]) \/ l[k] \in {CR, LF}
             /\ l[k] = CR => p < LeadEnd(m, i) /\ t[p + 1] = LF
             /\ l[k] = LF => p < LeadEnd(m, i) /\ IsBlank(t[p + 1])
<1> DEFINE l == LeadOf(m, i)
           o == NameEnd(m, i) + 1
           k == p - NameEnd(m, i) - 1
<1>0. HeadOK(m)
  BY DEF Reads
<1>1. Segment(t, o, l)
  BY HeaderSegments
<1>2. NameEnd(m, i) \in Nat /\ LeadEnd(m, i) = o + Len(l) /\ Len(l) \in Nat /\ k = p - o
  BY <1>0, HeaderPlaces DEF LeadEnd
<1>3. l \in Seq(Sign) /\ DOMAIN l = 1..Len(l)
  BY <1>0, HeaderTypes
<1>4. LeadOK(l)
  BY <1>0, HeadersType DEF HeadOK, HeaderOK, LeadOf
<1> HIDE DEF l
<1>5. t[p] = l[k] /\ k \in 1..Len(l)
  BY <1>1, <1>2, SegmentUnit
<1>6. /\ IsBlank(l[k]) \/ l[k] \in {CR, LF}
      /\ l[k] = CR => k < Len(l) /\ l[k + 1] = LF
      /\ l[k] = LF => k < Len(l) /\ IsBlank(l[k + 1])
  BY <1>3, <1>4, <1>5 DEF LeadOK
<1>7. ASSUME k < Len(l) PROVE p < LeadEnd(m, i) /\ t[p + 1] = l[k + 1]
  <2>1. p + 1 \in Nat /\ o < p + 1 /\ p + 1 <= o + Len(l) /\ (p + 1) - o = k + 1
    BY <1>2, <1>5, <1>7
  <2>2. t[p + 1] = l[(p + 1) - o]
    BY <1>1, <2>1, SegmentUnit
  <2> QED
    BY <1>2, <1>5, <1>7, <2>1, <2>2
<1> QED
  BY <1>5, <1>6, <1>7 DEF l

LEMMA ValueUnits ==
  ASSUME NEW t, NEW m, Reads(t, m), NEW i \in 1..Count(m), NEW p \in Nat,
         LeadEnd(m, i) < p, p <= ValueEnd(m, i)
  PROVE  /\ t[p] = ValueOf(m, i)[p - LeadEnd(m, i)] /\ p - LeadEnd(m, i) \in 1..Len(ValueOf(m, i))
         /\ t[p] \notin {CR, LF} /\ (p = LeadEnd(m, i) + 1 => ~IsBlank(t[p]))
         /\ ~EmptyValue(m, i)
<1> DEFINE v == ValueOf(m, i)
<1>0. HeadOK(m) /\ v \in Seq(Sign) /\ DOMAIN v = 1..Len(v)
  BY HeaderTypes DEF Reads
<1>1. Segment(t, LeadEnd(m, i), v) /\ ValueEnd(m, i) = LeadEnd(m, i) + Len(v)
      /\ LeadEnd(m, i) \in Nat /\ Len(v) \in Nat
  BY <1>0, HeaderSegments, HeaderPlaces DEF ValueEnd
<1>2. HeaderOK(m.headers[i])
  BY <1>0, HeadersType DEF HeadOK
<1>3. /\ \A k \in 1..Len(v) : v[k] \notin {CR, LF}
      /\ v # <<>> => ~IsBlank(v[1])
  BY <1>0, <1>2 DEF HeaderOK, ValueOf
<1> HIDE DEF v
<1>4. t[p] = v[p - LeadEnd(m, i)] /\ p - LeadEnd(m, i) \in 1..Len(v)
  BY <1>1, SegmentUnit
<1>5. v # <<>>
  BY <1>4
<1>6. p = LeadEnd(m, i) + 1 => p - LeadEnd(m, i) = 1
  BY <1>1
<1>7. t[p] \notin {CR, LF} /\ (p = LeadEnd(m, i) + 1 => ~IsBlank(t[p]))
  BY <1>3, <1>4, <1>5, <1>6
<1> QED
  BY <1>4, <1>5, <1>7 DEF v, EmptyValue

LEMMA FoldUnits ==
  ASSUME NEW t, NEW m, Reads(t, m), NEW i \in 1..Count(m), NEW p \in Nat,
         FoldAt(m, i) < p, p <= FoldEnd(m, i)
  PROVE  /\ t[p] = FoldOf(m, i)[p - FoldAt(m, i)] /\ p - FoldAt(m, i) \in 1..Len(FoldOf(m, i))
         /\ t[p] \notin {CR, LF} /\ (p = FoldAt(m, i) + 1 => IsBlank(t[p]))
         /\ Folded(m, i)
<1> DEFINE v == FoldOf(m, i)
<1>0. HeadOK(m) /\ v \in Seq(Sign) /\ DOMAIN v = 1..Len(v)
  BY HeaderTypes DEF Reads
<1>1. FoldEnd(m, i) = FoldAt(m, i) + Len(v) /\ FoldAt(m, i) \in Nat /\ Len(v) \in Nat
  BY <1>0, HeaderPlaces DEF FoldEnd
<1>2. HeaderOK(m.headers[i])
  BY <1>0, HeadersType DEF HeadOK
<1>3. /\ \A k \in 1..Len(v) : v[k] \notin {CR, LF}
      /\ v # <<>> => IsBlank(v[1])
  BY <1>0, <1>2 DEF HeaderOK, FoldOf
<1> HIDE DEF v
<1>5. v # <<>>
  <2>1. Len(v) # 0
    BY <1>1
  <2> QED
    BY <2>1
<1>8. Folded(m, i)
  BY <1>5 DEF Folded, v
<1>9. Segment(t, FoldAt(m, i), v)
  BY <1>8, HeaderSegments DEF v
<1>4. t[p] = v[p - FoldAt(m, i)] /\ p - FoldAt(m, i) \in 1..Len(v)
  BY <1>1, <1>9, SegmentUnit
<1>6. p = FoldAt(m, i) + 1 => p - FoldAt(m, i) = 1
  BY <1>1
<1>7. t[p] \notin {CR, LF} /\ (p = FoldAt(m, i) + 1 => IsBlank(t[p]))
  BY <1>3, <1>4, <1>5, <1>6
<1> QED
  BY <1>4, <1>7, <1>8 DEF v

(* Only a value is folded, and a fold begins with a blank.                 *)
LEMMA FoldBegins ==
  ASSUME NEW t, NEW m, Reads(t, m), NEW i \in 1..Count(m)
  PROVE  /\ Folded(m, i) => ~EmptyValue(m, i)
         /\ Folded(m, i) <=> IsBlank(t[FoldAt(m, i) + 1])
         /\ Folded(m, i) => FoldAt(m, i) < FoldEnd(m, i)
         /\ EmptyValue(m, i) => ValueEnd(m, i) = LeadEnd(m, i)
<1>0. HeadOK(m) /\ Count(m) \in Nat
  BY HeadersType DEF Reads
<1>1. HeaderOK(m.headers[i])
  BY <1>0, HeadersType DEF HeadOK
<1>2. Folded(m, i) => ~EmptyValue(m, i)
  BY <1>1 DEF HeaderOK, Folded, EmptyValue, FoldOf, ValueOf
<1>3. FoldAt(m, i) \in Nat /\ FoldEnd(m, i) = FoldAt(m, i) + Len(FoldOf(m, i))
  BY <1>0, HeaderPlaces DEF FoldEnd
<1>4. Folded(m, i) => FoldAt(m, i) < FoldEnd(m, i)
  <2>1. Folded(m, i) => Len(FoldOf(m, i)) \in Nat \ {0}
    BY <1>0, HeaderTypes DEF Folded
  <2> QED
    BY <1>3, <2>1
<1>5. Folded(m, i) => IsBlank(t[FoldAt(m, i) + 1])
  <2> SUFFICES ASSUME Folded(m, i) PROVE IsBlank(t[FoldAt(m, i) + 1])
    OBVIOUS
  <2>1. FoldAt(m, i) + 1 <= FoldEnd(m, i) /\ FoldAt(m, i) < FoldAt(m, i) + 1 /\ FoldAt(m, i) + 1 \in Nat
    <3>1. FoldEnd(m, i) \in Nat
      BY <1>0, HeaderPlaces
    <3> QED
      BY <1>3, <1>4, <3>1
  <2> QED
    BY <2>1, FoldUnits
<1>6. ~Folded(m, i) => ~IsBlank(t[FoldAt(m, i) + 1])
  <2>1. i + 1 \in 1 .. Count(m) + 1
    BY <1>0
  <2>2. ~Folded(m, i) => HeaderAt(m, i + 1) = FoldAt(m, i)
    BY HeaderSegments
  <2>3. ~IsBlank(t[HeaderAt(m, i + 1) + 1])
    BY <2>1, LineBegins
  <2> QED
    BY <2>2, <2>3
<1>7. EmptyValue(m, i) => ValueEnd(m, i) = LeadEnd(m, i)
  <2>1. LeadEnd(m, i) \in Nat
    BY <1>0, HeaderPlaces
  <2>2. EmptyValue(m, i) => Len(ValueOf(m, i)) = 0
    BY DEF EmptyValue
  <2> QED
    BY <2>1, <2>2 DEF ValueEnd
<1> QED
  BY <1>2, <1>4, <1>5, <1>6, <1>7

-----------------------------------------------------------------------------
(* What a pass leaves of the parser.                                       *)

SameLine(p, q) == p.method = q.method /\ p.http_major = q.http_major /\ p.http_minor = q.http_minor
SameLength(p, q) == p.flags = q.flags /\ p.content_length = q.content_length
Like(p, q) == SameLine(p, q) /\ SameLength(p, q) /\ p.header_state = q.header_state

(* The pass ends in state, with the unit behind the next d, and has        *)
(* learned nothing.                                                        *)
Went(state, d) == Like(parser', parser) /\ parser'.state = state /\ pos' - 1 = d
Still == called' = <<>> /\ marks' = marks

LEMMA QuietStill == Quiet => Still
BY DEF Quiet, Tell, Still

LEMMA ErrorTells == ASSUME ParserInv, NEW errno, errno # "OK", Error(errno) PROVE parser'.http_errno # "OK"
BY DEF Error, Move, ParserInv, ParserOK, ParserRecords

LEMMA ToLike ==
  ASSUME ParserInv, NEW state
  PROVE  Like(To(state), parser) /\ To(state).state = state
BY DEF To, Like, SameLine, SameLength, ParserInv, ParserOK, ParserRecords

LEMMA SomeState ==
  ASSUME ParserInv, NEW hs
  PROVE  LET p == [parser EXCEPT !.header_state = hs]
         IN  SameLine(p, parser) /\ SameLength(p, parser) /\ p.header_state = hs /\ p.state = parser.state
BY DEF SameLine, SameLength, ParserInv, ParserOK, ParserRecords

LEMMA ToState ==
  ASSUME ParserInv, NEW state, NEW hs
  PROVE  LET p == [To(state) EXCEPT !.header_state = hs]
         IN  SameLine(p, parser) /\ SameLength(p, parser) /\ p.header_state = hs /\ p.state = state
BY DEF To, SameLine, SameLength, ParserInv, ParserOK, ParserRecords

LEMMA Place == ParserInv => pos \in Nat \ {0} /\ (pos - 1) + 1 = pos /\ (pos + 1) - 1 = (pos - 1) + 1
BY DEF ParserInv, Places

LEMMA ConsumesTo ==
  ASSUME ParserInv, NEW state, Consume(To(state))
  PROVE  Went(state, pos) /\ at' = "loop"
BY ToLike, Place DEF Consume, Move, Went

LEMMA AgainTo ==
  ASSUME ParserInv, NEW state, Again(To(state))
  PROVE  Went(state, pos - 1) /\ at' = "switch"
BY ToLike, Place DEF Again, Move, Went

LEMMA ConsumesSame ==
  ASSUME ParserInv, Consume(parser)
  PROVE  Went(parser.state, pos) /\ at' = "loop"
BY Place DEF Consume, Move, Went, Like, SameLine, SameLength

LEMMA CountGoes ==
  ASSUME ParserInv, NEW state \in States, NEW end, NEW next, NEW where,
         CountThen(To(state), end, next, where), parser'.http_errno = "OK"
  PROVE  Like(parser', parser) /\ parser'.state = state /\ pos' = next /\ at' = where
         /\ Counted(end) <= max_header_size
<1> DEFINE count == Counted(end)
           p == To(state)
           q == [p EXCEPT !.nread = count]
<1>1. CASE count > max_header_size
  <2>1. [p EXCEPT !.http_errno = "HEADER_OVERFLOW"].http_errno = "HEADER_OVERFLOW"
    BY DEF To, ParserInv, ParserOK, ParserRecords
  <2>2. parser' = [p EXCEPT !.http_errno = "HEADER_OVERFLOW"]
        \/ (parser' = q /\ pos' = next /\ at' = where /\ count <= max_header_size)
    BY DEF CountThen, Move
  <2>3. Like(q, parser) /\ q.state = state
    BY DEF To, Like, SameLine, SameLength, ParserInv, ParserOK, ParserRecords
  <2> QED
    BY <2>1, <2>2, <2>3
<1>2. CASE ~(count > max_header_size)
  <2>1. parser' = q /\ pos' = next /\ at' = where /\ count <= max_header_size
    BY <1>2 DEF CountThen, Move
  <2> HIDE DEF count
  <2>3. Like(q, parser) /\ q.state = state
    BY DEF To, Like, SameLine, SameLength, ParserInv, ParserOK, ParserRecords
  <2> QED
    BY <2>1, <2>3 DEF count
<1> QED
  BY <1>1, <1>2

LEMMA NotTooLarge ==
  ASSUME ParserInv, Counted(pos) <= max_header_size
  PROVE  ~(Counted(pos) > max_header_size)
<1>1. parser.nread \in Nat
  BY LengthType
<1>2. pos \in Int /\ start \in Int
  BY DEF ParserInv, Places
<1> QED
  BY <1>1, <1>2, SizesOK DEF Counted

LEMMA ToItself == ParserInv => To(parser.state) = parser
BY DEF To, ParserInv, ParserOK, ParserRecords

(* The end of an inner loop behind what has arrived.                       *)
LEMMA LoopEnds ==
  ASSUME ParserInv, Quiet, CountThen(parser, pos - 1, pos, "loop"), parser'.http_errno = "OK"
  PROVE  Still /\ Went(parser.state, pos - 1) /\ at' = "loop"
<1>1. To(parser.state) = parser /\ parser.state \in States
  BY ToItself DEF ParserInv, ParserOK, ParserRecords
<1>2. Like(parser', parser) /\ parser'.state = parser.state /\ pos' = pos /\ at' = "loop"
  BY <1>1, CountGoes
<1> QED
  BY <1>2, QuietStill DEF Went

LEMMA ExpectGoes ==
  ASSUME ParserInv, NEW state, NEW u, NEW next, NEW errno, errno # "OK",
         Expect(state, u, next, errno), parser'.http_errno = "OK"
  PROVE  Still /\ Went(next, pos) /\ at' = "loop" /\ U = u
<1>1. CASE U = u /\ Consume(To(next))
  BY <1>1, ConsumesTo, QuietStill DEF Expect
<1>2. CASE U # u /\ Error(errno)
  BY <1>2, ErrorTells
<1> QED
  BY <1>1, <1>2 DEF Expect

-----------------------------------------------------------------------------
(* The header lines, pass by pass.                                         *)

(* header_state behind the first unit of a name.                           *)
NameBegun(u) ==
  IF u.h = 1 /\ Lower(u.w) \in SpecialNames THEN HS("h_matching", Lower(u.w)) ELSE General

LEMMA BeginsName ==
  ASSUME ParserInv, NEW m, Reads(input, m), NEW i \in 1 .. Count(m) + 1,
         AtHeader(m, i, parser.state, pos - 1), PassHeaderFieldStart, parser'.http_errno = "OK"
  PROVE  /\ called' = <<>> /\ SameLine(parser', parser) /\ SameLength(parser', parser)
         /\ \/ /\ i \in 1..Count(m) /\ InName(m, i, parser'.state, pos' - 1) /\ at' = "loop"
               /\ pos' - 1 = HeaderAt(m, i) + 1 /\ marks'["header_field"] = HeaderAt(m, i) + 1
               /\ parser'.header_state = NameBegun(NameOf(m, i)[1])
            \/ /\ i = Count(m) + 1 /\ parser'.state = "s_headers_almost_done"
               /\ BehindHeaders(m, parser'.state, pos' - 1)
<1> DEFINE o == HeaderAt(m, i)
<1>0. HeadOK(m) /\ Count(m) \in Nat
  BY HeadersType DEF Reads
<1>1. pos = o + 1 /\ o \in Nat /\ pos \in Nat
  <2>1. o \in Nat
    BY <1>0, HeaderOffsets
  <2> QED
    BY <2>1, Place DEF AtHeader
<1>2. i \in 1..Count(m) => U \notin {CR, LF}
  BY <1>1, LineBegins DEF U
<1>3. i \notin 1..Count(m) => i = Count(m) + 1 /\ U \in {CR, LF}
  BY <1>0, <1>1, LineBegins DEF U
<1>4. CASE U = CR /\ Quiet /\ Consume(To("s_headers_almost_done"))
  <2>1. i = Count(m) + 1
    BY <1>2, <1>3, <1>4
  <2>2. Len(Eol(m)) = 2
    BY <1>0, <1>1, <1>4, <2>1, EndSegment, EolUnits DEF U
  <2>3. HeadEnd(m) - 1 = pos
    BY <1>1, <2>1, <2>2 DEF HeadEnd
  <2>4. Still /\ Went("s_headers_almost_done", pos)
    BY <1>4, ConsumesTo, QuietStill
  <2> QED
    BY <2>1, <2>3, <2>4 DEF Went, Still, Like, BehindHeaders
<1>5. CASE U = LF /\ Quiet /\ Again(To("s_headers_almost_done"))
  <2>1. i = Count(m) + 1
    BY <1>2, <1>3, <1>5
  <2>2. Len(Eol(m)) = 1
    BY <1>0, <1>1, <1>5, <2>1, EndSegment, EolUnits DEF U
  <2>3. HeadEnd(m) - 1 = pos - 1
    BY <1>1, <2>1, <2>2 DEF HeadEnd
  <2>4. Still /\ Went("s_headers_almost_done", pos - 1)
    BY <1>5, AgainTo, QuietStill
  <2> QED
    BY <2>1, <2>3, <2>4 DEF Went, Still, Like, BehindHeaders
<1>6. CASE Error("INVALID_HEADER_TOKEN")
  BY <1>6, ErrorTells
<1>7. CASE /\ IsToken(U)
           /\ Mark("header_field")
           /\ Consume([To("s_header_field") EXCEPT !.header_state = NameBegun(U)])
  <2> DEFINE hs == NameBegun(U)
             p == [To("s_header_field") EXCEPT !.header_state = hs]
  <2>1. parser' = p /\ pos' = pos + 1 /\ at' = "loop"
    BY <1>7 DEF Consume, Move
  <2>2. SameLine(p, parser) /\ SameLength(p, parser) /\ p.header_state = hs /\ p.state = "s_header_field"
    BY ToState
  <2> HIDE DEF p
  <2>3. marks["header_field"] = 0 /\ Places
    BY DEF ParserInv, AtSwitch, Fits, PassHeaderFieldStart, Turn
  <2>4. called' = <<>> /\ marks'["header_field"] = pos
    BY <1>7, <2>3 DEF Mark, Tell, Places, DataCalls
  <2>5. i \in 1..Count(m)
    <3>1. U \notin {CR, LF}
      BY <1>7 DEF IsToken, IsAlpha, IsNum, CR, LF, Ch, Digits
    <3> QED
      BY <1>3, <3>1
  <2>6. NameEnd(m, i) \in Nat /\ o < NameEnd(m, i)
    BY <1>0, <2>5, HeaderPlaces, NameHere
  <2>7. U = NameOf(m, i)[1]
    <3>0. HeaderAt(m, i) < pos /\ pos <= NameEnd(m, i) /\ pos \in Nat /\ pos - o = 1
      BY <1>1, <2>6
    <3>1. input[pos] = NameOf(m, i)[pos - HeaderAt(m, i)]
      BY <2>5, <3>0, NameUnits
    <3> QED
      BY <3>0, <3>1 DEF U
  <2>8. pos' - 1 = o + 1 /\ pos' - 1 \in o + 1 .. NameEnd(m, i)
    BY <1>1, <2>1, <2>6
  <2> HIDE DEF hs
  <2>9. InName(m, i, parser'.state, pos' - 1)
    BY <2>1, <2>2, <2>8 DEF InName
  <2>10. parser'.header_state = NameBegun(NameOf(m, i)[1])
    BY <2>1, <2>2, <2>7 DEF hs
  <2> QED
    BY <1>1, <2>1, <2>2, <2>4, <2>5, <2>8, <2>9, <2>10
<1> QED
  BY <1>4, <1>5, <1>6, <1>7 DEF PassHeaderFieldStart, NameBegun

LEMMA ReadsName ==
  ASSUME ParserInv, NEW m, Reads(input, m), NEW i \in 1..Count(m),
         InName(m, i, parser.state, pos - 1), PassHeaderField, parser'.http_errno = "OK"
  PROVE  /\ SameLine(parser', parser) /\ SameLength(parser', parser)
         /\ \/ Still /\ Went(parser.state, pos - 1) /\ at' = "loop"
            \/ /\ Still /\ InName(m, i, parser'.state, pos' - 1) /\ pos' - 1 = pos /\ at' = "switch"
               /\ parser'.header_state = Name(parser.header_state, NameOf(m, i)[pos - HeaderAt(m, i)])
            \/ /\ Went("s_header_value_discard_ws", NameEnd(m, i) + 1) /\ at' = "loop"
               /\ Data("header_field", pos) /\ pos - 1 = NameEnd(m, i)
<1> DEFINE o == HeaderAt(m, i)
           e == NameEnd(m, i)
<1>0. HeadOK(m) /\ o \in Nat /\ e \in Nat /\ pos \in Nat \ {0}
  BY HeaderPlaces, Place DEF Reads
<1>1. pos - 1 \in o + 1 .. e
  BY DEF InName
<1>2. pos - 1 # e => pos \in Nat /\ o < pos /\ pos <= e
  BY <1>0, <1>1
<1>3. pos - 1 # e => U = NameOf(m, i)[pos - o] /\ U # Ch(":")
  BY <1>2, NameUnits DEF U
<1>4. pos - 1 = e => U = Ch(":")
  <2>1. Segment(input, e, <<Ch(":")>>)
    BY HeaderSegments
  <2>2. pos - 1 = e => pos = e + 1
    BY <1>0
  <2>3. input[e + 1] = <<Ch(":")>>[1]
    BY <2>1 DEF Segment
  <2> QED
    BY <2>2, <2>3 DEF U
<1>5. CASE IsToken(U) /\ Quiet /\ Scan([parser EXCEPT !.header_state = Name(@, U)])
  <2> DEFINE hs == Name(parser.header_state, U)
             p == [parser EXCEPT !.header_state = hs]
  <2>1. parser' = p /\ pos' = pos + 1 /\ at' = "switch"
    BY <1>5 DEF Scan, Move
  <2> HIDE DEF hs
  <2>2. SameLine(p, parser) /\ SameLength(p, parser) /\ p.header_state = hs /\ p.state = parser.state
    BY SomeState
  <2> HIDE DEF p
  <2>3. pos - 1 # e
    BY <1>4, <1>5, LineEnds
  <2>4. pos' - 1 = pos /\ pos' - 1 \in o + 1 .. e
    BY <1>0, <1>1, <1>2, <2>1, <2>3
  <2>5. InName(m, i, parser'.state, pos' - 1)
    BY <2>1, <2>2, <2>4 DEF InName
  <2>6. parser'.header_state = Name(parser.header_state, NameOf(m, i)[pos - o])
    BY <1>3, <2>1, <2>2, <2>3 DEF hs
  <2> QED
    BY <1>5, <2>1, <2>2, <2>4, <2>5, <2>6, QuietStill
<1>6. CASE /\ U = Ch(":")
           /\ IF Counted(pos) > max_header_size THEN Quiet ELSE Data("header_field", pos)
           /\ CountThen(To("s_header_value_discard_ws"), pos, pos + 1, "loop")
  <2>1. /\ Like(parser', parser) /\ parser'.state = "s_header_value_discard_ws" /\ pos' = pos + 1
        /\ at' = "loop" /\ Counted(pos) <= max_header_size
    BY <1>6, CountGoes DEF States
  <2>2. Data("header_field", pos)
    BY <1>6, <2>1, NotTooLarge
  <2>3. pos - 1 = e
    BY <1>3, <1>6
  <2>4. pos' - 1 = e + 1
    BY <1>0, <2>1, <2>3
  <2> QED
    BY <2>1, <2>2, <2>3, <2>4 DEF Went, Like
<1>7. CASE Error(IF Counted(pos) > max_header_size THEN "HEADER_OVERFLOW" ELSE "INVALID_HEADER_TOKEN")
  BY <1>7, ErrorTells
<1>8. CASE Quiet /\ CountThen(parser, pos - 1, pos, "loop")
  BY <1>8, LoopEnds DEF Went, Like
<1> QED
  BY <1>5, <1>6, <1>7, <1>8 DEF PassHeaderField

(* The first unit of a value.                                              *)
LEMMA BeginsValue ==
  ASSUME ParserInv, at = "switch", parser.state \notin ScanStates, StartValue, parser'.http_errno = "OK"
  PROVE  /\ called' = <<>> /\ SameLine(parser', parser) /\ parser'.state = "s_header_value"
         /\ pos' - 1 = pos /\ at' = "loop" /\ marks'["header_value"] = pos
         /\ LET hs == parser.header_state
            IN  \/ /\ hs = HS("h_name", "upgrade")
                   /\ parser'.flags = parser.flags \cup {"F_UPGRADE"}
                   /\ parser'.content_length = parser.content_length
                   /\ parser'.header_state = General
                \/ /\ hs = HS("h_name", "transfer-encoding") /\ SameLength(parser', parser)
                   /\ parser'.header_state \in {HS("h_matching_value", "chunked"), General}
                \/ /\ hs = HS("h_name", "content-length")
                   /\ parser'.flags = parser.flags \cup {"F_CONTENTLENGTH"}
                   /\ parser'.header_state = LengthNum
                \/ /\ hs = HS("h_name", "connection") /\ SameLength(parser', parser)
                   /\ parser'.header_state =
                        IF U.h = 1 /\ Lower(U.w) \in ConnectionTokens
                        THEN HS("h_matching_value", Lower(U.w)) ELSE Token
                \/ /\ hs \in {LengthWs, TokenStart} /\ Like(parser', parser)
                \/ /\ hs.phase # "h_name" \/ hs.word \notin SpecialNames
                   /\ hs \notin {LengthWs, TokenStart}
                   /\ SameLength(parser', parser) /\ parser'.header_state = General
<1> DEFINE value == To("s_header_value")
           hs == parser.header_state
<1>1. called' = <<>> /\ marks'["header_value"] = pos
  <2>1. marks["header_value"] = 0 /\ Places
    BY DEF ParserInv, AtSwitch, Fits, ScanStates
  <2> QED
    BY <2>1 DEF StartValue, Mark, Tell, Places, DataCalls
<1>2. /\ value.state = "s_header_value" /\ Like(value, parser) /\ value.header_state = hs
  BY ToLike DEF Like
<1>3. value \in ParserRecords
  BY DEF To, ParserInv, ParserOK, ParserRecords, States
<1> HIDE DEF value
<1>4. ASSUME NEW p, Consume(p)
      PROVE  parser' = p /\ pos' - 1 = pos /\ at' = "loop"
  BY <1>4, Place DEF Consume, Move
<1>5. CASE \E errno \in {"INVALID_CONTENT_LENGTH", "UNEXPECTED_CONTENT_LENGTH"} : Error(errno)
  BY <1>5, ErrorTells
<1>6. ASSUME NEW next
      PROVE  LET p == [value EXCEPT !.header_state = next]
             IN  /\ SameLine(p, parser) /\ SameLength(p, parser)
                 /\ p.state = "s_header_value" /\ p.header_state = next
  BY <1>2, <1>3 DEF ParserRecords, Like, SameLine, SameLength
<1>7. CASE /\ hs = HS("h_name", "upgrade")
           /\ Consume([value EXCEPT !.flags = @ \cup {"F_UPGRADE"}, !.header_state = General])
  <2> DEFINE p == [value EXCEPT !.flags = @ \cup {"F_UPGRADE"}, !.header_state = General]
  <2>1. /\ SameLine(p, parser) /\ p.state = "s_header_value" /\ p.header_state = General
        /\ p.flags = parser.flags \cup {"F_UPGRADE"} /\ p.content_length = parser.content_length
    BY <1>2, <1>3 DEF ParserRecords, Like, SameLine, SameLength
  <2>2. parser' = p /\ pos' - 1 = pos /\ at' = "loop"
    BY <1>4, <1>7
  <2> HIDE DEF p
  <2> QED
    BY <1>1, <1>7, <2>1, <2>2
<1>8. CASE /\ hs = HS("h_name", "transfer-encoding")
           /\ Consume([value EXCEPT !.header_state =
                IF IsHalf(U, "chunked", 1) THEN HS("h_matching_value", "chunked") ELSE General])
  <2> DEFINE next == IF IsHalf(U, "chunked", 1) THEN HS("h_matching_value", "chunked") ELSE General
             p == [value EXCEPT !.header_state = next]
  <2>1. next \in {HS("h_matching_value", "chunked"), General}
    OBVIOUS
  <2>2. parser' = p /\ pos' - 1 = pos /\ at' = "loop"
    BY <1>4, <1>8
  <2> HIDE DEF next
  <2>3. /\ SameLine(p, parser) /\ SameLength(p, parser)
        /\ p.state = "s_header_value" /\ p.header_state = next
    BY <1>6
  <2> HIDE DEF p
  <2> QED
    BY <1>1, <1>8, <2>1, <2>2, <2>3
<1>9. CASE /\ hs = HS("h_name", "content-length")
           /\ Consume([value EXCEPT !.flags = @ \cup {"F_CONTENTLENGTH"},
                         !.content_length = Digits[U.w], !.header_state = LengthNum])
  <2> DEFINE n == Digits[U.w]
             p == [value EXCEPT !.flags = @ \cup {"F_CONTENTLENGTH"},
                                !.content_length = n, !.header_state = LengthNum]
  <2>2. parser' = p /\ pos' - 1 = pos /\ at' = "loop"
    BY <1>4, <1>9
  <2> HIDE DEF n
  <2>1. /\ SameLine(p, parser) /\ p.state = "s_header_value" /\ p.header_state = LengthNum
        /\ p.flags = parser.flags \cup {"F_CONTENTLENGTH"}
    BY <1>2, <1>3 DEF ParserRecords, Like, SameLine, SameLength
  <2> HIDE DEF p
  <2> QED
    BY <1>1, <1>9, <2>1, <2>2
<1>10. CASE /\ hs = HS("h_name", "connection")
            /\ Consume([value EXCEPT !.header_state =
                 IF U.h = 1 /\ Lower(U.w) \in ConnectionTokens
                 THEN HS("h_matching_value", Lower(U.w)) ELSE Token])
  <2> DEFINE next == IF U.h = 1 /\ Lower(U.w) \in ConnectionTokens
                     THEN HS("h_matching_value", Lower(U.w)) ELSE Token
             p == [value EXCEPT !.header_state = next]
  <2>2. parser' = p /\ pos' - 1 = pos /\ at' = "loop"
    BY <1>4, <1>10
  <2> HIDE DEF next
  <2>3. /\ SameLine(p, parser) /\ SameLength(p, parser)
        /\ p.state = "s_header_value" /\ p.header_state = next
    BY <1>6
  <2> HIDE DEF p
  <2> QED
    BY <1>1, <1>10, <2>2, <2>3 DEF next
<1>11. CASE hs \in {LengthWs, TokenStart} /\ Consume(value)
  <2>2. parser' = value /\ pos' - 1 = pos /\ at' = "loop"
    BY <1>4, <1>11
  <2> QED
    BY <1>1, <1>2, <1>11, <2>2 DEF Like
<1>12. CASE /\ hs.phase # "h_name" \/ hs.word \notin SpecialNames
            /\ hs \notin {LengthWs, TokenStart}
            /\ Consume([value EXCEPT !.header_state = General])
  <2> DEFINE p == [value EXCEPT !.header_state = General]
  <2>2. parser' = p /\ pos' - 1 = pos /\ at' = "loop"
    BY <1>4, <1>12
  <2>3. /\ SameLine(p, parser) /\ SameLength(p, parser)
        /\ p.state = "s_header_value" /\ p.header_state = General
    BY <1>6
  <2> HIDE DEF p
  <2> QED
    BY <1>1, <1>12, <2>2, <2>3
<1> QED
  BY <1>5, <1>7, <1>8, <1>9, <1>10, <1>11, <1>12 DEF StartValue, value

LEMMA PassesBlank ==
  ASSUME ParserInv, NEW m, Reads(input, m), NEW i \in 1..Count(m),
         InLead(m, i, parser.state, pos - 1), PassDiscardWs, parser'.http_errno = "OK"
  PROVE  \/ Still /\ Like(parser', parser) /\ InLead(m, i, parser'.state, pos' - 1) /\ at' = "loop"
         \/ /\ pos - 1 = LeadEnd(m, i) /\ ~EmptyValue(m, i) /\ StartValue
            /\ parser.state = "s_header_value_discard_ws"
<1> DEFINE o == NameEnd(m, i)
           e == LeadEnd(m, i)
           d == pos - 1
<1>0. HeadOK(m) /\ o \in Nat /\ e \in Nat /\ pos \in Nat \ {0} /\ d \in Nat /\ d + 1 = pos
  BY HeaderPlaces, Place DEF Reads
<1>1. parser.state = "s_header_value_discard_ws" /\ at = "switch"
  BY DEF PassDiscardWs, Turn
<1>2. o + 1 <= d /\ d <= e
  <2>1. o + 1 <= e
    BY <1>0, HeaderPlaces DEF LeadEnd
  <2> QED
    BY <1>0, <1>1, <2>1 DEF InLead, BehindBlank
<1>3. CASE d = e
  <2>1. ~EmptyValue(m, i) => U \notin {CR, LF} /\ ~IsBlank(U)
    <3>1. ValueEnd(m, i) = e + Len(ValueOf(m, i)) /\ ValueOf(m, i) \in Seq(Sign)
      BY <1>0, HeaderTypes DEF ValueEnd
    <3>2. ~EmptyValue(m, i) => Len(ValueOf(m, i)) \in Nat \ {0}
      BY <3>1 DEF EmptyValue
    <3>3. ~EmptyValue(m, i) => LeadEnd(m, i) < pos /\ pos <= ValueEnd(m, i) /\ pos = LeadEnd(m, i) + 1
      BY <1>0, <1>3, <3>1, <3>2
    <3> QED
      BY <1>0, <3>3, ValueUnits DEF U
  <2>2. EmptyValue(m, i) =>
          /\ U \in {CR, LF} /\ (U = LF => e + 1 = FoldAt(m, i)) /\ (U = CR => Eol(m) = CRLF)
    <3>1. EmptyValue(m, i) => ValueEnd(m, i) = e
      BY FoldBegins
    <3>2. Segment(input, ValueEnd(m, i), Eol(m))
      BY HeaderSegments
    <3> QED
      BY <1>0, <1>3, <3>1, <3>2, EolUnits DEF U, FoldAt
  <2>3. CASE IsBlank(U) /\ Quiet /\ Consume(parser)
    BY <2>1, <2>2, <2>3, LineEnds
  <2>4. CASE U = CR /\ Quiet /\ Consume(To("s_header_value_discard_ws_almost_done"))
    <3>1. Still /\ Went("s_header_value_discard_ws_almost_done", e + 1) /\ at' = "loop"
      BY <1>0, <1>3, <2>4, ConsumesTo, QuietStill
    <3>2. EmptyValue(m, i) /\ Eol(m) = CRLF
      BY <2>1, <2>2, <2>4
    <3> QED
      BY <3>1, <3>2 DEF Went, InLead
  <2>5. CASE U = LF /\ Quiet /\ Consume(To("s_header_value_discard_lws"))
    <3>1. Still /\ Went("s_header_value_discard_lws", e + 1) /\ at' = "loop"
      BY <1>0, <1>3, <2>5, ConsumesTo, QuietStill
    <3>2. EmptyValue(m, i) /\ e + 1 = FoldAt(m, i)
      BY <2>1, <2>2, <2>5
    <3> QED
      BY <3>1, <3>2 DEF Went, InLead
  <2>6. CASE U \notin {CR, LF} /\ StartValue
    BY <1>1, <1>3, <2>2, <2>6
  <2> QED
    BY <2>3, <2>4, <2>5, <2>6 DEF PassDiscardWs
<1>4. CASE d < e
  <2>1. o + 1 < pos /\ pos <= e /\ pos \in Nat /\ pos \in o + 2 .. e
    BY <1>0, <1>2, <1>4
  <2>2. /\ U = LeadOf(m, i)[pos - o - 1]
        /\ IsBlank(U) \/ U \in {CR, LF}
    BY <2>1, LeadUnits DEF U
  <2>3. CASE IsBlank(U) /\ Quiet /\ Consume(parser)
    <3>1. Still /\ Went(parser.state, pos) /\ at' = "loop"
      BY <2>3, ConsumesSame, QuietStill
    <3>2. BehindBlank(m, i, pos, {SP, HT})
      BY <2>1, <2>2, <2>3 DEF BehindBlank, IsBlank
    <3> QED
      BY <1>1, <3>1, <3>2 DEF Went, InLead
  <2>4. CASE U = CR /\ Quiet /\ Consume(To("s_header_value_discard_ws_almost_done"))
    <3>1. Still /\ Went("s_header_value_discard_ws_almost_done", pos) /\ at' = "loop"
      BY <2>4, ConsumesTo, QuietStill
    <3>2. BehindBlank(m, i, pos, {CR})
      BY <2>1, <2>2, <2>4 DEF BehindBlank
    <3> QED
      BY <3>1, <3>2 DEF Went, InLead
  <2>5. CASE U = LF /\ Quiet /\ Consume(To("s_header_value_discard_lws"))
    <3>1. Still /\ Went("s_header_value_discard_lws", pos) /\ at' = "loop"
      BY <2>5, ConsumesTo, QuietStill
    <3>2. BehindBlank(m, i, pos, {LF})
      BY <2>1, <2>2, <2>5 DEF BehindBlank
    <3> QED
      BY <3>1, <3>2 DEF Went, InLead
  <2>6. CASE ~IsBlank(U) /\ U \notin {CR, LF} /\ StartValue
    BY <2>2, <2>6
  <2> QED
    BY <2>3, <2>4, <2>5, <2>6 DEF PassDiscardWs
<1> QED
  BY <1>0, <1>2, <1>3, <1>4

LEMMA EndsBlankLine ==
  ASSUME ParserInv, NEW m, Reads(input, m), NEW i \in 1..Count(m),
         InLead(m, i, parser.state, pos - 1), PassDiscardWsAlmostDone, parser'.http_errno = "OK"
  PROVE  Still /\ Like(parser', parser) /\ InLead(m, i, parser'.state, pos' - 1) /\ at' = "loop"
<1> DEFINE o == NameEnd(m, i)
           d == pos - 1
<1>0. HeadOK(m) /\ o \in Nat /\ LeadEnd(m, i) \in Nat /\ pos \in Nat \ {0} /\ d \in Nat /\ d + 1 = pos
  BY HeaderPlaces, Place DEF Reads
<1>1. parser.state = "s_header_value_discard_ws_almost_done"
  BY DEF PassDiscardWsAlmostDone, Expect, Turn
<1>2. Still /\ Went("s_header_value_discard_lws", pos) /\ at' = "loop" /\ U = LF
  BY ExpectGoes DEF PassDiscardWsAlmostDone
<1>3. CASE BehindBlank(m, i, d, {CR})
  <2>1. d \in o + 2 .. LeadEnd(m, i) /\ LeadOf(m, i)[d - o - 1] = CR
    BY <1>3 DEF BehindBlank
  <2>2. d < LeadEnd(m, i)
    <3>1. o + 1 < d /\ d <= LeadEnd(m, i)
      BY <1>0, <2>1
    <3> QED
      BY <1>0, <2>1, <3>1, LeadUnits
  <2>3. o + 1 < pos /\ pos <= LeadEnd(m, i) /\ pos \in o + 2 .. LeadEnd(m, i)
    BY <1>0, <2>1, <2>2
  <2>4. input[pos] = LeadOf(m, i)[pos - o - 1]
    BY <1>0, <2>3, LeadUnits
  <2>5. BehindBlank(m, i, pos, {LF})
    BY <1>2, <2>3, <2>4 DEF U, BehindBlank
  <2> QED
    BY <1>2, <2>5 DEF Went, InLead
<1>4. CASE EmptyValue(m, i) /\ Eol(m) = CRLF /\ d = LeadEnd(m, i) + 1
  <2>1. pos = FoldAt(m, i)
    <3>1. ValueEnd(m, i) = LeadEnd(m, i) /\ Len(Eol(m)) = 2
      BY <1>4, FoldBegins DEF CRLF
    <3> QED
      BY <1>0, <1>4, <3>1 DEF FoldAt
  <2> QED
    BY <1>2, <1>4, <2>1 DEF Went, InLead
<1> QED
  BY <1>1, <1>3, <1>4 DEF InLead

(* The flag that a value has earned when it ends.                          *)
Earned(hs) == IF hs.phase = "h_value" THEN {FlagOf[hs.word]} ELSE {}
EarnedAt(state, d) ==
  /\ SameLine(parser', parser) /\ parser'.state = state /\ pos' - 1 = d /\ at' = "switch"
  /\ parser'.flags = parser.flags \cup Earned(parser.header_state)
  /\ parser'.content_length = parser.content_length /\ parser'.header_state = parser.header_state

LEMMA EarnsFlag ==
  ASSUME ParserInv, NEW state, Again(EarnFlag(To(state)))
  PROVE  EarnedAt(state, pos - 1)
<1> DEFINE q == To(state)
           hs == parser.header_state
           p == EarnFlag(q)
<1>1. Like(q, parser) /\ q.state = state
  BY ToLike
<1>2. parser' = p /\ pos' = pos /\ at' = "switch"
  BY DEF Again, Move
<1>3. CASE hs.phase = "h_value"
  <2> DEFINE more == {FlagOf[hs.word]}
             r == [q EXCEPT !.flags = @ \cup more]
  <2>1. p = r
    BY <1>1, <1>3 DEF EarnFlag, Like
  <2> HIDE DEF more
  <2>2. /\ SameLine(r, parser) /\ r.state = state /\ r.flags = parser.flags \cup more
        /\ r.content_length = parser.content_length /\ r.header_state = hs
    BY DEF To, SameLine, ParserInv, ParserOK, ParserRecords
  <2> HIDE DEF r, p
  <2> QED
    BY <1>2, <1>3, <2>1, <2>2 DEF more, Earned, EarnedAt
<1>4. CASE hs.phase # "h_value"
  <2>1. p = q
    BY <1>1, <1>4 DEF EarnFlag, Like
  <2> HIDE DEF q, p
  <2> QED
    BY <1>1, <1>2, <1>4, <2>1 DEF Earned, EarnedAt, Like, SameLength
<1> QED
  BY <1>3, <1>4

LEMMA EndsEmpty ==
  ASSUME ParserInv, NEW m, Reads(input, m), NEW i \in 1..Count(m),
         InLead(m, i, parser.state, pos - 1), PassDiscardLws, parser'.http_errno = "OK"
  PROVE  \/ Still /\ Like(parser', parser) /\ InLead(m, i, parser'.state, pos' - 1) /\ at' = "loop"
         \/ /\ EmptyValue(m, i) /\ ~Folded(m, i)
            /\ called' = <<Call("header_value", <<>>)>> /\ marks' = marks
            /\ EarnedAt("s_header_field_start", HeaderAt(m, i + 1))
<1> DEFINE o == NameEnd(m, i)
           d == pos - 1
<1>0. HeadOK(m) /\ o \in Nat /\ LeadEnd(m, i) \in Nat /\ pos \in Nat \ {0} /\ d \in Nat /\ d + 1 = pos
  BY HeaderPlaces, Place DEF Reads
<1>1. parser.state = "s_header_value_discard_lws"
  BY DEF PassDiscardLws, Turn
<1>2. CASE BehindBlank(m, i, d, {LF})
  <2>1. d \in o + 2 .. LeadEnd(m, i) /\ LeadOf(m, i)[d - o - 1] = LF
    BY <1>2 DEF BehindBlank
  <2>2. d < LeadEnd(m, i) /\ IsBlank(input[d + 1])
    <3>1. o + 1 < d /\ d <= LeadEnd(m, i)
      BY <1>0, <2>1
    <3> QED
      BY <1>0, <2>1, <3>1, LeadUnits
  <2>3. o + 1 < pos /\ pos <= LeadEnd(m, i) /\ pos \in o + 2 .. LeadEnd(m, i)
    BY <1>0, <2>1, <2>2
  <2>4. input[pos] = LeadOf(m, i)[pos - o - 1]
    BY <1>0, <2>3, LeadUnits
  <2>5. IsBlank(U)
    BY <1>0, <2>2 DEF U
  <2>6. Still /\ Went("s_header_value_discard_ws", pos) /\ at' = "loop"
    BY <2>5, ConsumesTo, QuietStill DEF PassDiscardLws
  <2>7. BehindBlank(m, i, pos, {SP, HT})
    BY <2>3, <2>4, <2>5 DEF U, BehindBlank, IsBlank
  <2> QED
    BY <2>6, <2>7 DEF Went, InLead
<1>3. CASE EmptyValue(m, i) /\ d = FoldAt(m, i)
  <2>1. ~Folded(m, i) /\ ~IsBlank(input[d + 1])
    BY <1>3, FoldBegins
  <2>2. d = HeaderAt(m, i + 1)
    BY <1>3, <2>1, HeaderSegments
  <2>3. ~IsBlank(U)
    BY <1>0, <2>1 DEF U
  <2>4. CASE Error("INVALID_CONTENT_LENGTH")
    BY <2>4, ErrorTells
  <2>5. CASE /\ Tell(<<Call("header_value", <<>>)>>) /\ UNCHANGED marks
             /\ Again(EarnFlag(To("s_header_field_start")))
    <3>1. EarnedAt("s_header_field_start", d)
      BY <2>5, EarnsFlag
    <3> QED
      BY <1>3, <2>1, <2>2, <2>5, <3>1 DEF Tell
  <2> QED
    BY <2>3, <2>4, <2>5 DEF PassDiscardLws
<1> QED
  BY <1>1, <1>2, <1>3 DEF InLead

(* A text, with its end at e.                                              *)
LEMMA ReadsText ==
  ASSUME ParserInv, NEW m, HeadOK(m), NEW e \in Nat, Segment(input, e, Eol(m)),
         pos - 1 <= e, pos - 1 # e => U \notin {CR, LF}, PassHeaderValue, parser'.http_errno = "OK"
  PROVE  /\ SameLine(parser', parser) /\ at' # "idle"
         /\ \/ Still /\ Went("s_header_value", pos - 1)
            \/ /\ Still /\ parser'.state = "s_header_value" /\ pos' - 1 = pos /\ pos - 1 < e
               /\ parser'.flags = parser.flags \cup ValueFlags(parser.header_state, U)
               /\ parser'.header_state = ValueUnit(parser.header_state, U)
               /\ parser.header_state # LengthNum => parser'.content_length = parser.content_length
            \/ /\ Went("s_header_almost_done", e + Len(Eol(m)) - 1)
               /\ Data("header_value", pos) /\ pos - 1 = e
<1>0. pos \in Nat \ {0} /\ parser.state = "s_header_value"
  BY Place DEF PassHeaderValue, Turn
<1>1. U \in {CR, LF} => pos - 1 = e /\ pos = e + 1
  BY <1>0
<1>2. /\ U = LF => Len(Eol(m)) = 1
      /\ U = CR => Len(Eol(m)) = 2
      /\ pos = e + 1 => U \in {CR, LF}
  BY <1>1, EolUnits DEF U
<1>3. CASE /\ U = CR /\ Data("header_value", pos)
           /\ CountThen(To("s_header_almost_done"), pos, pos + 1, "loop")
  <2>1. Like(parser', parser) /\ parser'.state = "s_header_almost_done" /\ pos' = pos + 1 /\ at' = "loop"
    BY <1>3, CountGoes DEF States
  <2>3. Len(Eol(m)) = 2 /\ pos = e + 1
    BY <1>1, <1>2, <1>3
  <2>4. pos' - 1 = e + 2 - 1
    BY <2>1, <2>3
  <2>2. pos' - 1 = e + Len(Eol(m)) - 1
    BY <2>3, <2>4, Zenon
  <2> QED
    BY <1>1, <1>3, <2>1, <2>2 DEF Went, Like
<1>4. CASE /\ U = LF
           /\ IF Counted(pos) > max_header_size THEN Quiet ELSE Data("header_value", pos)
           /\ CountThen(To("s_header_almost_done"), pos, pos, "switch")
  <2>1. /\ Like(parser', parser) /\ parser'.state = "s_header_almost_done" /\ pos' = pos
        /\ at' = "switch" /\ Counted(pos) <= max_header_size
    BY <1>4, CountGoes DEF States
  <2>4. Len(Eol(m)) = 1 /\ pos = e + 1
    BY <1>1, <1>2, <1>4
  <2>5. pos' - 1 = e + 1 - 1
    BY <2>1, <2>4
  <2>2. pos' - 1 = e + Len(Eol(m)) - 1
    BY <2>4, <2>5, Zenon
  <2>3. Data("header_value", pos)
    BY <1>4, <2>1, NotTooLarge
  <2> QED
    BY <1>1, <1>4, <2>1, <2>2, <2>3 DEF Went, Like
<1>5. CASE \E errno \in {"INVALID_HEADER_TOKEN", "INVALID_CONTENT_LENGTH"} : Error(errno)
  BY <1>5, ErrorTells
<1>6. CASE U \notin {CR, LF} /\ Quiet /\ ScanValue
  <2> DEFINE hs == parser.header_state
             more == ValueFlags(hs, U)
             next == ValueUnit(hs, U)
             length == IF hs = LengthNum /\ U # SP THEN AddDigit(parser.content_length, 10, Digits[U.w])
                       ELSE parser.content_length
             p == [parser EXCEPT !.header_state = next, !.flags = @ \cup more, !.content_length = length]
  <2>1. Scan(p)
    BY <1>6, Zenon DEF ScanValue
  <2>2. hs # LengthNum => length = parser.content_length
    OBVIOUS
  <2> HIDE DEF more, next, length
  <2>3. /\ p.state = parser.state /\ p.flags = parser.flags \cup more /\ p.header_state = next
        /\ p.content_length = length /\ SameLine(p, parser)
    BY DEF SameLine, ParserInv, ParserOK, ParserRecords
  <2>4. parser' = p /\ pos' = pos + 1 /\ at' = "switch"
    BY <2>1 DEF Scan, Move
  <2> HIDE DEF p
  <2>5. pos - 1 # e
    BY <1>0, <1>1, <1>2, <1>6
  <2>6. pos' - 1 = pos /\ pos - 1 < e
    BY <1>0, <2>4, <2>5
  <2> QED
    BY <1>0, <1>6, <2>2, <2>3, <2>4, <2>6, QuietStill DEF more, next
<1>7. CASE Quiet /\ CountThen(parser, pos - 1, pos, "loop")
  BY <1>0, <1>7, LoopEnds DEF Went, Like
<1> QED
  BY <1>3, <1>4, <1>5, <1>6, <1>7 DEF PassHeaderValue

LEMMA ReadsValue ==
  ASSUME ParserInv, NEW m, Reads(input, m), NEW i \in 1..Count(m),
         InText(m, i, parser.state, pos - 1), PassHeaderValue, parser'.http_errno = "OK"
  PROVE  /\ SameLine(parser', parser) /\ at' # "idle" /\ ~EmptyValue(m, i)
         /\ \/ Still /\ Went("s_header_value", pos - 1)
            \/ /\ Still /\ InText(m, i, parser'.state, pos' - 1) /\ pos' - 1 = pos
               /\ U = ValueOf(m, i)[pos - LeadEnd(m, i)]
               /\ parser'.flags = parser.flags \cup ValueFlags(parser.header_state, U)
               /\ parser'.header_state = ValueUnit(parser.header_state, U)
               /\ parser.header_state # LengthNum => parser'.content_length = parser.content_length
            \/ /\ Went("s_header_almost_done", FoldAt(m, i) - 1)
               /\ Data("header_value", pos) /\ pos - 1 = ValueEnd(m, i)
<1> DEFINE o == LeadEnd(m, i)
           e == ValueEnd(m, i)
<1>0. HeadOK(m) /\ o \in Nat /\ e \in Nat /\ pos \in Nat \ {0} /\ FoldAt(m, i) = e + Len(Eol(m))
  BY HeaderPlaces, Place DEF Reads, FoldAt
<1>1. pos - 1 \in o + 1 .. e
  BY DEF InText
<1>2. pos - 1 # e => pos \in Nat /\ o < pos /\ pos <= e
  BY <1>0, <1>1
<1>3. pos - 1 # e => U = ValueOf(m, i)[pos - o] /\ U \notin {CR, LF}
  BY <1>2, ValueUnits DEF U
<1>4. ~EmptyValue(m, i)
  <2>1. o < pos - 1 /\ pos - 1 <= e /\ pos - 1 \in Nat
    BY <1>0, <1>1
  <2> QED
    BY <2>1, ValueUnits
<1>5. Segment(input, e, Eol(m)) /\ pos - 1 <= e
  BY <1>1, <1>0, HeaderSegments
<1>6. /\ SameLine(parser', parser) /\ at' # "idle"
      /\ \/ Still /\ Went("s_header_value", pos - 1)
         \/ /\ Still /\ parser'.state = "s_header_value" /\ pos' - 1 = pos /\ pos - 1 < e
            /\ parser'.flags = parser.flags \cup ValueFlags(parser.header_state, U)
            /\ parser'.header_state = ValueUnit(parser.header_state, U)
            /\ parser.header_state # LengthNum => parser'.content_length = parser.content_length
         \/ /\ Went("s_header_almost_done", e + Len(Eol(m)) - 1)
            /\ Data("header_value", pos) /\ pos - 1 = e
  BY <1>0, <1>3, <1>5, ReadsText
<1>7. pos' - 1 = pos /\ pos - 1 < e => pos' - 1 \in o + 1 .. e /\ pos - 1 # e
  BY <1>0, <1>1
<1> QED
  BY <1>0, <1>3, <1>4, <1>6, <1>7 DEF InText

LEMMA ReadsFold ==
  ASSUME ParserInv, NEW m, Reads(input, m), NEW i \in 1..Count(m),
         InFold(m, i, parser.state, pos - 1), PassHeaderValue, parser'.http_errno = "OK"
  PROVE  /\ SameLine(parser', parser) /\ at' # "idle" /\ Folded(m, i)
         /\ \/ Still /\ Went("s_header_value", pos - 1)
            \/ /\ Still /\ InFold(m, i, parser'.state, pos' - 1) /\ pos' - 1 = pos
               /\ U = FoldOf(m, i)[pos - FoldAt(m, i)]
               /\ parser'.flags = parser.flags \cup ValueFlags(parser.header_state, U)
               /\ parser'.header_state = ValueUnit(parser.header_state, U)
               /\ parser.header_state # LengthNum => parser'.content_length = parser.content_length
            \/ /\ Went("s_header_almost_done", FoldEnd(m, i) + Len(Eol(m)) - 1)
               /\ Data("header_value", pos) /\ pos - 1 = FoldEnd(m, i)
<1> DEFINE o == FoldAt(m, i)
           e == FoldEnd(m, i)
<1>0. HeadOK(m) /\ o \in Nat /\ e \in Nat /\ pos \in Nat \ {0}
  BY HeaderPlaces, Place DEF Reads
<1>1. pos - 1 \in o + 1 .. e
  BY DEF InFold
<1>2. pos - 1 # e => pos \in Nat /\ o < pos /\ pos <= e
  BY <1>0, <1>1
<1>3. pos - 1 # e => U = FoldOf(m, i)[pos - o] /\ U \notin {CR, LF}
  BY <1>2, FoldUnits DEF U
<1>4. Folded(m, i)
  <2>1. o < pos - 1 /\ pos - 1 <= e /\ pos - 1 \in Nat
    BY <1>0, <1>1
  <2> QED
    BY <2>1, FoldUnits
<1>5. Segment(input, e, Eol(m)) /\ pos - 1 <= e
  BY <1>1, <1>0, <1>4, HeaderSegments
<1>6. /\ SameLine(parser', parser) /\ at' # "idle"
      /\ \/ Still /\ Went("s_header_value", pos - 1)
         \/ /\ Still /\ parser'.state = "s_header_value" /\ pos' - 1 = pos /\ pos - 1 < e
            /\ parser'.flags = parser.flags \cup ValueFlags(parser.header_state, U)
            /\ parser'.header_state = ValueUnit(parser.header_state, U)
            /\ parser.header_state # LengthNum => parser'.content_length = parser.content_length
         \/ /\ Went("s_header_almost_done", e + Len(Eol(m)) - 1)
            /\ Data("header_value", pos) /\ pos - 1 = e
  BY <1>0, <1>3, <1>5, ReadsText
<1>7. pos' - 1 = pos /\ pos - 1 < e => pos' - 1 \in o + 1 .. e /\ pos - 1 # e
  BY <1>0, <1>1
<1> QED
  BY <1>0, <1>3, <1>4, <1>6, <1>7 DEF InFold

LEMMA EndsText ==
  ASSUME ParserInv, NEW m, Reads(input, m), NEW i \in 1..Count(m),
         BehindText(m, i, parser.state, pos - 1) \/ BehindFold(m, i, parser.state, pos - 1),
         PassHeaderAlmostDone, parser'.http_errno = "OK"
  PROVE  /\ Still /\ Like(parser', parser) /\ at' = "loop"
         /\ BehindText(m, i, parser.state, pos - 1) => BehindText(m, i, parser'.state, pos' - 1)
         /\ BehindFold(m, i, parser.state, pos - 1) => BehindFold(m, i, parser'.state, pos' - 1)
<1>0. /\ HeadOK(m) /\ pos \in Nat \ {0} /\ FoldAt(m, i) \in Nat /\ FoldEnd(m, i) \in Nat
      /\ Len(Eol(m)) \in {1, 2}
  BY HeaderPlaces, Place DEF Reads
<1>1. parser.state = "s_header_almost_done"
  BY DEF PassHeaderAlmostDone, Expect, Turn
<1>2. Still /\ Went("s_header_value_lws", pos) /\ at' = "loop"
  BY ExpectGoes DEF PassHeaderAlmostDone
<1>3. BehindText(m, i, parser.state, pos - 1) => pos = FoldAt(m, i)
  BY <1>0, <1>1 DEF BehindText
<1>4. BehindFold(m, i, parser.state, pos - 1) => pos = FoldEnd(m, i) + Len(Eol(m))
  BY <1>0, <1>1 DEF BehindFold
<1>5. BehindText(m, i, parser.state, pos - 1) => BehindText(m, i, parser'.state, pos' - 1)
  BY <1>2, <1>3 DEF Went, BehindText
<1>6. BehindFold(m, i, parser.state, pos - 1) => BehindFold(m, i, parser'.state, pos' - 1)
  BY <1>2, <1>4 DEF Went, BehindFold
<1> QED
  BY <1>2, <1>5, <1>6 DEF Went

LEMMA LooksForFold ==
  ASSUME ParserInv, NEW m, Reads(input, m), NEW i \in 1..Count(m),
         BehindText(m, i, parser.state, pos - 1), PassValueLws
  PROVE  /\ Still
         /\ \/ /\ ~Folded(m, i) /\ EarnedAt("s_header_field_start", HeaderAt(m, i + 1))
            \/ /\ Folded(m, i) /\ BehindText(m, i, parser'.state, pos' - 1)
               /\ SameLine(parser', parser) /\ SameLength(parser', parser) /\ at' = "switch"
               /\ parser'.state = "s_header_value_start"
               /\ parser'.header_state =
                    IF parser.header_state = LengthNum THEN LengthWs ELSE parser.header_state
<1>0. /\ HeadOK(m) /\ pos \in Nat \ {0} /\ (pos - 1) + 1 = pos
      /\ Quiet /\ parser.state = "s_header_value_lws"
  BY Place DEF Reads, PassValueLws, Turn
<1>1. pos - 1 = FoldAt(m, i) /\ ~EmptyValue(m, i)
  BY <1>0 DEF BehindText
<1>2. Folded(m, i) <=> IsBlank(U)
  BY <1>0, <1>1, FoldBegins DEF U
<1>3. CASE IsBlank(U)
  <2> DEFINE hs == IF parser.header_state = LengthNum THEN LengthWs ELSE parser.header_state
             q == To("s_header_value_start")
             p == [q EXCEPT !.header_state = hs]
  <2>1. Again([q EXCEPT !.header_state = IF @ = LengthNum THEN LengthWs ELSE @])
    BY <1>3 DEF PassValueLws
  <2>2. q.header_state = parser.header_state
    BY ToLike DEF Like
  <2> HIDE DEF q
  <2>3. [q EXCEPT !.header_state = IF @ = LengthNum THEN LengthWs ELSE @] = p
    BY <2>2
  <2>4. parser' = p /\ pos' = pos /\ at' = "switch"
    BY <2>1, <2>3 DEF Again, Move
  <2> HIDE DEF hs
  <2>5. /\ SameLine(p, parser) /\ SameLength(p, parser) /\ p.header_state = hs
        /\ p.state = "s_header_value_start"
    BY ToState DEF q
  <2> HIDE DEF p
  <2> QED
    BY <1>0, <1>1, <1>2, <1>3, <2>4, <2>5, QuietStill DEF BehindText, hs
<1>4. CASE ~IsBlank(U)
  <2>1. EarnedAt("s_header_field_start", pos - 1)
    BY <1>4, EarnsFlag DEF PassValueLws
  <2>2. HeaderAt(m, i + 1) = FoldAt(m, i) /\ ~Folded(m, i)
    BY <1>2, <1>4, HeaderSegments
  <2> QED
    BY <1>0, <1>1, <2>1, <2>2, QuietStill
<1> QED
  BY <1>3, <1>4

LEMMA EndsFold ==
  ASSUME ParserInv, NEW m, Reads(input, m), NEW i \in 1..Count(m),
         BehindFold(m, i, parser.state, pos - 1), PassValueLws
  PROVE  Still /\ EarnedAt("s_header_field_start", HeaderAt(m, i + 1))
<1>0. /\ HeadOK(m) /\ Count(m) \in Nat /\ pos \in Nat \ {0} /\ (pos - 1) + 1 = pos
      /\ Quiet /\ parser.state = "s_header_value_lws"
  BY HeadersType, Place DEF Reads, PassValueLws, Turn
<1>1. pos - 1 = HeaderAt(m, i + 1)
  BY <1>0, HeaderSegments DEF BehindFold
<1>2. ~IsBlank(U)
  <2>1. i + 1 \in 1 .. Count(m) + 1
    BY <1>0
  <2> QED
    BY <1>0, <1>1, <2>1, LineBegins DEF U
<1>3. EarnedAt("s_header_field_start", pos - 1)
  BY <1>2, EarnsFlag DEF PassValueLws
<1> QED
  BY <1>0, <1>1, <1>3, QuietStill

LEMMA BeginsFold ==
  ASSUME ParserInv, NEW m, Reads(input, m), NEW i \in 1..Count(m),
         BehindText(m, i, parser.state, pos - 1), PassValueStart, parser'.http_errno = "OK"
  PROVE  InFold(m, i, parser'.state, pos' - 1) /\ pos - 1 = FoldAt(m, i) /\ StartValue
         /\ parser.state = "s_header_value_start"
<1>0. HeadOK(m) /\ parser.state = "s_header_value_start" /\ at = "switch" /\ StartValue
      /\ FoldAt(m, i) \in Nat /\ FoldEnd(m, i) \in Nat
  BY HeaderPlaces DEF Reads, PassValueStart, Turn
<1>1. pos - 1 = FoldAt(m, i) /\ Folded(m, i)
  BY <1>0 DEF BehindText
<1>2. parser'.state = "s_header_value" /\ pos' - 1 = pos
  BY <1>0, BeginsValue DEF ScanStates
<1>3. pos \in FoldAt(m, i) + 1 .. FoldEnd(m, i)
  <2>1. FoldAt(m, i) < FoldEnd(m, i)
    BY <1>1, FoldBegins
  <2>2. pos = FoldAt(m, i) + 1
    BY <1>0, <1>1, Place
  <2> QED
    BY <1>0, <2>1, <2>2
<1> QED
  BY <1>0, <1>1, <1>2, <1>3 DEF InFold

LEMMA BeginsText ==
  ASSUME ParserInv, NEW m, Reads(input, m), NEW i \in 1..Count(m), at = "switch",
         pos - 1 = LeadEnd(m, i), ~EmptyValue(m, i), StartValue,
         parser.state = "s_header_value_discard_ws", parser'.http_errno = "OK"
  PROVE  InText(m, i, parser'.state, pos' - 1) /\ U = ValueOf(m, i)[1] /\ pos = LeadEnd(m, i) + 1
<1>0. HeadOK(m) /\ LeadEnd(m, i) \in Nat /\ ValueEnd(m, i) \in Nat
  BY HeaderPlaces DEF Reads
<1>1. parser'.state = "s_header_value" /\ pos' - 1 = pos
  BY BeginsValue DEF ScanStates
<1>2. LeadEnd(m, i) < ValueEnd(m, i)
  <2>1. ValueOf(m, i) \in Seq(Sign) /\ ValueOf(m, i) # <<>>
    BY <1>0, HeaderTypes DEF EmptyValue
  <2>2. Len(ValueOf(m, i)) \in Nat \ {0}
    BY <2>1
  <2> QED
    BY <1>0, <2>2 DEF ValueEnd
<1>3. pos = LeadEnd(m, i) + 1
  BY <1>0, Place
<1>4. pos \in LeadEnd(m, i) + 1 .. ValueEnd(m, i)
  BY <1>0, <1>2, <1>3
<1>5. U = ValueOf(m, i)[1]
  <2>0. \A a, b \in Nat : a < b => a < a + 1 /\ a + 1 <= b /\ a + 1 \in Nat /\ (a + 1) - a = 1
    OBVIOUS
  <2>1. LeadEnd(m, i) < pos /\ pos <= ValueEnd(m, i) /\ pos \in Nat /\ pos - LeadEnd(m, i) = 1
    BY <1>0, <1>2, <1>3, <2>0, Zenon
  <2>2. input[pos] = ValueOf(m, i)[pos - LeadEnd(m, i)]
    BY <2>1, ValueUnits
  <2> QED
    BY <2>1, <2>2 DEF U
<1> QED
  BY <1>1, <1>3, <1>4, <1>5 DEF InText

-----------------------------------------------------------------------------
(* The request line, pass by pass.                                         *)

Reticent == called' = <<>> \/ Head(called').on \in {"message_begin", "url"}

(* Behind a pass in the request line.                                      *)
LineGoesOn(m) ==
  /\ Reticent /\ SameLength(parser', parser)
  /\ \/ InLine(m, parser', pos' - 1) /\ parser'.state # "s_start_req"
     \/ AtHeader(m, 1, parser'.state, pos' - 1) /\ parser'.method = m.method /\ Versions(m, parser')

LEMMA StillReticent == Still => Reticent
BY DEF Still, Reticent

LEMMA StartsRequest ==
  ASSUME ParserInv, NEW m, Reads(input, m), parser.state = "s_start_req", pos - 1 \in 0..MethodAt(m),
         PassStartReq, parser'.http_errno = "OK"
  PROVE  /\ Reticent
         /\ \/ InLine(m, parser', pos' - 1) /\ parser' = parser
            \/ /\ InLine(m, parser', pos' - 1) /\ parser'.state = "s_req_method"
               /\ parser'.method = m.method
               /\ parser'.flags = {} /\ parser'.content_length = ULLONG_MAX
<1> DEFINE o == MethodAt(m)
<1>0. HeadOK(m) /\ pos \in Nat \ {0} /\ (pos - 1) + 1 = pos /\ o \in Nat
  BY Place, LineOffsets DEF Reads
<1>1. pos - 1 # o => pos \in 1..o /\ U \in {CR, LF} /\ U.h = 0
  <2> SUFFICES ASSUME pos - 1 # o PROVE pos \in 1..o /\ U \in {CR, LF} /\ U.h = 0
    OBVIOUS
  <2>1. pos \in Nat /\ 0 < pos /\ pos <= o /\ pos - 0 = pos
    BY <1>0
  <2>2. Segment(input, 0, m.before) /\ 0 + Len(m.before) = o
    BY <1>0, LineSegments DEF MethodAt
  <2>3. U = m.before[pos]
    BY <2>1, <2>2 DEF Segment, U, MethodAt
  <2>4. m.before[pos] \in {CR, LF}
    <3>1. m.before \in Seq({CR, LF})
      BY <1>0 DEF HeadOK
    <3>2. pos \in 1..Len(m.before)
      BY <1>0, <2>1 DEF MethodAt
    <3> QED
      BY <3>1, <3>2
  <2> QED
    BY <2>1, <2>3, <2>4, LineEnds
<1>2. pos - 1 = o => U = Half(m.method, 1)
  <2> SUFFICES ASSUME pos - 1 = o PROVE U = Half(m.method, 1)
    OBVIOUS
  <2>1. Segment(input, o, Word(m.method)) /\ o + 1 = pos
    BY <1>0, LineSegments
  <2>2. input[o + 1] = Word(m.method)[1]
    BY <2>1 DEF Segment, Word
  <2> QED
    BY <2>1, <2>2 DEF U, Word
<1>3. CASE U \in {CR, LF} /\ Quiet /\ Consume(parser)
  <2>1. pos - 1 # o
    BY <1>2, <1>3, LineEnds DEF Half
  <2>2. parser' = parser /\ pos' - 1 = pos
    BY <1>0, <1>3 DEF Consume, Move
  <2>3. pos \in 0..o
    BY <1>1, <2>1
  <2> QED
    BY <1>3, <2>2, <2>3, QuietStill, StillReticent DEF InLine
<1>4. CASE Error("INVALID_METHOD")
  BY <1>4, ErrorTells
<1>5. CASE /\ U.h = 1 /\ Notify("message_begin")
           /\ Consume([To("s_req_method") EXCEPT !.flags = {}, !.content_length = ULLONG_MAX,
                                                 !.method = U.w, !.index = 1])
  <2> DEFINE w == U.w
             none == {}
             p == [To("s_req_method") EXCEPT !.flags = none, !.content_length = ULLONG_MAX,
                                             !.method = w, !.index = 1]
  <2>1. pos - 1 = o /\ w = m.method
    BY <1>1, <1>2, <1>5 DEF Half
  <2>2. parser' = p /\ pos' - 1 = pos
    BY <1>0, <1>5 DEF Consume, Move
  <2>3. Reticent
    BY <1>5 DEF Notify, Tell, Call, Reticent
  <2> HIDE DEF w, none
  <2>4. /\ p.state = "s_req_method" /\ p.flags = none /\ p.content_length = ULLONG_MAX
        /\ p.method = w /\ p.index = 1
    BY DEF To, ParserInv, ParserOK, ParserRecords
  <2> HIDE DEF p
  <2>5. pos' - 1 = o + 1
    BY <1>0, <2>1, <2>2
  <2>6. InLine(m, parser', pos' - 1)
    BY <2>1, <2>2, <2>4, <2>5 DEF InLine, InUrl
  <2> QED
    BY <2>1, <2>2, <2>3, <2>4, <2>6 DEF none
<1> QED
  BY <1>3, <1>4, <1>5 DEF PassStartReq

LEMMA ReadsMethod ==
  ASSUME ParserInv, NEW m, Reads(input, m), parser.state = "s_req_method",
         parser.method = m.method, InUrl(m, parser, pos - 1), PassMethod, parser'.http_errno = "OK"
  PROVE  LineGoesOn(m)
<1> DEFINE o == MethodAt(m)
<1>0. HeadOK(m) /\ pos \in Nat \ {0} /\ o \in Nat
  BY Place, LineOffsets DEF Reads
<1>1. parser.index \in {1, 2} /\ pos - 1 = o + parser.index
  BY DEF InUrl, UrlStates, ServerStates, QueryStates, FragmentStates
<1>2. CASE parser.index = 2 /\ Quiet /\ Consume(To("s_req_spaces_before_url"))
  <2>1. Still /\ Went("s_req_spaces_before_url", pos)
    BY <1>2, ConsumesTo, QuietStill
  <2>2. pos = UrlAt(m)
    BY <1>0, <1>1, <1>2 DEF UrlAt
  <2>3. InLine(m, parser', pos' - 1)
    BY <2>1, <2>2 DEF Went, Like, SameLine, InLine, InUrl
  <2> QED
    BY <2>1, <2>3, StillReticent DEF LineGoesOn, Went, Like
<1>3. CASE parser.index = 1 /\ Quiet /\ Consume([parser EXCEPT !.index = 2])
  <2> DEFINE p == [parser EXCEPT !.index = 2]
  <2>1. parser' = p /\ pos' - 1 = pos
    BY <1>0, <1>3 DEF Consume, Move
  <2>2. SameLine(p, parser) /\ SameLength(p, parser) /\ p.state = "s_req_method" /\ p.index = 2
    BY DEF SameLine, SameLength, ParserInv, ParserOK, ParserRecords
  <2> HIDE DEF p
  <2>3. pos = o + 2
    BY <1>0, <1>1, <1>3
  <2>4. InLine(m, parser', pos' - 1)
    BY <2>1, <2>2, <2>3 DEF SameLine, InLine, InUrl
  <2> QED
    BY <1>3, <2>1, <2>2, <2>4, QuietStill, StillReticent DEF LineGoesOn
<1>4. CASE Error("INVALID_METHOD")
  BY <1>4, ErrorTells
<1> QED
  BY <1>2, <1>3, <1>4 DEF PassMethod

LEMMA UrlUnits ==
  ASSUME NEW t, NEW m, Reads(t, m), NEW p \in Nat, UrlAt(m) < p, p <= UrlEnd(m)
  PROVE  t[p] \notin {SP, CR, LF}
<1>0. HeadOK(m)
  BY DEF Reads
<1>1. Segment(t, UrlAt(m), Url(m)) /\ UrlEnd(m) = UrlAt(m) + Len(Url(m))
  BY LineSegments DEF UrlEnd
<1>2. t[p] = Url(m)[p - UrlAt(m)] /\ p - UrlAt(m) \in 1..Len(Url(m))
  BY <1>1, SegmentUnit
<1>3. \A k \in 1..Len(Url(m)) : Url(m)[k] \notin {SP, CR, LF}
  BY <1>0 DEF HeadOK, Url
<1> QED
  BY <1>2, <1>3

LEMMA UrlHere == ASSUME NEW m, HeadOK(m) PROVE UrlAt(m) < UrlEnd(m)
<1>1. Len(Url(m)) \in Nat \ {0}
  BY DEF HeadOK, Url
<1>2. UrlAt(m) \in Nat
  BY LineOffsets
<1> QED
  BY <1>1, <1>2 DEF UrlEnd

LEMMA BehindUrl ==
  ASSUME NEW t, NEW m, Reads(t, m)
  PROVE  /\ ~NoVersion(m) => t[UrlEnd(m) + 1] = SP /\ LineEnd(m) = UrlEnd(m) + 7
         /\ NoVersion(m) =>
              /\ t[UrlEnd(m) + 1] \in {CR, LF} /\ LineEnd(m) = UrlEnd(m)
              /\ t[UrlEnd(m) + 1] = LF => HeadersAt(m) = UrlEnd(m) + 1
              /\ t[UrlEnd(m) + 1] = CR => Eol(m) = CRLF
<1>0. HeadOK(m) /\ UrlEnd(m) \in Nat
  BY LineOffsets DEF Reads
<1>1. CASE ~NoVersion(m)
  <2>1. Segment(t, UrlEnd(m), WriteVersion(m)) /\ Len(WriteVersion(m)) = 7 /\ WriteVersion(m)[1] = SP
    BY <1>0, <1>1, LineSegments, VersionText
  <2>2. t[UrlEnd(m) + 1] = WriteVersion(m)[1]
    BY <2>1 DEF Segment
  <2> QED
    BY <1>1, <2>1, <2>2 DEF LineEnd
<1>2. CASE NoVersion(m)
  <2>1. LineEnd(m) = UrlEnd(m)
    BY <1>0, <1>2 DEF LineEnd
  <2>2. Segment(t, UrlEnd(m), Eol(m))
    BY <2>1, LineSegments
  <2>3. /\ t[UrlEnd(m) + 1] \in {CR, LF}
        /\ t[UrlEnd(m) + 1] = LF => Len(Eol(m)) = 1
        /\ t[UrlEnd(m) + 1] = CR => Eol(m) = CRLF
    BY <1>0, <2>2, EolUnits
  <2>4. HeadersAt(m) = UrlEnd(m) + Len(Eol(m))
    BY <2>1 DEF HeadersAt
  <2> QED
    BY <1>2, <2>1, <2>3, <2>4
<1> QED
  BY <1>1, <1>2

LEMMA UrlStateNames ==
  \A s \in UrlStates : s \notin {"s_start_req", "s_req_method", "s_req_spaces_before_url", "s_req_http_start",
     "s_req_http_H", "s_req_http_I", "s_req_http_HTTP", "s_req_http_major", "s_req_http_dot",
     "s_req_http_minor", "s_req_http_end", "s_req_line_almost_done", "s_header_field_start", "s_dead"}
BY DEF UrlStates, ServerStates, QueryStates, FragmentStates

LEMMA BeginsUrl ==
  ASSUME ParserInv, NEW m, Reads(input, m), parser.state = "s_req_spaces_before_url",
         parser.method = m.method, InUrl(m, parser, pos - 1), PassSpacesBeforeUrl, parser'.http_errno = "OK"
  PROVE  LineGoesOn(m)
<1>0. HeadOK(m) /\ pos \in Nat \ {0} /\ UrlAt(m) \in Nat /\ UrlEnd(m) \in Nat
  BY Place, LineOffsets DEF Reads
<1>1. pos - 1 = UrlAt(m)
  BY UrlStateNames DEF InUrl
<1>2. U # SP /\ pos \in UrlAt(m) + 1 .. UrlEnd(m)
  <2>1. UrlAt(m) < UrlEnd(m)
    BY <1>0, UrlHere
  <2>2. UrlAt(m) < pos /\ pos <= UrlEnd(m) /\ pos \in UrlAt(m) + 1 .. UrlEnd(m)
    BY <1>0, <1>1, <2>1
  <2> QED
    BY <1>0, <2>2, UrlUnits DEF U
<1> DEFINE from == IF parser.method = "CONNECT" THEN "s_req_server_start"
                   ELSE "s_req_spaces_before_url"
           next == ParseUrlChar(from, U)
<1>3. next \in UrlStates \cup {"s_dead"}
  <2>1. from = "s_req_spaces_before_url" \/ from \in UrlStates
    BY DEF UrlStates, ServerStates
  <2> QED
    BY <2>1, UrlStep
<1>4. Reticent
  BY <1>2 DEF PassSpacesBeforeUrl, Mark, Tell, Reticent
<1>5. Error("INVALID_URL") \/ (next # "s_dead" /\ Consume(To(next)))
  BY <1>2 DEF PassSpacesBeforeUrl
<1> HIDE DEF next
<1>6. CASE Error("INVALID_URL")
  BY <1>6, ErrorTells
<1>7. CASE next # "s_dead" /\ Consume(To(next))
  <2>1. Went(next, pos)
    BY <1>7, ConsumesTo
  <2>2. next \in UrlStates
    BY <1>3, <1>7
  <2>3. InLine(m, parser', pos' - 1)
    BY <1>2, <2>1, <2>2 DEF Went, Like, SameLine, InLine, InUrl
  <2> QED
    BY <1>4, <2>1, <2>2, <2>3, UrlStateNames DEF LineGoesOn, Went, Like
<1> QED
  BY <1>5, <1>6, <1>7

LEMMA DataReticent == ASSUME NEW next, Data("url", next) PROVE Reticent
BY DEF Data, Tell, Call, Reticent, DataCalls

LEMMA ReadsUrl ==
  ASSUME ParserInv, NEW m, Reads(input, m), parser.state \in UrlStates,
         parser.method = m.method, InUrl(m, parser, pos - 1), PassUrl, parser'.http_errno = "OK"
  PROVE  LineGoesOn(m)
<1> DEFINE e == UrlEnd(m)
<1>0. /\ HeadOK(m) /\ pos \in Nat \ {0} /\ UrlAt(m) \in Nat /\ e \in Nat /\ HeadersAt(m) \in Nat
      /\ HeaderAt(m, 1) = HeadersAt(m)
  BY Place, LineOffsets, HeaderOffsets DEF Reads
<1>1. pos - 1 \in UrlAt(m) + 1 .. e
  BY UrlStateNames DEF InUrl
<1>2. pos - 1 # e => U \notin {SP, CR, LF} /\ pos \in UrlAt(m) + 1 .. e
  <2>1. pos - 1 # e => UrlAt(m) < pos /\ pos <= e /\ pos \in UrlAt(m) + 1 .. e
    BY <1>0, <1>1
  <2> QED
    BY <1>0, <2>1, UrlUnits DEF U
<1>3. pos - 1 = e => pos = e + 1
  BY <1>0
<1>4. CASE U = SP /\ Data("url", pos) /\ Consume(To("s_req_http_start"))
  <2>1. pos = e + 1
    BY <1>2, <1>3, <1>4
  <2>2. ~NoVersion(m)
    BY <1>4, <2>1, BehindUrl, LineEnds DEF U
  <2>3. Went("s_req_http_start", pos)
    BY <1>4, ConsumesTo
  <2>4. InLine(m, parser', pos' - 1)
    BY <2>1, <2>2, <2>3 DEF Went, Like, SameLine, InLine, InVersion
  <2> QED
    BY <1>4, <2>3, <2>4, DataReticent DEF LineGoesOn, Went, Like
<1>5. CASE /\ U \in {CR, LF} /\ Data("url", pos)
           /\ Consume([To(IF U = CR THEN "s_req_line_almost_done" ELSE "s_header_field_start")
                         EXCEPT !.http_major = 0, !.http_minor = 9])
  <2> DEFINE next == IF U = CR THEN "s_req_line_almost_done" ELSE "s_header_field_start"
             p == [To(next) EXCEPT !.http_major = 0, !.http_minor = 9]
  <2>1. pos = e + 1
    BY <1>2, <1>3, <1>5
  <2>2. /\ NoVersion(m) /\ LineEnd(m) = e
        /\ U = LF => HeadersAt(m) = pos
        /\ U = CR => Eol(m) = CRLF
    BY <1>5, <2>1, BehindUrl, LineEnds DEF U
  <2>3. parser' = p /\ pos' - 1 = pos
    BY <1>0, <1>5 DEF Consume, Move
  <2> HIDE DEF next
  <2>4. /\ p.state = next /\ p.method = parser.method /\ p.http_major = 0 /\ p.http_minor = 9
        /\ SameLength(p, parser)
    BY DEF To, SameLength, ParserInv, ParserOK, ParserRecords
  <2> HIDE DEF p
  <2>5. Versions(m, parser')
    BY <2>2, <2>3, <2>4 DEF Versions
  <2>6. CASE U = CR
    <3>1. next = "s_req_line_almost_done"
      BY <2>6 DEF next
    <3>2. InLine(m, parser', pos' - 1)
      BY <2>1, <2>2, <2>3, <2>4, <2>5, <2>6, <3>1 DEF InLine
    <3> QED
      BY <1>5, <2>3, <2>4, <3>1, <3>2, DataReticent DEF LineGoesOn
  <2>7. CASE U = LF
    <3>1. next = "s_header_field_start"
      BY <2>7, LineEnds DEF next
    <3>2. AtHeader(m, 1, parser'.state, pos' - 1)
      BY <1>0, <2>2, <2>3, <2>4, <2>7, <3>1 DEF AtHeader
    <3> QED
      BY <1>5, <2>3, <2>4, <2>5, <3>2, DataReticent DEF LineGoesOn
  <2> QED
    BY <1>5, <2>6, <2>7
<1>6. CASE Error("INVALID_URL")
  BY <1>6, ErrorTells
<1>7. CASE /\ U \notin {SP, CR, LF} /\ Quiet
           /\ ParseUrlChar(parser.state, U) # "s_dead" /\ Consume(To(ParseUrlChar(parser.state, U)))
  <2> DEFINE next == ParseUrlChar(parser.state, U)
  <2>1. next \in UrlStates
    BY <1>7, UrlStep
  <2>2. Went(next, pos)
    BY <1>7, ConsumesTo
  <2> HIDE DEF next
  <2>3. pos - 1 # e
    <3>1. pos = e + 1 => U \in {SP, CR, LF}
      BY BehindUrl DEF U
    <3> QED
      BY <1>3, <1>7, <3>1
  <2>4. InLine(m, parser', pos' - 1)
    BY <1>2, <2>1, <2>2, <2>3 DEF Went, Like, SameLine, InLine, InUrl
  <2> QED
    BY <1>7, <2>1, <2>2, <2>4, QuietStill, StillReticent, UrlStateNames DEF LineGoesOn, Went, Like
<1> QED
  BY <1>4, <1>5, <1>6, <1>7 DEF PassUrl

(* The version, unit by unit.                                              *)
LEMMA VersionUnits ==
  ASSUME NEW t, NEW m, Reads(t, m), ~NoVersion(m)
  PROVE  /\ t[UrlEnd(m) + 2] = Half(Protocol(m), 1) /\ t[UrlEnd(m) + 3] = Half(Protocol(m), 2)
         /\ t[UrlEnd(m) + 4] = Ch("/") /\ t[UrlEnd(m) + 5] = Major(m)
         /\ t[UrlEnd(m) + 6] = Ch(".") /\ t[UrlEnd(m) + 7] = Minor(m)
         /\ t[UrlEnd(m) + 8] = CR => Eol(m) = CRLF
         /\ t[UrlEnd(m) + 8] = LF => HeadersAt(m) = UrlEnd(m) + 8
<1>0. HeadOK(m) /\ UrlEnd(m) \in Nat
  BY LineOffsets DEF Reads
<1>1. Segment(t, UrlEnd(m), WriteVersion(m)) /\ Len(WriteVersion(m)) = 7
  BY <1>0, LineSegments, VersionText
<1>2. \A k \in 1..7 : t[UrlEnd(m) + k] = WriteVersion(m)[k]
  BY <1>1 DEF Segment
<1>3. LineEnd(m) = UrlEnd(m) + 7 /\ LineEnd(m) + 1 = UrlEnd(m) + 8
  BY <1>0, BehindUrl
<1>4. Segment(t, LineEnd(m), Eol(m))
  BY LineSegments
<1>5. /\ t[LineEnd(m) + 1] = CR => Eol(m) = CRLF
      /\ t[LineEnd(m) + 1] = LF => Len(Eol(m)) = 1
  BY <1>0, <1>4, EolUnits
<1>6. Len(Eol(m)) = 1 => HeadersAt(m) = UrlEnd(m) + 8
  BY <1>0, <1>3 DEF HeadersAt
<1>7. /\ WriteVersion(m)[2] = Half(Protocol(m), 1) /\ WriteVersion(m)[3] = Half(Protocol(m), 2)
      /\ WriteVersion(m)[4] = Ch("/") /\ WriteVersion(m)[5] = Major(m)
      /\ WriteVersion(m)[6] = Ch(".") /\ WriteVersion(m)[7] = Minor(m)
  BY <1>0, VersionText
<1>8. /\ t[UrlEnd(m) + 2] = WriteVersion(m)[2] /\ t[UrlEnd(m) + 3] = WriteVersion(m)[3]
      /\ t[UrlEnd(m) + 4] = WriteVersion(m)[4] /\ t[UrlEnd(m) + 5] = WriteVersion(m)[5]
      /\ t[UrlEnd(m) + 6] = WriteVersion(m)[6] /\ t[UrlEnd(m) + 7] = WriteVersion(m)[7]
  BY <1>2
<1> QED
  BY <1>3, <1>5, <1>6, <1>7, <1>8

LEMMA BeginsVersion ==
  ASSUME ParserInv, NEW m, Reads(input, m), parser.state = "s_req_http_start",
         parser.method = m.method, InVersion(m, parser, pos - 1), PassHttpStart, parser'.http_errno = "OK"
  PROVE  LineGoesOn(m)
<1>0. HeadOK(m) /\ pos \in Nat \ {0} /\ UrlEnd(m) \in Nat
  BY Place, LineOffsets DEF Reads
<1>1. ~NoVersion(m) /\ pos - 1 = UrlEnd(m) + 1
  BY DEF InVersion
<1>2. pos = UrlEnd(m) + 2
  BY <1>0, <1>1
<1>3. U = Half(Protocol(m), 1)
  BY <1>1, <1>2, VersionUnits DEF U
<1>4. U # SP
  BY <1>3 DEF Half, SP, Ch
<1>5. Quiet
  BY DEF PassHttpStart
<1>6. ASSUME NEW state \in {"s_req_http_H", "s_req_http_I"}, Consume(To(state)) PROVE LineGoesOn(m)
  <2>1. Went(state, pos)
    BY <1>6, ConsumesTo
  <2>2. InLine(m, parser', pos' - 1)
    BY <1>1, <1>2, <2>1 DEF Went, Like, SameLine, InLine, InVersion
  <2> QED
    BY <1>5, <2>1, <2>2, QuietStill, StillReticent DEF LineGoesOn, Went, Like
<1>7. CASE Error("INVALID_CONSTANT")
  BY <1>7, ErrorTells
<1> QED
  BY <1>4, <1>6, <1>7 DEF PassHttpStart

LEMMA NumberPasses ==
  ASSUME ParserInv, NEW state, NEW field \in {"http_major", "http_minor"}, NEW next,
         PassVersionNumber(state, field, next), parser'.http_errno = "OK"
  PROVE  /\ Still /\ pos' - 1 = pos /\ parser'.state = next /\ SameLength(parser', parser)
         /\ parser'.method = parser.method /\ parser'[field] = Digits[U.w]
         /\ field = "http_minor" => parser'.http_major = parser.http_major
<1>1. CASE Error("INVALID_VERSION")
  BY <1>1, ErrorTells
<1>2. CASE Quiet /\ Consume([To(next) EXCEPT ![field] = Digits[U.w]])
  <2> DEFINE n == Digits[U.w]
             p == [To(next) EXCEPT ![field] = n]
  <2>1. parser' = p /\ pos' - 1 = pos
    BY <1>2, Place DEF Consume, Move
  <2> HIDE DEF n
  <2>2. CASE field = "http_major"
    <3>1. /\ p.state = next /\ SameLength(p, parser) /\ p.method = parser.method /\ p.http_major = n
      BY <2>2 DEF To, SameLength, ParserInv, ParserOK, ParserRecords
    <3> HIDE DEF p
    <3> QED
      BY <1>2, <2>1, <2>2, <3>1, QuietStill DEF n
  <2>3. CASE field = "http_minor"
    <3>1. /\ p.state = next /\ SameLength(p, parser) /\ p.method = parser.method /\ p.http_minor = n
          /\ p.http_major = parser.http_major
      BY <2>3 DEF To, SameLength, ParserInv, ParserOK, ParserRecords
    <3> HIDE DEF p
    <3> QED
      BY <1>2, <2>1, <2>3, <3>1, QuietStill DEF n
  <2> QED
    BY <2>2, <2>3
<1> QED
  BY <1>1, <1>2 DEF PassVersionNumber

LEMMA ReadsVersion ==
  ASSUME ParserInv, NEW m, Reads(input, m), parser.state # "s_req_http_start",
         parser.method = m.method, InVersion(m, parser, pos - 1), PassVersion, parser'.http_errno = "OK"
  PROVE  LineGoesOn(m)
<1> DEFINE e == UrlEnd(m)
<1>0. HeadOK(m) /\ pos \in Nat \ {0} /\ e \in Nat /\ ~NoVersion(m)
  BY Place, LineOffsets DEF Reads, InVersion
<1>1. ASSUME NEW state, NEW u, NEW next, NEW errno, errno # "OK", Expect(state, u, next, errno)
      PROVE  Still /\ Went(next, pos) /\ parser.state = state
  BY <1>1, ExpectGoes DEF Expect, Turn
<1>2. ASSUME NEW next, Still, Went(next, pos), next # "s_start_req",
             InVersion(m, parser', pos)
      PROVE  LineGoesOn(m)
  <2>1. InLine(m, parser', pos' - 1)
    BY <1>2 DEF Went, Like, SameLine, InLine
  <2> QED
    BY <1>2, <2>1, StillReticent DEF LineGoesOn, Went, Like
<1>3. CASE \/ Expect("s_req_http_H", Half("HTTP", 2), "s_req_http_HTTP", "STRICT")
           \/ Expect("s_req_http_I", Half("ICE", 2), "s_req_http_HTTP", "STRICT")
  <2>1. Still /\ Went("s_req_http_HTTP", pos) /\ parser.state \in {"s_req_http_H", "s_req_http_I"}
    BY <1>1, <1>3
  <2>2. pos = e + 3
    BY <1>0, <2>1 DEF InVersion
  <2>3. InVersion(m, parser', pos)
    BY <1>0, <2>1, <2>2 DEF InVersion, Went
  <2> QED
    BY <1>2, <2>1, <2>3
<1>4. CASE Expect("s_req_http_HTTP", Ch("/"), "s_req_http_major", "STRICT")
  <2>1. Still /\ Went("s_req_http_major", pos) /\ parser.state = "s_req_http_HTTP"
    BY <1>1, <1>4
  <2>2. pos = e + 4
    BY <1>0, <2>1 DEF InVersion
  <2>3. InVersion(m, parser', pos)
    BY <1>0, <2>1, <2>2 DEF InVersion, Went
  <2> QED
    BY <1>2, <2>1, <2>3
<1>5. CASE PassVersionNumber("s_req_http_major", "http_major", "s_req_http_dot")
  <2>1. parser.state = "s_req_http_major"
    BY <1>5 DEF PassVersionNumber, Turn
  <2>2. pos = e + 5
    BY <1>0, <2>1 DEF InVersion
  <2>3. U = Major(m)
    BY <1>0, <2>2, VersionUnits DEF U
  <2>4. /\ Still /\ pos' - 1 = pos /\ parser'.state = "s_req_http_dot" /\ SameLength(parser', parser)
        /\ parser'.method = parser.method /\ parser'.http_major = Digits[U.w]
    BY <1>5, NumberPasses
  <2>5. InLine(m, parser', pos' - 1)
    BY <1>0, <2>2, <2>3, <2>4 DEF InVersion, InLine
  <2> QED
    BY <2>4, <2>5, StillReticent DEF LineGoesOn
<1>6. CASE Expect("s_req_http_dot", Ch("."), "s_req_http_minor", "INVALID_VERSION")
  <2>1. Still /\ Went("s_req_http_minor", pos) /\ parser.state = "s_req_http_dot"
    BY <1>1, <1>6
  <2>2. pos = e + 6 /\ parser.http_major = Digits[Major(m).w]
    BY <1>0, <2>1 DEF InVersion
  <2>3. InVersion(m, parser', pos)
    BY <1>0, <2>1, <2>2 DEF InVersion, Went, Like, SameLine
  <2> QED
    BY <1>2, <2>1, <2>3
<1>7. CASE PassVersionNumber("s_req_http_minor", "http_minor", "s_req_http_end")
  <2>1. parser.state = "s_req_http_minor"
    BY <1>7 DEF PassVersionNumber, Turn
  <2>2. pos = e + 7 /\ parser.http_major = Digits[Major(m).w]
    BY <1>0, <2>1 DEF InVersion
  <2>3. U = Minor(m)
    BY <1>0, <2>2, VersionUnits DEF U
  <2>4. /\ Still /\ pos' - 1 = pos /\ parser'.state = "s_req_http_end" /\ SameLength(parser', parser)
        /\ parser'.method = parser.method /\ parser'.http_minor = Digits[U.w]
        /\ parser'.http_major = parser.http_major
    BY <1>7, NumberPasses
  <2>5. Versions(m, parser')
    BY <1>0, <2>2, <2>3, <2>4 DEF Versions
  <2>6. InLine(m, parser', pos' - 1)
    BY <1>0, <2>2, <2>4, <2>5 DEF InVersion, InLine
  <2> QED
    BY <2>4, <2>6, StillReticent DEF LineGoesOn
<1> QED
  BY <1>3, <1>4, <1>5, <1>6, <1>7 DEF PassVersion

LEMMA EndsLine ==
  ASSUME ParserInv, NEW m, Reads(input, m), parser.method = m.method,
         \/ parser.state = "s_req_http_end" /\ InVersion(m, parser, pos - 1) /\ PassHttpEnd
         \/ /\ PassLineAlmostDone
            /\ Eol(m) = CRLF /\ pos - 1 = LineEnd(m) + 1 /\ Versions(m, parser),
         parser'.http_errno = "OK"
  PROVE  LineGoesOn(m)
<1>0. /\ HeadOK(m) /\ pos \in Nat \ {0} /\ UrlEnd(m) \in Nat /\ LineEnd(m) \in Nat
      /\ HeaderAt(m, 1) = HeadersAt(m)
  BY Place, LineOffsets, HeaderOffsets DEF Reads
<1>1. Versions(m, parser)
  BY DEF InVersion
<1>2. ASSUME NEW next, Went(next, pos), Quiet
      PROVE  Reticent /\ SameLength(parser', parser) /\ parser'.method = m.method
             /\ Versions(m, parser') /\ pos' - 1 = pos /\ parser'.state = next
  BY <1>1, <1>2, QuietStill, StillReticent DEF Went, Like, SameLine, Versions
<1>3. CASE parser.state = "s_req_http_end" /\ InVersion(m, parser, pos - 1) /\ PassHttpEnd
  <2>1. ~NoVersion(m) /\ pos = UrlEnd(m) + 8 /\ LineEnd(m) + 1 = pos
    <3>1. ~NoVersion(m) /\ pos - 1 = UrlEnd(m) + 7
      BY <1>3 DEF InVersion
    <3>2. LineEnd(m) = UrlEnd(m) + 7
      BY <3>1, BehindUrl
    <3> QED
      BY <1>0, <3>1, <3>2
  <2>2. /\ U = CR => Eol(m) = CRLF
        /\ U = LF => HeadersAt(m) = pos
    BY <2>1, VersionUnits DEF U
  <2>3. CASE U = CR /\ Quiet /\ Consume(To("s_req_line_almost_done"))
    <3>1. Went("s_req_line_almost_done", pos)
      BY <2>3, ConsumesTo
    <3>2. InLine(m, parser', pos' - 1)
      BY <1>2, <2>1, <2>2, <2>3, <3>1 DEF InLine
    <3> QED
      BY <1>2, <2>3, <3>1, <3>2 DEF LineGoesOn
  <2>4. CASE U = LF /\ Quiet /\ Consume(To("s_header_field_start"))
    <3>1. Went("s_header_field_start", pos)
      BY <2>4, ConsumesTo
    <3>2. AtHeader(m, 1, parser'.state, pos' - 1)
      BY <1>0, <1>2, <2>2, <2>4, <3>1 DEF AtHeader
    <3> QED
      BY <1>2, <2>4, <3>1, <3>2 DEF LineGoesOn
  <2>5. CASE Error("INVALID_VERSION")
    BY <2>5, ErrorTells
  <2> QED
    BY <1>3, <2>3, <2>4, <2>5 DEF PassHttpEnd
<1>4. CASE PassLineAlmostDone /\ Eol(m) = CRLF /\ pos - 1 = LineEnd(m) + 1
  <2>1. Went("s_header_field_start", pos) /\ Quiet
    BY <1>4, ExpectGoes DEF PassLineAlmostDone, Expect
  <2>2. HeadersAt(m) = pos
    <3>1. Len(Eol(m)) = 2
      BY <1>4 DEF CRLF
    <3> QED
      BY <1>0, <1>4, <3>1 DEF HeadersAt
  <2>3. AtHeader(m, 1, parser'.state, pos' - 1)
    BY <1>0, <1>2, <2>1, <2>2 DEF AtHeader
  <2> QED
    BY <1>2, <2>1, <2>3 DEF LineGoesOn
<1> QED
  BY <1>3, <1>4

LEMMA InLineStates ==
  ASSUME NEW m, NEW p, NEW d, InLine(m, p, d)
  PROVE  /\ p.state \in UrlStates \cup
              {"s_start_req", "s_req_method", "s_req_spaces_before_url", "s_req_http_start",
               "s_req_http_H", "s_req_http_I", "s_req_http_HTTP", "s_req_http_major", "s_req_http_dot",
               "s_req_http_minor", "s_req_http_end", "s_req_line_almost_done"}
         /\ p.state = "s_start_req" => d \in 0..MethodAt(m)
         /\ p.state # "s_start_req" => p.method = m.method
         /\ p.state \in UrlStates \cup {"s_req_method", "s_req_spaces_before_url"} => InUrl(m, p, d)
         /\ p.state \in {"s_req_http_start", "s_req_http_H", "s_req_http_I", "s_req_http_HTTP",
                         "s_req_http_major", "s_req_http_dot", "s_req_http_minor", "s_req_http_end"}
              => InVersion(m, p, d)
         /\ p.state = "s_req_line_almost_done" =>
              Eol(m) = CRLF /\ d = LineEnd(m) + 1 /\ Versions(m, p)
BY UrlStateNames DEF InLine, InUrl, InVersion

LEMMA ReadsLine ==
  ASSUME ParserInv, NEW m, Reads(input, m), InLine(m, parser, pos - 1), RequestLine,
         parser'.http_errno = "OK"
  PROVE  \/ LineGoesOn(m) /\ parser.state # "s_start_req"
         \/ /\ Reticent /\ parser.state = "s_start_req"
            /\ \/ InLine(m, parser', pos' - 1) /\ parser' = parser
               \/ /\ InLine(m, parser', pos' - 1) /\ parser'.state = "s_req_method"
                  /\ parser'.method = m.method
                  /\ parser'.flags = {} /\ parser'.content_length = ULLONG_MAX
<1>1. CASE PassDead
  BY <1>1, InLineStates, UrlStateNames DEF PassDead, Turn
<1>2. CASE PassStartReq
  <2>1. parser.state = "s_start_req"
    BY <1>2 DEF PassStartReq, Turn
  <2>2. pos - 1 \in 0..MethodAt(m)
    BY <2>1, InLineStates
  <2> QED
    BY <1>2, <2>1, <2>2, StartsRequest
<1>3. CASE PassMethod
  <2>1. parser.state = "s_req_method"
    BY <1>3 DEF PassMethod, Turn
  <2> QED
    BY <1>3, <2>1, InLineStates, ReadsMethod
<1>4. CASE PassSpacesBeforeUrl
  <2>1. parser.state = "s_req_spaces_before_url"
    BY <1>4 DEF PassSpacesBeforeUrl, Turn
  <2> QED
    BY <1>4, <2>1, InLineStates, BeginsUrl
<1>5. CASE PassUrl
  <2>1. parser.state \in UrlStates
    BY <1>5 DEF PassUrl
  <2> QED
    BY <1>5, <2>1, InLineStates, ReadsUrl, UrlStateNames
<1>6. CASE PassHttpStart
  <2>1. parser.state = "s_req_http_start"
    BY <1>6 DEF PassHttpStart, Turn
  <2> QED
    BY <1>6, <2>1, InLineStates, BeginsVersion
<1>7. CASE PassVersion
  <2>1. parser.state \in {"s_req_http_H", "s_req_http_I", "s_req_http_HTTP", "s_req_http_major",
                          "s_req_http_dot", "s_req_http_minor"}
    BY <1>7 DEF PassVersion, PassVersionNumber, Expect, Turn
  <2> QED
    BY <1>7, <2>1, InLineStates, ReadsVersion
<1>8. CASE PassHttpEnd
  <2>1. parser.state = "s_req_http_end"
    BY <1>8 DEF PassHttpEnd, Turn
  <2> QED
    BY <1>8, <2>1, InLineStates, EndsLine
<1>9. CASE PassLineAlmostDone
  <2>1. parser.state = "s_req_line_almost_done"
    BY <1>9 DEF PassLineAlmostDone, Expect, Turn
  <2> QED
    BY <1>9, <2>1, InLineStates, EndsLine
<1> QED
  BY <1>1, <1>2, <1>3, <1>4, <1>5, <1>6, <1>7, <1>8, <1>9 DEF RequestLine
-----------------------------------------------------------------------------
(* What the client sends begins with the head of its first request.        *)

LEMMA WriteText ==
  ASSUME NEW m, HeadOK(m), WriteBody(m.body) \in Seq(Unit)
  PROVE  WriteHead(m) \in Seq(Sign) /\ Write(m) \in Seq(Sign) /\ Segment(Write(m), 0, WriteHead(m))
<1>1. WriteHead(m) \in Seq(Sign)
  BY HeadParts, TextOfHead, Zenon
<1>2. WriteBody(m.body) \in Seq(Sign)
  BY UnitSigns
<1>3. Segment(WriteHead(m), 0, WriteHead(m))
  BY <1>1, SegmentAll
<1>4. Write(m) \in Seq(Sign)
  BY <1>1, <1>2 DEF Write
<1>5. Segment(WriteHead(m) \o WriteBody(m.body), 0, WriteHead(m))
  BY <1>1, <1>2, <1>3, SegmentFirst, Zenon
<1> QED
  BY <1>1, <1>4, <1>5 DEF Write

LEMMA JoinedThrice ==
  ASSUME NEW a \in Seq(Sign), NEW b \in Seq(Sign), NEW c \in Seq(Sign)
  PROVE  (a \o b) \o c = a \o (b \o c) /\ b \o c \in Seq(Sign)
BY ConcatAssociative

LEMMA JoinedNone == ASSUME NEW a \in Seq(Sign) PROVE a \o <<>> = a /\ <<>> \o a = a
OBVIOUS

(* The first k of w, joined. *)
Joined(w, k) == FlattenSeq([i \in 1..k |-> w[i]])

LEMMA FlattenBegins ==
  ASSUME NEW n \in Nat, NEW w, \A i \in 1..n : w[i] \in Seq(Sign)
  PROVE  \A k \in 1..n : \E rest \in Seq(Sign) : Joined(w, k) = w[1] \o rest
<1> DEFINE T == {k \in Nat : k \in 1..n => \E rest \in Seq(Sign) : Joined(w, k) = w[1] \o rest}
<1>1. 0 \in T
  OBVIOUS
<1>2. ASSUME NEW k \in Nat, k \in T PROVE k + 1 \in T
  <2> SUFFICES ASSUME k + 1 \in 1..n
               PROVE  \E rest \in Seq(Sign) : Joined(w, k + 1) = w[1] \o rest
    OBVIOUS
  <2>1. 1 \in 1..n /\ w[1] \in Seq(Sign) /\ w[k + 1] \in Seq(Sign)
    OBVIOUS
  <2>2. Joined(w, k + 1) = Joined(w, k) \o w[k + 1]
    BY <2>1, FlattenGrows DEF Joined
  <2>3. CASE k = 0
    <3>1. [i \in 1..k |-> w[i]] = <<>> /\ [i \in 1..0 |-> 0] = <<>>
      BY <2>3
    <3>2. Joined(w, k) = <<>> /\ w[k + 1] = w[1]
      BY <2>3, <3>1, FlattenNone DEF Joined
    <3>3. w[1] \o <<>> = w[1] /\ <<>> \o w[1] = w[1]
      BY <2>1, JoinedNone
    <3>4. Joined(w, k + 1) = w[1] \o <<>> /\ <<>> \in Seq(Sign)
      BY <2>2, <3>2, <3>3
    <3> QED
      BY <3>4
  <2>4. CASE k # 0
    <3>1. k \in 1..n
      BY <2>4
    <3>2. PICK rest \in Seq(Sign) : Joined(w, k) = w[1] \o rest
      BY <1>2, <3>1
    <3>3. /\ (w[1] \o rest) \o w[k + 1] = w[1] \o (rest \o w[k + 1])
          /\ rest \o w[k + 1] \in Seq(Sign)
      BY <2>1, JoinedThrice
    <3> QED
      BY <2>2, <3>2, <3>3
  <2> QED
    BY <2>3, <2>4
<1> HIDE DEF T
<1>3. Nat \subseteq T
  BY <1>1, <1>2, SetInduction
<1>4. ASSUME NEW k \in 1..n PROVE \E rest \in Seq(Sign) : Joined(w, k) = w[1] \o rest
  <2>1. k \in T
    BY <1>3
  <2> QED
    BY <2>1 DEF T
<1> QED
  BY <1>4

LEMMA ReadsFirst == ASSUME NEW ms \in Requests PROVE Reads(Wire(ms), ms[1])
<1> DEFINE n == Len(ms)
           w == [i \in 1..n |-> Write(ms[i])]
<1>1. n \in Nat \ {0} /\ DOMAIN ms = 1..n /\ 1 \in 1..n
  BY RequestsOK
<1>2. \A i \in 1..n : HeadOK(ms[i]) /\ WriteBody(ms[i].body) \in Seq(Unit)
  BY <1>1, RequestsOK
<1>3. \A i \in 1..n : w[i] \in Seq(Sign)
  BY <1>2, WriteText
<1>4. Wire(ms) = Joined(w, n)
  <2>1. [i \in DOMAIN ms |-> Write(ms[i])] = [i \in 1..n |-> w[i]]
    BY <1>1
  <2> QED
    BY <2>1 DEF Wire, Joined
<1>5. w[1] = Write(ms[1])
  BY <1>1
<1> HIDE DEF w, n
<1>6. \A k \in 1..n : \E rest \in Seq(Sign) : Joined(w, k) = w[1] \o rest
  BY <1>1, <1>3, FlattenBegins
<1>7. n \in 1..n
  BY <1>1
<1>8. PICK rest \in Seq(Sign) : Wire(ms) = Write(ms[1]) \o rest
  BY <1>4, <1>5, <1>6, <1>7
<1>9. Write(ms[1]) \in Seq(Sign) /\ Segment(Write(ms[1]), 0, WriteHead(ms[1]))
  BY <1>1, <1>2, WriteText
<1>10. Segment(Wire(ms), 0, WriteHead(ms[1]))
  BY <1>8, <1>9, SegmentFirst
<1>11. Len(Wire(ms)) \in Nat
  BY <1>8, <1>9
<1> QED
  BY <1>1, <1>2, <1>10, <1>11 DEF Reads

-----------------------------------------------------------------------------
(* What the parser has understood of the headers.                          *)

(* header_state behind k units of a name. *)
NameRead(name, k) ==
  IF k = 1 THEN NameBegun(name[1])
  ELSE IF k = 2 THEN Name(NameBegun(name[1]), name[2]) ELSE General

IsConnection(m, i) == IsName(NameOf(m, i), "connection") \/ IsName(NameOf(m, i), "proxy-connection")
Text(m, i) == ValueOf(m, i) \o FoldOf(m, i)

(* The first t units of a list of tokens are whole elements, and blanks.   *)
AtElement(text, t) == \A b \in 1..t : ~IsBlank(text[b]) => \E c \in b..t : text[c] = Ch(",")

(* "upgrade" is an element of a list, and begins at e.                     *)
Listed(text, e) ==
  /\ e + 1 \in DOMAIN text /\ AtElement(text, e - 1)
  /\ IsHalf(text[e], "upgrade", 1) /\ IsHalf(text[e + 1], "upgrade", 2)
  /\ \A a \in (e + 2)..Len(text) : ~IsBlank(text[a]) => \E c \in (e + 2)..a : text[c] = Ch(",")

(* A list the parser reads like everybody else: no element is empty, or    *)
(* ends in the middle of a word, no blank is a tab, and a fold is behind a *)
(* comma.                                                                  *)
ListOK(text) ==
  \A i \in DOMAIN text :
    /\ text[i] # HT
    /\ AtElement(text, i - 1) /\ ~IsBlank(text[i]) =>
         /\ IsToken(text[i])
         /\ \A w \in ConnectionTokens :
              IsHalf(text[i], w, 1) => i < Len(text) /\ IsHalf(text[i + 1], w, 2)
PlainLists(m) ==
  \A i \in 1..Count(m) : IsConnection(m, i) =>
    /\ ListOK(Text(m, i))
    /\ Folded(m, i) => AtElement(ValueOf(m, i), Len(ValueOf(m, i)))

(* No header announces a body. *)
Unsized(m) ==
  \A i \in 1..Count(m) :
    ~IsName(NameOf(m, i), "content-length") /\ ~IsName(NameOf(m, i), "transfer-encoding")

(* What header_state and the flags know behind t units of a list.          *)
Tracks(text, t, hs, flags) ==
  /\ AtElement(text, t) => hs = TokenStart
  /\ ~AtElement(text, t) =>
       hs = Token \/ (hs.phase \in {"h_matching_value", "h_value"} /\ hs.word \in ConnectionTokens)
  /\ hs.phase = "h_matching_value" => t < Len(text) /\ IsHalf(text[t + 1], hs.word, 2)
  /\ \A e \in 1..t : Listed(text, e) =>
       \/ "F_CONNECTION_UPGRADE" \in flags
       \/ t = e /\ hs = HS("h_matching_value", "upgrade")
       \/ t > e /\ hs = HS("h_value", "upgrade") /\ \A a \in (e + 2)..t : IsBlank(text[a])

(* What p knows of the first k headers, and inside the text of header i.   *)
Learned(m, k, p) ==
  /\ "F_TRAILING" \notin p.flags
  /\ Unsized(m) => "F_CHUNKED" \notin p.flags /\ p.content_length = ULLONG_MAX
  /\ \A j \in 1..k :
       /\ IsName(NameOf(m, j), "upgrade") /\ ~EmptyValue(m, j) => "F_UPGRADE" \in p.flags
       /\ PlainLists(m) /\ IsConnection(m, j) /\ HasToken(Text(m, j), "upgrade") =>
            "F_CONNECTION_UPGRADE" \in p.flags
Sees(m, i, t, p) ==
  /\ p.header_state.phase # "h_name"
  /\ Unsized(m) => p.header_state # LengthNum /\ p.header_state.word # "chunked"
  /\ IsName(NameOf(m, i), "upgrade") => "F_UPGRADE" \in p.flags
  /\ PlainLists(m) /\ IsConnection(m, i) => Tracks(Text(m, i), t, p.header_state, p.flags)

KnownHeader(m, i, p, d) ==
  \/ /\ InName(m, i, p.state, d)
     /\ p.header_state = NameRead(NameOf(m, i), d - HeaderAt(m, i))
  \/ /\ InLead(m, i, p.state, d)
     /\ p.header_state = NameRead(NameOf(m, i), Len(NameOf(m, i)))
  \/ InText(m, i, p.state, d) /\ Sees(m, i, d - LeadEnd(m, i), p)
  \/ BehindText(m, i, p.state, d) /\ Sees(m, i, Len(ValueOf(m, i)), p)
  \/ InFold(m, i, p.state, d) /\ Sees(m, i, Len(ValueOf(m, i)) + (d - FoldAt(m, i)), p)
  \/ BehindFold(m, i, p.state, d) /\ Sees(m, i, Len(Text(m, i)), p)
KnownAt(m, i, p, d) ==
  /\ Learned(m, i - 1, p)
  /\ \/ AtHeader(m, i, p.state, d)
     \/ i \in 1..Count(m) /\ KnownHeader(m, i, p, d)
     \/ i = Count(m) + 1 /\ p.state = "s_headers_almost_done" /\ d = HeadEnd(m) - 1
Understood(m, p, d) ==
  \/ /\ InLine(m, p, d)
     /\ p.state # "s_start_req" => p.flags = {} /\ p.content_length = ULLONG_MAX
  \/ p.method = m.method /\ \E i \in 1 .. Count(m) + 1 : KnownAt(m, i, p, d)

(* Lists of tokens. *)

LEMMA RangeGrows ==
  ASSUME NEW t \in Nat
  PROVE  /\ \A b \in 1..t + 1 : b # t + 1 => b \in 1..t
         /\ \A b \in 1..t + 1 : \A c \in b..t : c \in b .. t + 1
         /\ \A b \in 1..t + 1 : \A c \in b .. t + 1 : c # t + 1 => c \in b..t
         /\ \A c \in (t + 1)..t : FALSE
OBVIOUS

LEMMA ElementStep ==
  ASSUME NEW text, NEW t \in Nat
  PROVE  /\ text[t + 1] = Ch(",") => AtElement(text, t + 1)
         /\ AtElement(text, t) /\ IsBlank(text[t + 1]) => AtElement(text, t + 1)
         /\ AtElement(text, t + 1) /\ text[t + 1] # Ch(",") => AtElement(text, t) /\ IsBlank(text[t + 1])
<1>1. ASSUME text[t + 1] = Ch(",") PROVE AtElement(text, t + 1)
  <2>1. \A b \in 1 .. t + 1 : t + 1 \in b .. t + 1
    OBVIOUS
  <2> QED
    BY <1>1, <2>1 DEF AtElement
<1>2. ASSUME AtElement(text, t), IsBlank(text[t + 1]) PROVE AtElement(text, t + 1)
  <2>1. SUFFICES ASSUME NEW b \in 1 .. t + 1, ~IsBlank(text[b])
                 PROVE  \E c \in b .. t + 1 : text[c] = Ch(",")
    BY DEF AtElement
  <2>2. b # t + 1
    BY <1>2, <2>1
  <2>3. b \in 1..t
    BY <2>2
  <2>4. PICK c \in b..t : text[c] = Ch(",")
    BY <1>2, <2>1, <2>3 DEF AtElement
  <2>5. c \in b .. t + 1
    BY <2>1, <2>4, RangeGrows
  <2> QED
    BY <2>4, <2>5
<1>3. ASSUME AtElement(text, t + 1), text[t + 1] # Ch(",")
      PROVE  AtElement(text, t) /\ IsBlank(text[t + 1])
  <2>1. ASSUME NEW b \in 1 .. t + 1, ~IsBlank(text[b])
        PROVE  \E c \in b..t : text[c] = Ch(",")
    <3>1. PICK c \in b .. t + 1 : text[c] = Ch(",")
      BY <1>3, <2>1 DEF AtElement
    <3>2. c # t + 1
      BY <1>3, <3>1
    <3>3. c \in b..t
      BY <2>1, <3>1, <3>2, RangeGrows
    <3> QED
      BY <3>1, <3>3
  <2>2. AtElement(text, t)
    <3>1. \A b \in 1..t : b \in 1 .. t + 1
      OBVIOUS
    <3> QED
      BY <2>1, <3>1 DEF AtElement
  <2>3. IsBlank(text[t + 1])
    <3> SUFFICES ASSUME ~IsBlank(text[t + 1]) PROVE FALSE
      OBVIOUS
    <3>1. t + 1 \in 1 .. t + 1
      OBVIOUS
    <3>2. PICK c \in (t + 1)..t : text[c] = Ch(",")
      BY <2>1, <3>1
    <3> QED
      BY <3>2, RangeGrows
  <2> QED
    BY <2>2, <2>3
<1> QED
  BY <1>1, <1>2, <1>3

(* What a list of the plain kind goes on with.                             *)
LEMMA ListUnits ==
  ASSUME NEW text, ListOK(text), NEW t \in Nat, t + 1 \in DOMAIN text
  PROVE  /\ text[t + 1] # HT
         /\ IsBlank(text[t + 1]) => text[t + 1] = SP
         /\ AtElement(text, t) /\ ~IsBlank(text[t + 1]) =>
              /\ IsToken(text[t + 1])
              /\ \A w \in ConnectionTokens :
                   IsHalf(text[t + 1], w, 1) => t + 1 < Len(text) /\ IsHalf(text[t + 2], w, 2)
<1>1. (t + 1) - 1 = t /\ (t + 1) + 1 = t + 2
  OBVIOUS
<1> QED
  BY <1>1 DEF ListOK, IsBlank

LEMMA TokenSigns ==
  /\ ~IsToken(Ch(",")) /\ ~IsBlank(Ch(",")) /\ SP # Ch(",") /\ ~IsToken(SP)
  /\ \A w, v : ~IsHalf(Ch(v), w, 1) /\ ~IsHalf(Ch(v), w, 2)
  /\ \A w : ~IsHalf(SP, w, 1) /\ ~IsHalf(SP, w, 2)
  /\ \A u, w : ~(IsHalf(u, w, 1) /\ IsHalf(u, w, 2))
  /\ Token # TokenStart /\ \A p, w : (HS(p, w) = Token => p = "h_matching_connection_token")
                                  /\ (HS(p, w) = TokenStart => p = "h_matching_connection_token_start")
  /\ General.phase = "h_general"
<1>1. Ch(",").h = 0 /\ Ch(",").w = "," /\ SP.h = 0 /\ SP.w = "SP" /\ HT.w = "HT" /\ \A v : Ch(v).h = 0
  BY DEF Ch, SP, HT
<1>2. DOMAIN Digits = {"0", "1", "2", "9"}
  BY DEF Digits
<1>3. ~IsToken(Ch(",")) /\ ~IsToken(SP)
  <2>1. ~IsAlpha(Ch(",")) /\ ~IsAlpha(SP)
    BY LineEnds, <1>1 DEF IsAlpha, SP, Ch
  <2>2. ~IsNum(Ch(",")) /\ ~IsNum(SP)
    BY <1>1, <1>2 DEF IsNum
  <2>3. Ch(",").w \notin {".", "*", "#"} /\ SP.w \notin {".", "*", "#"}
    BY <1>1
  <2> QED
    BY <2>1, <2>2, <2>3 DEF IsToken
<1>4. ~IsBlank(Ch(",")) /\ SP # Ch(",")
  BY <1>1 DEF IsBlank
<1>5. /\ \A w, v : ~IsHalf(Ch(v), w, 1) /\ ~IsHalf(Ch(v), w, 2)
      /\ \A w : ~IsHalf(SP, w, 1) /\ ~IsHalf(SP, w, 2)
      /\ \A u, w : ~(IsHalf(u, w, 1) /\ IsHalf(u, w, 2))
  <2>1. \A u, w : (IsHalf(u, w, 1) => u.h = 1) /\ (IsHalf(u, w, 2) => u.h = 2)
    BY DEF IsHalf
  <2>2. \A v : Ch(v).h # 1 /\ Ch(v).h # 2
    BY DEF Ch
  <2>3. SP.h # 1 /\ SP.h # 2
    BY <2>2 DEF SP
  <2> QED
    BY <2>1, <2>2, <2>3
<1>6. \A p, w : HS(p, w).phase = p
  BY DEF HS
<1>7. /\ Token.phase = "h_matching_connection_token" /\ General.phase = "h_general"
      /\ TokenStart.phase = "h_matching_connection_token_start"
  BY <1>6 DEF Token, TokenStart, General
<1> QED
  BY <1>3, <1>4, <1>5, <1>6, <1>7

(* What a unit makes of header_state. *)
LEMMA UnitEffects ==
  ASSUME NEW hs \in HeaderStates, NEW u
  PROVE  /\ hs.phase = "h_matching_value" =>
              ValueUnit(hs, u) = IF IsHalf(u, hs.word, 2) THEN HS("h_value", hs.word)
                                 ELSE IF hs.word = "chunked" THEN General ELSE Token
         /\ hs.phase = "h_value" /\ u = SP => ValueUnit(hs, u) = hs
         /\ hs.phase = "h_value" /\ u # SP /\ hs.word \in ConnectionTokens =>
              ValueUnit(hs, u) = IF u = Ch(",") THEN TokenStart ELSE Token
         /\ hs = TokenStart => ValueUnit(hs, u) = TokenUnit(u)
         /\ hs = Token => ValueUnit(hs, u) = IF u = Ch(",") THEN TokenStart ELSE Token
         /\ hs.phase = "h_value" /\ hs.word \in ConnectionTokens /\ u = Ch(",") =>
              ValueFlags(hs, u) = {FlagOf[hs.word]}
<1> DEFINE matching == hs.phase = "h_matching_value"
           word == hs.phase = "h_value"
<1>1. "chunked" \notin ConnectionTokens
  BY DEF ConnectionTokens
<1>2. /\ ~(matching /\ word)
      /\ hs \in {General, Token, TokenStart, LengthNum, LengthWs} => ~matching /\ ~word
      /\ TokenStart # Token /\ TokenStart # LengthNum /\ TokenStart # LengthWs
      /\ Token # LengthNum /\ Token # LengthWs /\ LengthNum # LengthWs
  BY HeaderStateFields
<1>3. matching => ValueUnit(hs, u) = IF IsHalf(u, hs.word, 2) THEN HS("h_value", hs.word)
                                     ELSE IF hs.word = "chunked" THEN General ELSE Token
  BY <1>2, Zenon DEF ValueUnit
<1>4. word /\ u = SP => ValueUnit(hs, u) = hs
  BY <1>2, Zenon DEF ValueUnit
<1>5. word /\ u # SP /\ hs.word # "chunked" =>
        ValueUnit(hs, u) = IF u = Ch(",") THEN TokenStart ELSE Token
  BY <1>2, Zenon DEF ValueUnit
<1>6. hs = TokenStart => ValueUnit(hs, u) = TokenUnit(u)
  BY <1>2, Zenon DEF ValueUnit
<1>7. hs = Token => ValueUnit(hs, u) = IF u = Ch(",") THEN TokenStart ELSE Token
  BY <1>2, Zenon DEF ValueUnit
<1>8. hs.phase = "h_value" /\ hs.word \in ConnectionTokens /\ u = Ch(",") =>
        ValueFlags(hs, u) = {FlagOf[hs.word]}
  BY <1>1 DEF ValueFlags
<1> QED
  BY <1>1, <1>3, <1>4, <1>5, <1>6, <1>7, <1>8

LEMMA TokenEffects ==
  ASSUME NEW u
  PROVE  /\ TokenUnit(SP) = TokenStart
         /\ IsToken(u) => TokenUnit(u) = IF u.h = 1 /\ Lower(u.w) \in ConnectionTokens
                                         THEN HS("h_matching_value", Lower(u.w)) ELSE Token
<1> DEFINE matches(v) == v.h = 1 /\ Lower(v.w) \in ConnectionTokens
<1>1. ~matches(SP) /\ ~IsToken(SP)
  <2>1. SP.h # 1
    BY DEF SP, Ch
  <2> QED
    BY <2>1, TokenSigns
<1>2. TokenUnit(SP) = TokenStart
  BY <1>1, Zenon DEF TokenUnit
<1>3. IsToken(u) => u # SP
  BY <1>1
<1>4. IsToken(u) /\ matches(u) => TokenUnit(u) = HS("h_matching_value", Lower(u.w))
  BY <1>3, Zenon DEF TokenUnit
<1>5. IsToken(u) /\ ~matches(u) => TokenUnit(u) = Token
  BY <1>3, Zenon DEF TokenUnit
<1> QED
  BY <1>2, <1>4, <1>5

LEMMA RangeShrinks ==
  ASSUME NEW a \in Int, NEW t \in Int, NEW c \in a .. t + 1, c # t + 1
  PROVE  c \in a..t
OBVIOUS

(* One more unit of a list. *)
LEMMA TrackStep ==
  ASSUME NEW text, ListOK(text), Len(text) \in Nat, DOMAIN text = 1..Len(text),
         NEW t \in Nat, t + 1 \in DOMAIN text, NEW hs \in HeaderStates, NEW flags,
         Tracks(text, t, hs, flags)
  PROVE  Tracks(text, t + 1, ValueUnit(hs, text[t + 1]), flags \cup ValueFlags(hs, text[t + 1]))
<1> DEFINE u == text[t + 1]
           next == ValueUnit(hs, text[t + 1])
           more == flags \cup ValueFlags(hs, text[t + 1])
           Found(e, s, f, n) ==
             \/ "F_CONNECTION_UPGRADE" \in f
             \/ n = e /\ s = HS("h_matching_value", "upgrade")
             \/ n > e /\ s = HS("h_value", "upgrade") /\ \A a \in (e + 2)..n : IsBlank(text[a])
<1>1. /\ AtElement(text, t) => hs = TokenStart
      /\ ~AtElement(text, t) =>
           hs = Token \/ (hs.phase \in {"h_matching_value", "h_value"} /\ hs.word \in ConnectionTokens)
      /\ hs.phase = "h_matching_value" => t < Len(text) /\ IsHalf(text[t + 1], hs.word, 2)
      /\ \A e \in 1..t : Listed(text, e) => Found(e, hs, flags, t)
  BY DEF Tracks
<1>2. /\ u # HT /\ (IsBlank(u) => u = SP)
      /\ AtElement(text, t) /\ ~IsBlank(u) =>
           /\ IsToken(u)
           /\ \A w \in ConnectionTokens :
                IsHalf(u, w, 1) => t + 1 < Len(text) /\ IsHalf(text[t + 2], w, 2)
  BY ListUnits
<1>3. /\ u = Ch(",") => AtElement(text, t + 1)
      /\ AtElement(text, t) /\ IsBlank(u) => AtElement(text, t + 1)
      /\ AtElement(text, t + 1) /\ u # Ch(",") => AtElement(text, t) /\ IsBlank(u)
  BY ElementStep
<1>4. /\ \A e \in 1 .. t + 1 : e \in 1..t \/ e = t + 1
      /\ (t + 1) + 1 = t + 2 /\ (t + 1) - 1 = t
  OBVIOUS
<1>5. Listed(text, t + 1) => AtElement(text, t) /\ IsHalf(u, "upgrade", 1)
  BY <1>4 DEF Listed
<1>6. SUFFICES
        /\ AtElement(text, t + 1) => next = TokenStart
        /\ ~AtElement(text, t + 1) =>
             next = Token \/ (next.phase \in {"h_matching_value", "h_value"} /\ next.word \in ConnectionTokens)
        /\ next.phase = "h_matching_value" => t + 1 < Len(text) /\ IsHalf(text[t + 2], next.word, 2)
        /\ \A e \in 1..t : Listed(text, e) => Found(e, next, more, t + 1)
        /\ Listed(text, t + 1) => Found(t + 1, next, more, t + 1)
  BY <1>4 DEF Tracks
<1>7. \A p, w : HS(p, w).phase = p /\ HS(p, w).word = w
  BY DEF HS
<1>8. Token.phase # "h_matching_value" /\ TokenStart.phase # "h_matching_value" /\ Token # TokenStart
  BY DEF Token, TokenStart, HS
<1>9. \A e \in 1..t : "F_CONNECTION_UPGRADE" \in flags => Found(e, next, more, t + 1)
  OBVIOUS
<1>a. CASE AtElement(text, t)
  <2>1. hs = TokenStart /\ next = TokenUnit(u)
    BY <1>1, <1>a, UnitEffects
  <2>2. \A e \in 1..t : Listed(text, e) => "F_CONNECTION_UPGRADE" \in flags
    BY <1>1, <2>1, TokenSigns
  <2>3. CASE IsBlank(u)
    <3>1. next = TokenStart /\ AtElement(text, t + 1)
      BY <1>2, <1>3, <1>a, <2>1, <2>3, TokenEffects
    <3>2. ~Listed(text, t + 1)
      BY <1>2, <1>5, <2>3, TokenSigns
    <3> QED
      BY <1>8, <1>9, <2>2, <3>1, <3>2
  <2>4. CASE ~IsBlank(u)
    <3>1. IsToken(u) /\ u # Ch(",") /\ ~AtElement(text, t + 1)
      BY <1>2, <1>3, <1>a, <2>4, TokenSigns
    <3>2. next = IF u.h = 1 /\ Lower(u.w) \in ConnectionTokens
                 THEN HS("h_matching_value", Lower(u.w)) ELSE Token
      BY <2>1, <3>1, TokenEffects
    <3>3. u.h = 1 /\ Lower(u.w) \in ConnectionTokens =>
            t + 1 < Len(text) /\ IsHalf(text[t + 2], Lower(u.w), 2)
      BY <1>2, <1>a, <2>4 DEF IsHalf
    <3>4. Listed(text, t + 1) => next = HS("h_matching_value", "upgrade")
      BY <1>5, <3>2 DEF IsHalf, ConnectionTokens
    <3>5. next = Token \/ (next.phase = "h_matching_value" /\ next.word \in ConnectionTokens)
      BY <1>7, <3>2
    <3>6. next.phase = "h_matching_value" => t + 1 < Len(text) /\ IsHalf(text[t + 2], next.word, 2)
      BY <1>7, <1>8, <3>2, <3>3
    <3>7. \A e \in 1..t : Listed(text, e) => Found(e, next, more, t + 1)
      BY <1>9, <2>2
    <3>8. Listed(text, t + 1) => Found(t + 1, next, more, t + 1)
      BY <3>4
    <3> HIDE DEF next, more, Found, u
    <3> QED
      BY <3>1, <3>5, <3>6, <3>7, <3>8
  <2> QED
    BY <2>3, <2>4
<1>b. ASSUME ~AtElement(text, t) PROVE ~Listed(text, t + 1) /\ (u # Ch(",") => ~AtElement(text, t + 1))
  BY <1>3, <1>5, <1>b
<1>c. CASE ~AtElement(text, t) /\ hs = Token
  <2>1. next = IF u = Ch(",") THEN TokenStart ELSE Token
    BY <1>c, UnitEffects
  <2>2. \A e \in 1..t : Listed(text, e) => "F_CONNECTION_UPGRADE" \in flags
    BY <1>1, <1>c, TokenSigns
  <2> QED
    BY <1>3, <1>8, <1>9, <1>b, <1>c, <2>1, <2>2
<1>d. CASE ~AtElement(text, t) /\ hs.phase = "h_matching_value" /\ hs.word \in ConnectionTokens
  <2>1. next = HS("h_value", hs.word) /\ u # Ch(",")
    <3>1. IsHalf(u, hs.word, 2)
      BY <1>1, <1>d
    <3>2. u # Ch(",")
      BY <3>1, TokenSigns
    <3> QED
      BY <1>d, <3>1, <3>2, UnitEffects
  <2>2. ASSUME NEW e \in 1..t, Listed(text, e) PROVE Found(e, next, more, t + 1)
    <3>1. CASE "F_CONNECTION_UPGRADE" \in flags
      BY <3>1
    <3>2. CASE t = e /\ hs = HS("h_matching_value", "upgrade")
      <4>1. t + 1 > e /\ next = HS("h_value", "upgrade")
        <5>1. hs.word = "upgrade"
          BY <1>7, <3>2
        <5>2. t + 1 > e
          BY <3>2
        <5> QED
          BY <2>1, <5>1, <5>2
      <4>2. \A a \in (e + 2) .. t + 1 : FALSE
        BY <3>2
      <4> QED
        BY <4>1, <4>2
    <3>3. CASE hs = HS("h_value", "upgrade")
      BY <1>7, <1>d, <3>3
    <3> QED
      BY <1>1, <2>2, <3>1, <3>2, <3>3
  <2>3. next.phase = "h_value" /\ next.word \in ConnectionTokens
    <3> HIDE DEF next, more, Found, u
    <3>1. next = HS("h_value", hs.word)
      BY <2>1
    <3> QED
      BY <1>7, <1>d, <3>1
  <2>4. ~AtElement(text, t + 1) /\ ~Listed(text, t + 1)
    BY <1>b, <1>d, <2>1
  <2> HIDE DEF next, more, Found, u
  <2> QED
    BY <2>2, <2>3, <2>4
<1>e. CASE ~AtElement(text, t) /\ hs.phase = "h_value" /\ hs.word \in ConnectionTokens
  <2>1. /\ u = SP => next = hs
        /\ u = Ch(",") => next = TokenStart /\ ValueFlags(hs, u) = {FlagOf[hs.word]}
        /\ u # SP /\ u # Ch(",") => next = Token
    BY <1>e, UnitEffects, TokenSigns
  <2>2. ASSUME NEW e \in 1..t, Listed(text, e) PROVE Found(e, next, more, t + 1)
    <3>1. CASE "F_CONNECTION_UPGRADE" \in flags
      BY <3>1
    <3>2. CASE hs = HS("h_matching_value", "upgrade")
      BY <1>7, <1>e, <3>2
    <3>3. CASE t > e /\ hs = HS("h_value", "upgrade") /\ \A a \in (e + 2)..t : IsBlank(text[a])
      <4>1. CASE u = SP
        <5>1. \A a \in (e + 2) .. t + 1 : a \in (e + 2)..t \/ a = t + 1
          OBVIOUS
        <5>2. IsBlank(u)
          BY <4>1 DEF IsBlank
        <5>3. \A a \in (e + 2) .. t + 1 : IsBlank(text[a])
          BY <3>3, <5>1, <5>2
        <5>4. next = HS("h_value", "upgrade")
          BY <2>1, <3>3, <4>1
        <5>5. t + 1 > e
          BY <3>3
        <5> QED
          BY <5>3, <5>4, <5>5
      <4>2. CASE u = Ch(",")
        <5>1. FlagOf[hs.word] = "F_CONNECTION_UPGRADE"
          BY <1>7, <3>3 DEF FlagOf, ConnectionTokens
        <5> QED
          BY <2>1, <4>2, <5>1
      <4>3. CASE u # SP /\ u # Ch(",")
        <5>1. t + 1 \in (e + 2)..Len(text)
          BY <3>3
        <5>2. ~IsBlank(u)
          BY <1>2, <4>3
        <5>3. PICK c \in (e + 2) .. t + 1 : text[c] = Ch(",")
          BY <2>2, <5>1, <5>2 DEF Listed
        <5>4. c # t + 1
          BY <4>3, <5>3
        <5>5. c \in (e + 2)..t
          <6>1. e + 2 \in Int /\ t \in Int
            OBVIOUS
          <6> QED
            BY <5>3, <5>4, <6>1, RangeShrinks
        <5> QED
          BY <3>3, <5>3, <5>5, TokenSigns
      <4> QED
        BY <4>1, <4>2, <4>3
    <3> QED
      BY <1>1, <2>2, <3>1, <3>2, <3>3
  <2>3. next.phase # "h_matching_value"
    BY <1>8, <1>e, <2>1
  <2>4. u # Ch(",") => next = Token \/ (next.phase = "h_value" /\ next.word \in ConnectionTokens)
    BY <1>e, <2>1
  <2>5. /\ ~Listed(text, t + 1)
        /\ u # Ch(",") => ~AtElement(text, t + 1)
        /\ u = Ch(",") => AtElement(text, t + 1) /\ next = TokenStart
    BY <1>3, <1>b, <1>e, <2>1
  <2> HIDE DEF next, more, Found, u
  <2> QED
    BY <2>2, <2>3, <2>4, <2>5
<1> QED
  BY <1>1, <1>a, <1>c, <1>d, <1>e

(* The whole list has been read, and what it has earned.                   *)
LEMMA TrackEnd ==
  ASSUME NEW text, Len(text) \in Nat, DOMAIN text = 1..Len(text), NEW hs, NEW flags,
         Tracks(text, Len(text), hs, flags), HasToken(text, "upgrade")
  PROVE  "F_CONNECTION_UPGRADE" \in flags \cup Earned(hs)
<1>1. PICK i \in 1 .. Len(text) - 1 :
        /\ IsHalf(text[i], "upgrade", 1) /\ IsHalf(text[i + 1], "upgrade", 2)
        /\ \A before \in 1 .. i - 1 :
             ~IsBlank(text[before]) => \E c \in before .. i - 1 : text[c] = Ch(",")
        /\ \A after \in (i + 2)..Len(text) :
             ~IsBlank(text[after]) => \E c \in (i + 2)..after : text[c] = Ch(",")
  BY DEF HasToken
<1> DEFINE n == Len(text)
<1> HIDE DEF n
<1>2. i + 1 \in DOMAIN text /\ i \in 1..Len(text) /\ i # Len(text)
  <2>1. n \in Nat /\ i \in 1 .. n - 1
    BY <1>1 DEF n
  <2>2. i + 1 \in 1..n /\ i \in 1..n /\ i # n
    BY <2>1
  <2> QED
    BY <2>2 DEF n
<1>3. AtElement(text, i - 1)
  BY <1>1 DEF AtElement
<1>4. Listed(text, i)
  BY <1>1, <1>2, <1>3 DEF Listed
<1>5. "F_CONNECTION_UPGRADE" \in flags \/ hs = HS("h_value", "upgrade")
  BY <1>2, <1>4 DEF Tracks
<1>6. hs = HS("h_value", "upgrade") => Earned(hs) = {"F_CONNECTION_UPGRADE"}
  BY DEF Earned, HS, FlagOf, ConnectionTokens
<1> QED
  BY <1>5, <1>6

(* Names.                                                                  *)

LEMMA NameReadOn ==
  ASSUME NEW name, NEW k \in Nat \ {0}
  PROVE  Name(NameRead(name, k), name[k + 1]) = NameRead(name, k + 1)
<1>1. NameRead(name, 1) = NameBegun(name[1]) /\ NameRead(name, 2) = Name(NameBegun(name[1]), name[2])
      /\ \A j \in Nat \ {0, 1, 2} : NameRead(name, j) = General
  BY DEF NameRead
<1>2. \A hs, u : hs.phase # "h_matching" => Name(hs, u) = General
  BY DEF Name
<1>3. \A hs, u : Name(hs, u).phase # "h_matching"
  BY HeaderStateFields DEF Name
<1>4. CASE k = 1
  BY <1>1, <1>4
<1>5. CASE k = 2
  <2>1. NameRead(name, 3) = General
    BY <1>1
  <2> QED
    BY <1>1, <1>2, <1>3, <1>5, <2>1
<1>6. CASE k \notin {1, 2}
  <2>1. k + 1 \in Nat \ {0, 1, 2} /\ k \in Nat \ {0, 1, 2}
    BY <1>6
  <2>2. General.phase # "h_matching"
    BY HeaderStateFields
  <2> QED
    BY <1>1, <1>2, <2>1, <2>2
<1> QED
  BY <1>4, <1>5, <1>6

KeptName(w) == IF w = "proxy-connection" THEN "connection" ELSE w

(* What header_state says behind a name.                                   *)
LEMMA NameMeans ==
  ASSUME NEW name, Len(name) \in Nat \ {0}
  PROVE  LET hs == NameRead(name, Len(name))
         IN  /\ hs.phase \in {"h_general", "h_matching", "h_name"}
             /\ \A w \in SpecialNames : IsName(name, w) => hs = HS("h_name", KeptName(w))
             /\ hs.phase = "h_name" =>
                  \E w \in SpecialNames : IsName(name, w) /\ hs = HS("h_name", KeptName(w))
<1> DEFINE hs == NameRead(name, Len(name))
           begun == NameBegun(name[1])
<1>1. /\ Len(name) = 1 => hs = begun
      /\ Len(name) = 2 => hs = Name(begun, name[2])
      /\ Len(name) \notin {1, 2} => hs = General
  BY DEF NameRead
<1>2. \/ begun = General
      \/ /\ name[1].h = 1 /\ Lower(name[1].w) \in SpecialNames
         /\ begun = HS("h_matching", Lower(name[1].w))
  BY DEF NameBegun
<1>3. begun.phase \in {"h_general", "h_matching"}
  BY <1>2, HeaderStateFields
<1>4. \/ Name(begun, name[2]) = General
      \/ /\ begun.phase = "h_matching" /\ IsHalf(name[2], begun.word, 2)
         /\ Name(begun, name[2]) = HS("h_name", KeptName(begun.word))
  BY DEF Name, KeptName
<1>5. hs.phase \in {"h_general", "h_matching", "h_name"}
  BY <1>1, <1>3, <1>4, HeaderStateFields
<1>6. ASSUME NEW w \in SpecialNames, IsName(name, w) PROVE hs = HS("h_name", KeptName(w))
  <2>1. Len(name) = 2 /\ IsHalf(name[1], w, 1) /\ IsHalf(name[2], w, 2)
    BY <1>6 DEF IsName
  <2>2. begun = HS("h_matching", w)
    BY <2>1 DEF NameBegun, IsHalf
  <2>3. begun.phase = "h_matching" /\ begun.word = w
    BY <2>2, HeaderStateFields
  <2>4. Name(begun, name[2]) = HS("h_name", KeptName(w))
    BY <2>1, <2>3 DEF Name, KeptName
  <2> QED
    BY <1>1, <2>1, <2>4
<1>7. ASSUME hs.phase = "h_name"
      PROVE  \E w \in SpecialNames : IsName(name, w) /\ hs = HS("h_name", KeptName(w))
  <2>1. Len(name) = 2 /\ hs = Name(begun, name[2]) /\ hs # General
    BY <1>1, <1>3, <1>7, HeaderStateFields
  <2>2. /\ begun.phase = "h_matching" /\ IsHalf(name[2], begun.word, 2)
        /\ hs = HS("h_name", KeptName(begun.word))
    BY <1>4, <2>1
  <2>3. /\ name[1].h = 1 /\ Lower(name[1].w) \in SpecialNames
        /\ begun.word = Lower(name[1].w)
    BY <1>2, <2>2, HeaderStateFields
  <2>4. IsHalf(name[1], begun.word, 1) /\ begun.word \in SpecialNames
    BY <2>3 DEF IsHalf
  <2>5. IsName(name, begun.word)
    <3>1. \A i \in 1..2 : i = 1 \/ i = 2
      OBVIOUS
    <3> QED
      BY <2>1, <2>2, <2>4, <3>1 DEF IsName
  <2> QED
    BY <2>2, <2>4, <2>5
<1> QED
  BY <1>5, <1>6, <1>7

(* No list, and no value that goes on, says chunked or a length.           *)
LEMMA WordsStay ==
  ASSUME NEW hs \in HeaderStates, NEW u, hs # LengthNum, hs.word # "chunked"
  PROVE  /\ ValueUnit(hs, u) # LengthNum /\ ValueUnit(hs, u).word # "chunked"
         /\ "F_CHUNKED" \notin ValueFlags(hs, u) /\ "F_CHUNKED" \notin Earned(hs)
<1> DEFINE plain == {General, Token, TokenStart, LengthWs}
<1>1. \A x \in plain : x # LengthNum /\ x.word # "chunked"
  <2>1. \A x \in plain : x.phase # LengthNum.phase
    BY HeaderStateFields
  <2>2. General.word = "" /\ Token.word = "" /\ TokenStart.word = "" /\ LengthWs.word = ""
    BY HeaderStateFields DEF General, Token, TokenStart, LengthWs
  <2> QED
    BY <2>1, <2>2
<1>2. \A w \in ConnectionTokens : w # "chunked" /\ FlagOf[w] # "F_CHUNKED"
  BY DEF ConnectionTokens, FlagOf
<1>3. hs.phase \in {"h_matching_value", "h_value"} => hs.word \in ConnectionTokens
  BY HeaderStateWords DEF FlagOf
<1>4. "F_CHUNKED" \notin ValueFlags(hs, u) /\ "F_CHUNKED" \notin Earned(hs)
  BY <1>2, <1>3 DEF ValueFlags, Earned
<1>5. \A p, w : w # "chunked" /\ p \in {"h_matching_value", "h_value"} =>
         HS(p, w) # LengthNum /\ HS(p, w).word # "chunked"
  BY HeaderStateFields
<1>6. TokenUnit(u) \in plain \/ \E w \in ConnectionTokens : TokenUnit(u) = HS("h_matching_value", w)
  <2> DEFINE matches == u.h = 1 /\ Lower(u.w) \in ConnectionTokens
  <2>1. CASE IsToken(u) /\ matches
    BY <2>1, TokenEffects
  <2>2. CASE IsToken(u) /\ ~matches
    BY <2>2, TokenEffects
  <2>3. CASE ~IsToken(u) /\ matches
    <3>1. u.h # 0 /\ u.h > 0 => IsAlpha(u)
      BY DEF IsAlpha
    <3> QED
      BY <2>3, <3>1 DEF IsToken
  <2>4. CASE u = SP
    BY <2>4, TokenEffects
  <2>5. CASE ~IsToken(u) /\ ~matches /\ u # SP
    <3>1. TokenUnit(u) = General
      BY <2>5, Zenon DEF TokenUnit
    <3> QED
      BY <3>1
  <2> QED
    BY <2>1, <2>2, <2>3, <2>4, <2>5
<1>7. \/ ValueUnit(hs, u) \in plain \/ ValueUnit(hs, u) = hs
      \/ hs = TokenStart /\ ValueUnit(hs, u) = TokenUnit(u)
      \/ ValueUnit(hs, u) = HS("h_value", hs.word) /\ hs.phase = "h_matching_value"
  <2> DEFINE matching == hs.phase = "h_matching_value"
             word == hs.phase = "h_value"
  <2>1. CASE matching
    <3>1. IsHalf(u, hs.word, 2) => ValueUnit(hs, u) = HS("h_value", hs.word)
      BY <2>1, UnitEffects
    <3>2. ~IsHalf(u, hs.word, 2) => ValueUnit(hs, u) \in {General, Token}
      BY <2>1, UnitEffects
    <3> QED
      BY <2>1, <3>1, <3>2
  <2>2. CASE word
    <3>1. hs.word \in ConnectionTokens
      BY <1>3, <2>2
    <3>2. u = SP => ValueUnit(hs, u) = hs
      BY <2>2, UnitEffects
    <3>3. u # SP => ValueUnit(hs, u) \in {Token, TokenStart}
      BY <2>2, <3>1, UnitEffects
    <3> QED
      BY <3>2, <3>3
  <2>3. CASE hs \in {TokenStart, Token}
    BY <2>3, UnitEffects
  <2>4. CASE hs = LengthWs
    <3>1. ~matching /\ ~word /\ hs # TokenStart /\ hs # Token /\ hs # LengthNum
      BY <2>4, HeaderStateFields
    <3>2. ValueUnit(hs, u) = LengthWs
      BY <2>4, <3>1, Zenon DEF ValueUnit
    <3> QED
      BY <3>2
  <2>5. CASE ~matching /\ ~word /\ hs \notin {TokenStart, Token, LengthWs}
    <3>1. ValueUnit(hs, u) = General
      BY <2>5, Zenon DEF ValueUnit
    <3> QED
      BY <3>1
  <2> QED
    BY <2>1, <2>2, <2>3, <2>4, <2>5
<1>8. ValueUnit(hs, u) # LengthNum /\ ValueUnit(hs, u).word # "chunked"
  <2>1. TokenUnit(u) # LengthNum /\ TokenUnit(u).word # "chunked"
    BY <1>1, <1>2, <1>5, <1>6
  <2>2. hs.phase = "h_matching_value" => HS("h_value", hs.word) # LengthNum /\ HS("h_value", hs.word).word # "chunked"
    BY <1>5
  <2> HIDE DEF plain
  <2> QED
    BY <1>1, <1>7, <2>1, <2>2
<1> QED
  BY <1>4, <1>8

LEMMA TokenFlags ==
  /\ FlagOf["upgrade"] = "F_CONNECTION_UPGRADE"
  /\ \A word \in DOMAIN FlagOf : FlagOf[word] # "F_TRAILING"
BY DEF FlagOf, ConnectionTokens

LEMMA ValueFlagsTold ==
  ASSUME NEW hs \in HeaderStates, NEW u
  PROVE  "F_TRAILING" \notin ValueFlags(hs, u) /\ "F_TRAILING" \notin Earned(hs)
BY HeaderStateWords, TokenFlags DEF ValueFlags, Earned

(* One pass over the headers, and what is understood behind it.            *)

LEMMA TextUnits ==
  ASSUME NEW m, HeadOK(m), NEW i \in 1..Count(m)
  PROVE  /\ Len(ValueOf(m, i)) \in Nat /\ Len(FoldOf(m, i)) \in Nat /\ Len(Text(m, i)) \in Nat
         /\ Len(Text(m, i)) = Len(ValueOf(m, i)) + Len(FoldOf(m, i))
         /\ DOMAIN Text(m, i) = 1..Len(Text(m, i))
         /\ \A k \in 1..Len(ValueOf(m, i)) : Text(m, i)[k] = ValueOf(m, i)[k]
         /\ \A k \in 1..Len(FoldOf(m, i)) : Text(m, i)[Len(ValueOf(m, i)) + k] = FoldOf(m, i)[k]
         /\ ~Folded(m, i) => Len(Text(m, i)) = Len(ValueOf(m, i)) /\ Text(m, i) = ValueOf(m, i)
<1> DEFINE v == ValueOf(m, i)
           f == FoldOf(m, i)
<1>1. v \in Seq(Sign) /\ f \in Seq(Sign)
  BY HeaderTypes
<1> HIDE DEF v, f
<1>2. /\ Len(v) \in Nat /\ Len(f) \in Nat /\ Len(v \o f) = Len(v) + Len(f)
      /\ DOMAIN (v \o f) = 1..Len(v \o f)
      /\ \A k \in 1..Len(v) : (v \o f)[k] = v[k]
      /\ \A k \in 1..Len(f) : (v \o f)[Len(v) + k] = f[k]
  BY <1>1
<1>3. Len(v \o f) \in Nat
  BY <1>2
<1>4. f = <<>> => v \o f = v
  BY <1>1, JoinedNone
<1>5. Text(m, i) = v \o f
  BY DEF Text, v, f
<1> QED
  BY <1>2, <1>3, <1>4, <1>5 DEF Folded, v, f

LEMMA TextElement ==
  ASSUME NEW m, HeadOK(m), NEW i \in 1..Count(m), AtElement(ValueOf(m, i), Len(ValueOf(m, i)))
  PROVE  AtElement(Text(m, i), Len(ValueOf(m, i)))
<1> DEFINE n == Len(ValueOf(m, i))
<1>1. n \in Nat /\ \A k \in 1..n : Text(m, i)[k] = ValueOf(m, i)[k]
  BY TextUnits
<1> HIDE DEF n
<1>2. \A b \in 1..n : \A c \in b..n : c \in 1..n
  BY <1>1
<1>3. AtElement(ValueOf(m, i), n)
  BY DEF n
<1>4. AtElement(Text(m, i), n)
  BY <1>1, <1>2, <1>3 DEF AtElement
<1> QED
  BY <1>4 DEF n

LEMMA LearnedOn ==
  ASSUME NEW m, NEW k, NEW p, NEW q, Learned(m, k, p), p.flags \subseteq q.flags,
         "F_TRAILING" \in q.flags => "F_TRAILING" \in p.flags,
         Unsized(m) => q.content_length = p.content_length /\ "F_CHUNKED" \notin q.flags
  PROVE  Learned(m, k, q)
BY DEF Learned

LEMMA LearnedSame ==
  ASSUME NEW m, NEW k, NEW p, NEW q, Learned(m, k, p), SameLength(q, p)
  PROVE  Learned(m, k, q)
BY DEF Learned, SameLength

LEMMA SeesOn ==
  ASSUME NEW m, NEW i, NEW t, NEW p, NEW q, Sees(m, i, t, p), SameLength(q, p),
         q.header_state = p.header_state
  PROVE  Sees(m, i, t, q)
BY DEF Sees, SameLength

(* One more unit of a text. *)
LEMMA SeesUnit ==
  ASSUME NEW m, HeadOK(m), NEW i \in 1..Count(m), NEW t \in Nat, t + 1 <= Len(Text(m, i)),
         NEW p, NEW q, Sees(m, i, t, p), p.header_state \in HeaderStates,
         q.flags = p.flags \cup ValueFlags(p.header_state, Text(m, i)[t + 1]),
         q.header_state = ValueUnit(p.header_state, Text(m, i)[t + 1])
  PROVE  Sees(m, i, t + 1, q)
<1>1. q.header_state.phase # "h_name"
  BY ValueUnitState
<1>2. Unsized(m) => q.header_state # LengthNum /\ q.header_state.word # "chunked"
  BY WordsStay DEF Sees
<1>3. IsName(NameOf(m, i), "upgrade") => "F_UPGRADE" \in q.flags
  BY DEF Sees
<1>4. ASSUME PlainLists(m), IsConnection(m, i)
      PROVE  Tracks(Text(m, i), t + 1, q.header_state, q.flags)
  <2>1. ListOK(Text(m, i)) /\ Tracks(Text(m, i), t, p.header_state, p.flags)
    BY <1>4 DEF PlainLists, Sees
  <2>2. /\ Len(Text(m, i)) \in Nat /\ DOMAIN Text(m, i) = 1..Len(Text(m, i))
        /\ t + 1 \in DOMAIN Text(m, i)
    BY TextUnits
  <2>3. Tracks(Text(m, i), t + 1, ValueUnit(p.header_state, Text(m, i)[t + 1]),
               p.flags \cup ValueFlags(p.header_state, Text(m, i)[t + 1]))
    BY <2>1, <2>2, TrackStep
  <2> QED
    BY <2>3
<1> QED
  BY <1>1, <1>2, <1>3, <1>4 DEF Sees

(* The header is behind. *)
LEMMA LearnsHeader ==
  ASSUME NEW m, HeadOK(m), NEW i \in 1..Count(m), NEW p, NEW q, Learned(m, i - 1, p),
         Sees(m, i, Len(Text(m, i)), p), p.header_state \in HeaderStates,
         q.flags = p.flags \cup Earned(p.header_state), q.content_length = p.content_length
  PROVE  Learned(m, i, q)
<1>1. Unsized(m) => "F_CHUNKED" \notin q.flags /\ q.content_length = ULLONG_MAX
  BY WordsStay DEF Sees, Learned
<1>0. "F_TRAILING" \notin q.flags
  BY ValueFlagsTold DEF Learned
<1>2. ASSUME NEW j \in 1..i, IsName(NameOf(m, j), "upgrade"), ~EmptyValue(m, j)
      PROVE  "F_UPGRADE" \in q.flags
  <2>1. j \in 1 .. i - 1 \/ j = i
    OBVIOUS
  <2> QED
    BY <1>2, <2>1 DEF Sees, Learned
<1>3. ASSUME NEW j \in 1..i, PlainLists(m), IsConnection(m, j), HasToken(Text(m, j), "upgrade")
      PROVE  "F_CONNECTION_UPGRADE" \in q.flags
  <2>1. CASE j \in 1 .. i - 1
    BY <1>3, <2>1 DEF Learned
  <2>2. CASE j = i
    <3>1. Tracks(Text(m, i), Len(Text(m, i)), p.header_state, p.flags)
      BY <1>3, <2>2 DEF Sees
    <3>2. Len(Text(m, i)) \in Nat /\ DOMAIN Text(m, i) = 1..Len(Text(m, i))
      BY TextUnits
    <3> QED
      BY <1>3, <2>2, <3>1, <3>2, TrackEnd
  <2>3. j \in 1 .. i - 1 \/ j = i
    OBVIOUS
  <2> QED
    BY <2>1, <2>2, <2>3
<1> QED
  BY <1>0, <1>1, <1>2, <1>3 DEF Learned

(* A pass on the head of m. *)
Scanning(m) == ParserInv /\ Reads(input, m) /\ parser'.http_errno = "OK" /\ parser.method = m.method

LEMMA ScanningType ==
  ASSUME NEW m, Scanning(m)
  PROVE  /\ Count(m) \in Nat /\ HeadOK(m) /\ parser.header_state \in HeaderStates
         /\ pos \in Nat \ {0} /\ (pos + 1) - 1 = pos /\ (pos - 1) + 1 = pos
BY HeadersType, Place DEF Scanning, Reads, ParserInv, ParserOK, ParserRecords

LEMMA KnownStates ==
  ASSUME NEW m, NEW i, NEW p, NEW d, KnownAt(m, i, p, d)
  PROVE  LET s == p.state
             hs == p.header_state
         IN  /\ Learned(m, i - 1, p)
             /\ s \in {"s_header_field_start", "s_header_field", "s_header_value", "s_headers_almost_done",
                       "s_header_value_discard_ws", "s_header_value_discard_ws_almost_done",
                       "s_header_value_discard_lws", "s_header_almost_done", "s_header_value_lws",
                       "s_header_value_start"}
             /\ s = "s_header_field_start" => AtHeader(m, i, s, d)
             /\ s = "s_header_field" =>
                  /\ i \in 1..Count(m) /\ InName(m, i, s, d)
                  /\ hs = NameRead(NameOf(m, i), d - HeaderAt(m, i))
             /\ s \in {"s_header_value_discard_ws", "s_header_value_discard_ws_almost_done",
                       "s_header_value_discard_lws"} =>
                  /\ i \in 1..Count(m) /\ InLead(m, i, s, d)
                  /\ hs = NameRead(NameOf(m, i), Len(NameOf(m, i)))
             /\ s = "s_header_value" =>
                  /\ i \in 1..Count(m)
                  /\ \/ InText(m, i, s, d) /\ Sees(m, i, d - LeadEnd(m, i), p)
                     \/ InFold(m, i, s, d) /\ Sees(m, i, Len(ValueOf(m, i)) + (d - FoldAt(m, i)), p)
             /\ s \in {"s_header_almost_done", "s_header_value_lws", "s_header_value_start"} =>
                  /\ i \in 1..Count(m)
                  /\ \/ BehindText(m, i, s, d) /\ Sees(m, i, Len(ValueOf(m, i)), p)
                     \/ BehindFold(m, i, s, d) /\ Sees(m, i, Len(Text(m, i)), p)
             /\ s = "s_header_value_start" =>
                  BehindText(m, i, s, d) /\ Sees(m, i, Len(ValueOf(m, i)), p)
             /\ s = "s_headers_almost_done" => i = Count(m) + 1 /\ d = HeadEnd(m) - 1
BY DEF KnownAt, KnownHeader, AtHeader, InName, InLead, InText, BehindText, InFold, BehindFold

LEMMA HeaderHere ==
  ASSUME NEW m, Scanning(m), SameLine(parser', parser), NEW i \in 1..Count(m),
         Learned(m, i - 1, parser'), KnownHeader(m, i, parser', pos' - 1)
  PROVE  Understood(m, parser', pos' - 1)
<1>1. i \in 1 .. Count(m) + 1
  BY ScanningType
<1>2. KnownAt(m, i, parser', pos' - 1)
  BY DEF KnownAt
<1> QED
  BY <1>1, <1>2 DEF Understood, Scanning, SameLine

LEMMA HeaderNext ==
  ASSUME NEW m, Scanning(m), NEW i \in 1..Count(m), Learned(m, i, parser'),
         EarnedAt("s_header_field_start", HeaderAt(m, i + 1))
  PROVE  Understood(m, parser', pos' - 1)
<1>1. i + 1 \in 1 .. Count(m) + 1 /\ (i + 1) - 1 = i
  BY ScanningType
<1>2. KnownAt(m, i + 1, parser', pos' - 1)
  BY <1>1 DEF KnownAt, AtHeader, EarnedAt
<1> QED
  BY <1>1, <1>2 DEF Understood, Scanning, EarnedAt, SameLine

LEMMA UnderstandsLine ==
  ASSUME NEW m, ParserInv, Reads(input, m), parser'.http_errno = "OK", InLine(m, parser, pos - 1),
         parser.state # "s_start_req" => parser.flags = {} /\ parser.content_length = ULLONG_MAX,
         RequestLine
  PROVE  Understood(m, parser', pos' - 1)
<1>1. \/ LineGoesOn(m) /\ parser.state # "s_start_req"
      \/ /\ parser.state = "s_start_req"
         /\ \/ InLine(m, parser', pos' - 1) /\ parser' = parser
            \/ /\ InLine(m, parser', pos' - 1) /\ parser'.flags = {} /\ parser'.content_length = ULLONG_MAX
  BY ReadsLine
<1>2. CASE LineGoesOn(m) /\ parser.state # "s_start_req"
  <2>1. parser'.flags = {} /\ parser'.content_length = ULLONG_MAX
    BY <1>2 DEF LineGoesOn, SameLength
  <2>2. CASE InLine(m, parser', pos' - 1)
    BY <2>1, <2>2 DEF Understood
  <2>3. CASE AtHeader(m, 1, parser'.state, pos' - 1) /\ parser'.method = m.method
    <3>1. 1 \in 1 .. Count(m) + 1 /\ \A j \in 1 .. 1 - 1 : FALSE
      BY HeadersType DEF Reads
    <3>2. Learned(m, 1 - 1, parser')
      BY <2>1, <3>1 DEF Learned
    <3>3. KnownAt(m, 1, parser', pos' - 1)
      BY <2>3, <3>2 DEF KnownAt
    <3> QED
      BY <2>3, <3>1, <3>3 DEF Understood
  <2> QED
    BY <1>2, <2>2, <2>3 DEF LineGoesOn
<1> QED
  BY <1>1, <1>2 DEF Understood

LEMMA UnderstandsStart ==
  ASSUME NEW m, Scanning(m), NEW i \in 1 .. Count(m) + 1, KnownAt(m, i, parser, pos - 1),
         PassHeaderFieldStart
  PROVE  Understood(m, parser', pos' - 1)
<1>1. AtHeader(m, i, parser.state, pos - 1) /\ Learned(m, i - 1, parser)
  BY KnownStates DEF PassHeaderFieldStart, Turn
<1>2. /\ SameLine(parser', parser) /\ SameLength(parser', parser)
      /\ \/ /\ i \in 1..Count(m) /\ InName(m, i, parser'.state, pos' - 1)
            /\ pos' - 1 = HeaderAt(m, i) + 1
            /\ parser'.header_state = NameBegun(NameOf(m, i)[1])
         \/ /\ i = Count(m) + 1 /\ parser'.state = "s_headers_almost_done"
            /\ BehindHeaders(m, parser'.state, pos' - 1)
  BY <1>1, BeginsName DEF Scanning
<1>3. Learned(m, i - 1, parser')
  BY <1>1, <1>2, LearnedSame
<1>4. CASE /\ i \in 1..Count(m) /\ InName(m, i, parser'.state, pos' - 1)
           /\ pos' - 1 = HeaderAt(m, i) + 1
           /\ parser'.header_state = NameBegun(NameOf(m, i)[1])
  <2>1. (pos' - 1) - HeaderAt(m, i) = 1
    <3>1. HeaderAt(m, i) \in Nat
      BY <1>4, ScanningType, HeaderPlaces
    <3> QED
      BY <1>4, <3>1
  <2>2. KnownHeader(m, i, parser', pos' - 1)
    BY <1>4, <2>1 DEF KnownHeader, NameRead
  <2> QED
    BY <1>2, <1>3, <1>4, <2>2, HeaderHere
<1>5. CASE i = Count(m) + 1 /\ parser'.state = "s_headers_almost_done"
           /\ BehindHeaders(m, parser'.state, pos' - 1)
  <2>1. KnownAt(m, i, parser', pos' - 1)
    BY <1>3, <1>5 DEF KnownAt, BehindHeaders
  <2> QED
    BY <1>2, <2>1 DEF Understood, Scanning, SameLine
<1> QED
  BY <1>2, <1>4, <1>5

LEMMA UnderstandsName ==
  ASSUME NEW m, Scanning(m), NEW i \in 1 .. Count(m) + 1, KnownAt(m, i, parser, pos - 1), PassHeaderField
  PROVE  Understood(m, parser', pos' - 1)
<1> DEFINE n == (pos - 1) - HeaderAt(m, i)
<1>1. /\ i \in 1..Count(m) /\ InName(m, i, parser.state, pos - 1) /\ Learned(m, i - 1, parser)
      /\ parser.header_state = NameRead(NameOf(m, i), n) /\ parser.state = "s_header_field"
  BY KnownStates DEF PassHeaderField, Turn
<1>2. /\ SameLine(parser', parser) /\ SameLength(parser', parser)
      /\ \/ Went(parser.state, pos - 1)
         \/ /\ InName(m, i, parser'.state, pos' - 1) /\ pos' - 1 = pos
            /\ parser'.header_state = Name(parser.header_state, NameOf(m, i)[pos - HeaderAt(m, i)])
         \/ Went("s_header_value_discard_ws", NameEnd(m, i) + 1) /\ pos - 1 = NameEnd(m, i)
  BY <1>1, ReadsName DEF Scanning
<1>3. /\ HeaderAt(m, i) \in Nat /\ Len(NameOf(m, i)) \in Nat
      /\ NameEnd(m, i) = HeaderAt(m, i) + Len(NameOf(m, i)) /\ pos \in Nat
  BY <1>1, ScanningType, HeaderPlaces DEF NameEnd
<1>4. n \in Nat \ {0} /\ pos - HeaderAt(m, i) = n + 1
  BY <1>1, <1>3 DEF InName
<1>5. Learned(m, i - 1, parser')
  BY <1>1, <1>2, LearnedSame
<1>6. CASE Went(parser.state, pos - 1)
  <2>1. KnownHeader(m, i, parser', pos' - 1)
    BY <1>1, <1>6 DEF KnownHeader, Went, Like
  <2> QED
    BY <1>1, <1>2, <1>5, <2>1, HeaderHere
<1>7. CASE /\ InName(m, i, parser'.state, pos' - 1) /\ pos' - 1 = pos
           /\ parser'.header_state = Name(parser.header_state, NameOf(m, i)[pos - HeaderAt(m, i)])
  <2>1. (pos' - 1) - HeaderAt(m, i) = n + 1
    BY <1>4, <1>7
  <2> HIDE DEF n
  <2>2. parser'.header_state = NameRead(NameOf(m, i), n + 1)
    BY <1>1, <1>4, <1>7, NameReadOn
  <2>3. KnownHeader(m, i, parser', pos' - 1)
    BY <1>7, <2>1, <2>2 DEF KnownHeader
  <2> QED
    BY <1>1, <1>2, <1>5, <2>3, HeaderHere
<1>8. CASE Went("s_header_value_discard_ws", NameEnd(m, i) + 1) /\ pos - 1 = NameEnd(m, i)
  <2>1. n = Len(NameOf(m, i))
    BY <1>3, <1>8
  <2>2. InLead(m, i, parser'.state, pos' - 1)
    BY <1>8 DEF InLead, Went
  <2>3. KnownHeader(m, i, parser', pos' - 1)
    BY <1>1, <1>8, <2>1, <2>2 DEF KnownHeader, Went, Like
  <2> QED
    BY <1>1, <1>2, <1>5, <2>3, HeaderHere
<1> QED
  BY <1>2, <1>6, <1>7, <1>8

(* Blanks before a value. *)
LEMMA UnderstandsLead ==
  ASSUME NEW m, Scanning(m), NEW i \in 1..Count(m), Learned(m, i - 1, parser),
         parser.header_state = NameRead(NameOf(m, i), Len(NameOf(m, i))),
         Like(parser', parser), InLead(m, i, parser'.state, pos' - 1)
  PROVE  Understood(m, parser', pos' - 1)
<1>1. KnownHeader(m, i, parser', pos' - 1)
  BY DEF KnownHeader, Like
<1>2. Learned(m, i - 1, parser')
  BY LearnedSame DEF Like
<1> QED
  BY <1>1, <1>2, HeaderHere DEF Like

(* The first unit of a list.                                               *)
LEMMA TrackStart ==
  ASSUME NEW text, ListOK(text), Len(text) \in Nat, DOMAIN text = 1..Len(text), 1 \in DOMAIN text,
         ~IsBlank(text[1]), NEW flags
  PROVE  Tracks(text, 1, IF text[1].h = 1 /\ Lower(text[1].w) \in ConnectionTokens
                         THEN HS("h_matching_value", Lower(text[1].w)) ELSE Token, flags)
<1>1. AtElement(text, 0)
  <2>1. \A b \in 1..0 : FALSE
    OBVIOUS
  <2> QED
    BY <2>1 DEF AtElement
<1>2. Tracks(text, 0, TokenStart, flags)
  <2>1. TokenStart.phase # "h_matching_value"
    BY HeaderStateFields
  <2>2. \A e \in 1..0 : FALSE
    OBVIOUS
  <2> QED
    BY <1>1, <2>1, <2>2 DEF Tracks
<1>3. IsToken(text[1])
  <2>1. 1 - 1 = 0
    OBVIOUS
  <2> QED
    BY <1>1, <2>1 DEF ListOK
<1>4. ValueUnit(TokenStart, text[1]) = IF text[1].h = 1 /\ Lower(text[1].w) \in ConnectionTokens
                                       THEN HS("h_matching_value", Lower(text[1].w)) ELSE Token
  BY <1>3, HeaderStateNames, UnitEffects, TokenEffects
<1>5. flags \cup ValueFlags(TokenStart, text[1]) = flags
  BY HeaderStateFields DEF ValueFlags
<1>6. 0 + 1 = 1 /\ 0 \in Nat
  OBVIOUS
<1>7. Tracks(text, 0 + 1, ValueUnit(TokenStart, text[0 + 1]), flags \cup ValueFlags(TokenStart, text[0 + 1]))
  BY <1>2, <1>6, HeaderStateNames, TrackStep
<1> QED
  BY <1>4, <1>5, <1>6, <1>7

(* The value begins, and header_state is what the name says of it.         *)
LEMMA StartSees ==
  ASSUME NEW m, Scanning(m), NEW i \in 1..Count(m), Learned(m, i - 1, parser),
         parser.header_state = NameRead(NameOf(m, i), Len(NameOf(m, i))),
         at = "switch", pos - 1 = LeadEnd(m, i), ~EmptyValue(m, i), StartValue,
         parser.state = "s_header_value_discard_ws"
  PROVE  Sees(m, i, 1, parser') /\ Learned(m, i - 1, parser')
<1> DEFINE name == NameOf(m, i)
           hs == parser.header_state
           text == Text(m, i)
<1>1. HeadOK(m) /\ parser.state \notin ScanStates
  BY ScanningType DEF ScanStates
<1>2. Len(name) \in Nat \ {0}
  BY <1>1, NameHere
<1>3. /\ hs.phase \in {"h_general", "h_matching", "h_name"}
      /\ \A w \in SpecialNames : IsName(name, w) => hs = HS("h_name", KeptName(w))
      /\ hs.phase = "h_name" =>
           \E w \in SpecialNames : IsName(name, w) /\ hs = HS("h_name", KeptName(w))
  BY <1>2, NameMeans
<1>4. /\ KeptName("upgrade") = "upgrade" /\ KeptName("connection") = "connection"
      /\ KeptName("proxy-connection") = "connection" /\ KeptName("content-length") = "content-length"
      /\ KeptName("transfer-encoding") = "transfer-encoding"
      /\ {"upgrade", "connection", "proxy-connection", "content-length", "transfer-encoding"} = SpecialNames
  BY DEF KeptName, SpecialNames
<1>5. /\ IsName(name, "upgrade") => hs = HS("h_name", "upgrade")
      /\ IsConnection(m, i) => hs = HS("h_name", "connection")
  BY <1>3, <1>4 DEF IsConnection
<1>6. Unsized(m) => hs # HS("h_name", "content-length") /\ hs # HS("h_name", "transfer-encoding")
  <2> SUFFICES ASSUME Unsized(m), hs.phase = "h_name"
               PROVE  hs.word \notin {"content-length", "transfer-encoding"}
    BY HeaderStateFields
  <2>1. PICK w \in SpecialNames : IsName(name, w) /\ hs = HS("h_name", KeptName(w))
    BY <1>3
  <2>2. w \notin {"content-length", "transfer-encoding"}
    BY <2>1 DEF Unsized
  <2>3. hs.word = KeptName(w)
    BY <2>1, HeaderStateFields
  <2> QED
    BY <1>4, <2>2, <2>3
<1>7. hs \notin {LengthWs, TokenStart}
  BY <1>3, HeaderStateFields
<1> HIDE DEF name, hs
<1>8. \/ /\ hs = HS("h_name", "upgrade")
         /\ parser'.flags = parser.flags \cup {"F_UPGRADE"}
         /\ parser'.content_length = parser.content_length
         /\ parser'.header_state = General
      \/ /\ hs = HS("h_name", "transfer-encoding") /\ SameLength(parser', parser)
         /\ parser'.header_state \in {HS("h_matching_value", "chunked"), General}
      \/ /\ hs = HS("h_name", "content-length")
         /\ parser'.flags = parser.flags \cup {"F_CONTENTLENGTH"}
         /\ parser'.header_state = LengthNum
      \/ /\ hs = HS("h_name", "connection") /\ SameLength(parser', parser)
         /\ parser'.header_state =
              IF U.h = 1 /\ Lower(U.w) \in ConnectionTokens
              THEN HS("h_matching_value", Lower(U.w)) ELSE Token
      \/ /\ hs.phase # "h_name" \/ hs.word \notin SpecialNames
         /\ SameLength(parser', parser) /\ parser'.header_state = General
  BY <1>1, <1>7, BeginsValue DEF Scanning, hs
<1>9. U = ValueOf(m, i)[1]
  BY BeginsText DEF Scanning
<1>a. /\ Len(text) \in Nat /\ DOMAIN text = 1..Len(text) /\ 1 \in DOMAIN text
      /\ text[1] = U /\ ~IsBlank(U)
  <2>1. ValueOf(m, i) \in Seq(Sign) /\ ValueOf(m, i) # <<>>
    BY <1>1, HeaderTypes DEF EmptyValue
  <2>2. 1 \in 1..Len(ValueOf(m, i))
    BY <2>1
  <2>3. 1 \in 1..Len(text) /\ text[1] = ValueOf(m, i)[1]
    BY <1>1, <2>2, TextUnits
  <2>4. ~IsBlank(ValueOf(m, i)[1])
    BY <1>1, <2>1, HeadersType DEF HeadOK, HeaderOK, ValueOf
  <2> QED
    BY <1>1, <1>9, <2>3, <2>4, TextUnits
<1>b. /\ parser.flags \subseteq parser'.flags
      /\ Unsized(m) => parser'.content_length = parser.content_length
      /\ "F_CHUNKED" \in parser'.flags => "F_CHUNKED" \in parser.flags
      /\ "F_TRAILING" \in parser'.flags => "F_TRAILING" \in parser.flags
  BY <1>6, <1>8 DEF SameLength
<1>c. Learned(m, i - 1, parser')
  <2>1. Unsized(m) => "F_CHUNKED" \notin parser.flags
    BY DEF Learned
  <2> QED
    BY <1>b, <2>1, LearnedOn
<1>d. parser'.header_state.phase # "h_name"
  BY <1>8, HeaderStateFields
<1>e. Unsized(m) => parser'.header_state # LengthNum /\ parser'.header_state.word # "chunked"
  <2>1. \A w : w \in ConnectionTokens => w # "chunked"
    BY DEF ConnectionTokens
  <2>2. General.word # "chunked" /\ Token.word # "chunked" /\ General # LengthNum /\ Token # LengthNum
    <3>1. General.word = "" /\ Token.word = ""
      BY HeaderStateFields DEF General, Token
    <3>2. General.phase # LengthNum.phase /\ Token.phase # LengthNum.phase
      BY HeaderStateFields
    <3> QED
      BY <3>1, <3>2
  <2>3. \A w \in ConnectionTokens : /\ HS("h_matching_value", w) # LengthNum
                                    /\ HS("h_matching_value", w).word # "chunked"
    BY <2>1, HeaderStateFields
  <2> QED
    BY <1>6, <1>8, <2>2, <2>3
<1>f. IsName(name, "upgrade") => "F_UPGRADE" \in parser'.flags
  BY <1>5, <1>8, HeaderStateFields, <1>4
<1>g. ASSUME PlainLists(m), IsConnection(m, i) PROVE Tracks(text, 1, parser'.header_state, parser'.flags)
  <2>1. ListOK(text)
    BY <1>g DEF PlainLists
  <2>2. parser'.header_state = IF text[1].h = 1 /\ Lower(text[1].w) \in ConnectionTokens
                               THEN HS("h_matching_value", Lower(text[1].w)) ELSE Token
    BY <1>4, <1>5, <1>8, <1>a, <1>g, HeaderStateFields
  <2> HIDE DEF text
  <2> QED
    BY <1>a, <2>1, <2>2, TrackStart
<1> QED
  BY <1>c, <1>d, <1>e, <1>f, <1>g DEF Sees, name

LEMMA UnderstandsBlank ==
  ASSUME NEW m, Scanning(m), NEW i \in 1 .. Count(m) + 1, KnownAt(m, i, parser, pos - 1), PassDiscardWs
  PROVE  Understood(m, parser', pos' - 1)
<1>1. /\ i \in 1..Count(m) /\ InLead(m, i, parser.state, pos - 1) /\ Learned(m, i - 1, parser)
      /\ parser.header_state = NameRead(NameOf(m, i), Len(NameOf(m, i)))
      /\ parser.state = "s_header_value_discard_ws" /\ at = "switch"
  BY KnownStates DEF PassDiscardWs, Turn
<1>2. \/ Like(parser', parser) /\ InLead(m, i, parser'.state, pos' - 1)
      \/ pos - 1 = LeadEnd(m, i) /\ ~EmptyValue(m, i) /\ StartValue
  BY <1>1, PassesBlank DEF Scanning
<1>3. CASE pos - 1 = LeadEnd(m, i) /\ ~EmptyValue(m, i) /\ StartValue
  <2>1. InText(m, i, parser'.state, pos' - 1) /\ pos = LeadEnd(m, i) + 1
    BY <1>1, <1>3, BeginsText DEF Scanning
  <2>2. SameLine(parser', parser) /\ pos' - 1 = pos
    BY <1>1, <1>3, BeginsValue DEF Scanning, ScanStates
  <2>3. Sees(m, i, 1, parser') /\ Learned(m, i - 1, parser')
    BY <1>1, <1>3, StartSees
  <2>4. (pos' - 1) - LeadEnd(m, i) = 1
    <3>1. LeadEnd(m, i) \in Nat
      BY <1>1, ScanningType, HeaderPlaces
    <3> QED
      BY <2>1, <2>2, <3>1
  <2>5. KnownHeader(m, i, parser', pos' - 1)
    BY <2>1, <2>3, <2>4 DEF KnownHeader
  <2> QED
    BY <1>1, <2>2, <2>3, <2>5, HeaderHere
<1> QED
  BY <1>1, <1>2, <1>3, UnderstandsLead

LEMMA UnderstandsBlankLine ==
  ASSUME NEW m, Scanning(m), NEW i \in 1 .. Count(m) + 1, KnownAt(m, i, parser, pos - 1),
         PassDiscardWsAlmostDone
  PROVE  Understood(m, parser', pos' - 1)
<1>1. parser.state = "s_header_value_discard_ws_almost_done"
  BY DEF PassDiscardWsAlmostDone, Expect, Turn
<1>2. /\ i \in 1..Count(m) /\ InLead(m, i, parser.state, pos - 1) /\ Learned(m, i - 1, parser)
      /\ parser.header_state = NameRead(NameOf(m, i), Len(NameOf(m, i)))
  BY <1>1, KnownStates
<1>3. Like(parser', parser) /\ InLead(m, i, parser'.state, pos' - 1)
  BY <1>2, EndsBlankLine DEF Scanning
<1> QED
  BY <1>2, <1>3, UnderstandsLead

(* A header without value teaches nothing.                                 *)
LEMMA UnderstandsEmpty ==
  ASSUME NEW m, Scanning(m), NEW i \in 1 .. Count(m) + 1, KnownAt(m, i, parser, pos - 1), PassDiscardLws
  PROVE  Understood(m, parser', pos' - 1)
<1>1. /\ i \in 1..Count(m) /\ InLead(m, i, parser.state, pos - 1) /\ Learned(m, i - 1, parser)
      /\ parser.header_state = NameRead(NameOf(m, i), Len(NameOf(m, i)))
  BY KnownStates DEF PassDiscardLws, Turn
<1>2. \/ Like(parser', parser) /\ InLead(m, i, parser'.state, pos' - 1)
      \/ /\ EmptyValue(m, i) /\ ~Folded(m, i)
         /\ EarnedAt("s_header_field_start", HeaderAt(m, i + 1))
  BY <1>1, EndsEmpty DEF Scanning
<1>3. CASE /\ EmptyValue(m, i) /\ ~Folded(m, i)
           /\ EarnedAt("s_header_field_start", HeaderAt(m, i + 1))
  <2>1. HeadOK(m)
    BY ScanningType
  <2>2. Earned(parser.header_state) = {}
    <3>1. NameRead(NameOf(m, i), Len(NameOf(m, i))).phase \in {"h_general", "h_matching", "h_name"}
      BY <1>1, <2>1, NameHere, NameMeans
    <3> QED
      BY <1>1, <3>1 DEF Earned
  <2>3. SameLength(parser', parser)
    BY <1>3, <2>2 DEF EarnedAt, SameLength
  <2>4. ~HasToken(Text(m, i), "upgrade")
    <3>1. Text(m, i) = <<>>
      BY <1>1, <1>3, <2>1, TextUnits DEF EmptyValue
    <3>2. \A k \in 1 .. Len(<<>>) - 1 : FALSE
      OBVIOUS
    <3> QED
      BY <3>1, <3>2 DEF HasToken
  <2>5. Learned(m, i, parser')
    <3>1. Learned(m, i - 1, parser')
      BY <1>1, <2>3, LearnedSame
    <3>2. \A j \in 1..i : j \in 1 .. i - 1 \/ j = i
      BY <1>1
    <3> QED
      BY <1>3, <2>4, <3>1, <3>2 DEF Learned
  <2> QED
    BY <1>1, <1>3, <2>5, HeaderNext
<1> QED
  BY <1>1, <1>2, <1>3, UnderstandsLead

(* One unit of a text, or the end of the read.                             *)
LEMMA UnderstandsUnit ==
  ASSUME NEW m, Scanning(m), NEW i \in 1..Count(m), Learned(m, i - 1, parser),
         NEW t \in Nat, t + 1 <= Len(Text(m, i)), Sees(m, i, t, parser), U = Text(m, i)[t + 1],
         parser'.flags = parser.flags \cup ValueFlags(parser.header_state, U),
         parser'.header_state = ValueUnit(parser.header_state, U),
         parser.header_state # LengthNum => parser'.content_length = parser.content_length
  PROVE  Sees(m, i, t + 1, parser') /\ Learned(m, i - 1, parser')
<1>1. HeadOK(m) /\ parser.header_state \in HeaderStates
  BY ScanningType
<1>2. Sees(m, i, t + 1, parser')
  BY <1>1, SeesUnit
<1>3. Unsized(m) => parser'.content_length = parser.content_length /\ "F_CHUNKED" \notin parser'.flags
  BY <1>1, WordsStay DEF Sees, Learned
<1>4. Learned(m, i - 1, parser')
  <2>1. "F_TRAILING" \in parser'.flags => "F_TRAILING" \in parser.flags
    BY <1>1, ValueFlagsTold
  <2> QED
    BY <1>3, <2>1, LearnedOn
<1> QED
  BY <1>2, <1>4

LEMMA UnderstandsText ==
  ASSUME NEW m, Scanning(m), NEW i \in 1..Count(m), Learned(m, i - 1, parser),
         InText(m, i, parser.state, pos - 1), Sees(m, i, (pos - 1) - LeadEnd(m, i), parser),
         PassHeaderValue
  PROVE  Understood(m, parser', pos' - 1)
<1> DEFINE t == (pos - 1) - LeadEnd(m, i)
<1>1. /\ SameLine(parser', parser) /\ ~EmptyValue(m, i)
      /\ \/ Went("s_header_value", pos - 1)
         \/ /\ InText(m, i, parser'.state, pos' - 1) /\ pos' - 1 = pos
            /\ U = ValueOf(m, i)[pos - LeadEnd(m, i)]
            /\ parser'.flags = parser.flags \cup ValueFlags(parser.header_state, U)
            /\ parser'.header_state = ValueUnit(parser.header_state, U)
            /\ parser.header_state # LengthNum => parser'.content_length = parser.content_length
         \/ Went("s_header_almost_done", FoldAt(m, i) - 1) /\ pos - 1 = ValueEnd(m, i)
  BY ReadsValue DEF Scanning
<1>2. /\ HeadOK(m) /\ LeadEnd(m, i) \in Nat /\ Len(ValueOf(m, i)) \in Nat /\ pos \in Nat
      /\ ValueEnd(m, i) = LeadEnd(m, i) + Len(ValueOf(m, i))
  BY ScanningType, HeaderPlaces DEF ValueEnd
<1>3. t \in Nat /\ pos - LeadEnd(m, i) = t + 1
  BY <1>2 DEF InText
<1>4. Sees(m, i, t, parser)
  OBVIOUS
<1>5. CASE Went("s_header_value", pos - 1)
  <2>1. Sees(m, i, (pos' - 1) - LeadEnd(m, i), parser')
    BY <1>5, SeesOn DEF Went, Like
  <2>2. KnownHeader(m, i, parser', pos' - 1)
    BY <1>5, <2>1 DEF KnownHeader, Went, InText
  <2>3. Learned(m, i - 1, parser')
    BY <1>5, LearnedSame DEF Went, Like
  <2> QED
    BY <1>1, <2>2, <2>3, HeaderHere
<1>6. CASE /\ InText(m, i, parser'.state, pos' - 1) /\ pos' - 1 = pos
           /\ U = ValueOf(m, i)[pos - LeadEnd(m, i)]
           /\ parser'.flags = parser.flags \cup ValueFlags(parser.header_state, U)
           /\ parser'.header_state = ValueUnit(parser.header_state, U)
           /\ parser.header_state # LengthNum => parser'.content_length = parser.content_length
  <2>1. (pos' - 1) - LeadEnd(m, i) = t + 1 /\ t + 1 \in 1..Len(ValueOf(m, i))
    BY <1>2, <1>3, <1>6 DEF InText
  <2> HIDE DEF t
  <2>2. /\ Text(m, i)[t + 1] = ValueOf(m, i)[t + 1]
        /\ Len(Text(m, i)) = Len(ValueOf(m, i)) + Len(FoldOf(m, i)) /\ Len(FoldOf(m, i)) \in Nat
    BY <1>2, <2>1, TextUnits
  <2>3. t + 1 <= Len(Text(m, i))
    BY <1>2, <1>3, <2>1, <2>2
  <2>4. U = Text(m, i)[t + 1]
    BY <1>3, <1>6, <2>2
  <2>5. Sees(m, i, t + 1, parser') /\ Learned(m, i - 1, parser')
    BY <1>3, <1>4, <1>6, <2>3, <2>4, UnderstandsUnit
  <2>6. KnownHeader(m, i, parser', pos' - 1)
    BY <1>6, <2>1, <2>5 DEF KnownHeader
  <2> QED
    BY <1>1, <2>5, <2>6, HeaderHere
<1>7. CASE Went("s_header_almost_done", FoldAt(m, i) - 1) /\ pos - 1 = ValueEnd(m, i)
  <2>1. t = Len(ValueOf(m, i))
    BY <1>2, <1>7
  <2>2. BehindText(m, i, parser'.state, pos' - 1)
    BY <1>1, <1>7 DEF BehindText, Went
  <2> HIDE DEF t
  <2>3. Sees(m, i, Len(ValueOf(m, i)), parser')
    BY <1>4, <1>7, <2>1, SeesOn DEF Went, Like
  <2>4. KnownHeader(m, i, parser', pos' - 1)
    BY <2>2, <2>3 DEF KnownHeader
  <2>5. Learned(m, i - 1, parser')
    BY <1>7, LearnedSame DEF Went, Like
  <2> QED
    BY <1>1, <2>4, <2>5, HeaderHere
<1> QED
  BY <1>1, <1>5, <1>6, <1>7

LEMMA UnderstandsFold ==
  ASSUME NEW m, Scanning(m), NEW i \in 1..Count(m), Learned(m, i - 1, parser),
         InFold(m, i, parser.state, pos - 1),
         Sees(m, i, Len(ValueOf(m, i)) + ((pos - 1) - FoldAt(m, i)), parser), PassHeaderValue
  PROVE  Understood(m, parser', pos' - 1)
<1> DEFINE n == Len(ValueOf(m, i))
           k == (pos - 1) - FoldAt(m, i)
           t == n + k
<1>1. /\ SameLine(parser', parser) /\ Folded(m, i)
      /\ \/ Went("s_header_value", pos - 1)
         \/ /\ InFold(m, i, parser'.state, pos' - 1) /\ pos' - 1 = pos
            /\ U = FoldOf(m, i)[pos - FoldAt(m, i)]
            /\ parser'.flags = parser.flags \cup ValueFlags(parser.header_state, U)
            /\ parser'.header_state = ValueUnit(parser.header_state, U)
            /\ parser.header_state # LengthNum => parser'.content_length = parser.content_length
         \/ /\ Went("s_header_almost_done", FoldEnd(m, i) + Len(Eol(m)) - 1)
            /\ pos - 1 = FoldEnd(m, i)
  BY ReadsFold DEF Scanning
<1>2. /\ HeadOK(m) /\ FoldAt(m, i) \in Nat /\ n \in Nat /\ Len(FoldOf(m, i)) \in Nat /\ pos \in Nat
      /\ FoldEnd(m, i) = FoldAt(m, i) + Len(FoldOf(m, i))
  BY ScanningType, HeaderPlaces DEF FoldEnd
<1>3. k \in Nat /\ t \in Nat /\ pos - FoldAt(m, i) = k + 1 /\ t + 1 = n + (k + 1)
  BY <1>2 DEF InFold
<1>4. Sees(m, i, t, parser)
  OBVIOUS
<1>5. CASE Went("s_header_value", pos - 1)
  <2>1. Sees(m, i, n + ((pos' - 1) - FoldAt(m, i)), parser')
    BY <1>5, SeesOn DEF Went, Like
  <2>2. KnownHeader(m, i, parser', pos' - 1)
    BY <1>5, <2>1 DEF KnownHeader, Went, InFold
  <2>3. Learned(m, i - 1, parser')
    BY <1>5, LearnedSame DEF Went, Like
  <2> QED
    BY <1>1, <2>2, <2>3, HeaderHere
<1>6. CASE /\ InFold(m, i, parser'.state, pos' - 1) /\ pos' - 1 = pos
           /\ U = FoldOf(m, i)[pos - FoldAt(m, i)]
           /\ parser'.flags = parser.flags \cup ValueFlags(parser.header_state, U)
           /\ parser'.header_state = ValueUnit(parser.header_state, U)
           /\ parser.header_state # LengthNum => parser'.content_length = parser.content_length
  <2>1. (pos' - 1) - FoldAt(m, i) = k + 1 /\ k + 1 \in 1..Len(FoldOf(m, i))
    <3>1. (pos' - 1) - FoldAt(m, i) = k + 1
      BY <1>3, <1>6
    <3>2. k + 1 <= Len(FoldOf(m, i))
      <4>1. pos' - 1 <= FoldAt(m, i) + Len(FoldOf(m, i))
        BY <1>2, <1>6 DEF InFold
      <4> QED
        BY <1>2, <1>6, <4>1
    <3> HIDE DEF k
    <3> QED
      BY <1>2, <1>3, <3>1, <3>2
  <2>2. /\ Text(m, i)[n + (k + 1)] = FoldOf(m, i)[k + 1]
        /\ Len(Text(m, i)) = n + Len(FoldOf(m, i))
    BY <1>2, <2>1, TextUnits
  <2>3. t + 1 <= Len(Text(m, i))
    BY <1>2, <1>3, <2>1, <2>2
  <2>4. U = Text(m, i)[t + 1]
    BY <1>3, <1>6, <2>2
  <2> HIDE DEF t
  <2>5. Sees(m, i, t + 1, parser') /\ Learned(m, i - 1, parser')
    BY <1>3, <1>4, <1>6, <2>3, <2>4, UnderstandsUnit
  <2>6. Sees(m, i, n + ((pos' - 1) - FoldAt(m, i)), parser')
    BY <1>3, <2>1, <2>5
  <2>7. KnownHeader(m, i, parser', pos' - 1)
    BY <1>6, <2>6 DEF KnownHeader
  <2> QED
    BY <1>1, <2>5, <2>7, HeaderHere
<1>7. CASE /\ Went("s_header_almost_done", FoldEnd(m, i) + Len(Eol(m)) - 1)
           /\ pos - 1 = FoldEnd(m, i)
  <2>1. t = Len(Text(m, i))
    <3>1. Len(Text(m, i)) = n + Len(FoldOf(m, i))
      BY <1>2, TextUnits
    <3> QED
      BY <1>2, <1>7, <3>1
  <2>2. BehindFold(m, i, parser'.state, pos' - 1)
    BY <1>1, <1>7 DEF BehindFold, Went
  <2> HIDE DEF t
  <2>3. Sees(m, i, Len(Text(m, i)), parser')
    BY <1>4, <1>7, <2>1, SeesOn DEF Went, Like
  <2>4. KnownHeader(m, i, parser', pos' - 1)
    BY <2>2, <2>3 DEF KnownHeader
  <2>5. Learned(m, i - 1, parser')
    BY <1>7, LearnedSame DEF Went, Like
  <2> QED
    BY <1>1, <2>4, <2>5, HeaderHere
<1> QED
  BY <1>1, <1>5, <1>6, <1>7

LEMMA UnderstandsValue ==
  ASSUME NEW m, Scanning(m), NEW i \in 1 .. Count(m) + 1, KnownAt(m, i, parser, pos - 1), PassHeaderValue
  PROVE  Understood(m, parser', pos' - 1)
<1>1. parser.state = "s_header_value"
  BY DEF PassHeaderValue, Turn
<1>2. /\ i \in 1..Count(m) /\ Learned(m, i - 1, parser)
      /\ \/ InText(m, i, parser.state, pos - 1) /\ Sees(m, i, (pos - 1) - LeadEnd(m, i), parser)
         \/ /\ InFold(m, i, parser.state, pos - 1)
            /\ Sees(m, i, Len(ValueOf(m, i)) + ((pos - 1) - FoldAt(m, i)), parser)
  BY <1>1, KnownStates
<1> QED
  BY <1>2, UnderstandsText, UnderstandsFold

(* Behind a text. *)
LEMMA UnderstandsTextEnd ==
  ASSUME NEW m, Scanning(m), NEW i \in 1 .. Count(m) + 1, KnownAt(m, i, parser, pos - 1),
         PassHeaderAlmostDone
  PROVE  Understood(m, parser', pos' - 1)
<1>1. parser.state = "s_header_almost_done"
  BY DEF PassHeaderAlmostDone, Expect, Turn
<1>2. /\ i \in 1..Count(m) /\ Learned(m, i - 1, parser)
      /\ \/ BehindText(m, i, parser.state, pos - 1) /\ Sees(m, i, Len(ValueOf(m, i)), parser)
         \/ BehindFold(m, i, parser.state, pos - 1) /\ Sees(m, i, Len(Text(m, i)), parser)
  BY <1>1, KnownStates
<1>3. /\ Like(parser', parser)
      /\ BehindText(m, i, parser.state, pos - 1) => BehindText(m, i, parser'.state, pos' - 1)
      /\ BehindFold(m, i, parser.state, pos - 1) => BehindFold(m, i, parser'.state, pos' - 1)
  BY <1>2, EndsText DEF Scanning
<1>4. /\ \A t : Sees(m, i, t, parser) => Sees(m, i, t, parser')
      /\ Learned(m, i - 1, parser')
  BY <1>2, <1>3, SeesOn, LearnedSame DEF Like
<1>5. KnownHeader(m, i, parser', pos' - 1)
  BY <1>2, <1>3, <1>4 DEF KnownHeader
<1> QED
  BY <1>2, <1>3, <1>4, <1>5, HeaderHere DEF Like

LEMMA HeaderEnds ==
  ASSUME NEW m, Scanning(m), NEW i \in 1..Count(m), Learned(m, i - 1, parser),
         Sees(m, i, Len(Text(m, i)), parser), EarnedAt("s_header_field_start", HeaderAt(m, i + 1))
  PROVE  Understood(m, parser', pos' - 1)
<1>1. HeadOK(m) /\ parser.header_state \in HeaderStates
  BY ScanningType
<1>2. Learned(m, i, parser')
  BY <1>1, LearnsHeader DEF EarnedAt
<1> QED
  BY <1>2, HeaderNext

LEMMA UnderstandsLws ==
  ASSUME NEW m, Scanning(m), NEW i \in 1 .. Count(m) + 1, KnownAt(m, i, parser, pos - 1), PassValueLws
  PROVE  Understood(m, parser', pos' - 1)
<1>1. parser.state = "s_header_value_lws"
  BY DEF PassValueLws, Turn
<1>2. /\ i \in 1..Count(m) /\ Learned(m, i - 1, parser) /\ HeadOK(m)
      /\ \/ BehindText(m, i, parser.state, pos - 1) /\ Sees(m, i, Len(ValueOf(m, i)), parser)
         \/ BehindFold(m, i, parser.state, pos - 1) /\ Sees(m, i, Len(Text(m, i)), parser)
  BY <1>1, KnownStates, ScanningType
<1>3. CASE BehindFold(m, i, parser.state, pos - 1) /\ Sees(m, i, Len(Text(m, i)), parser)
  BY <1>2, <1>3, EndsFold, HeaderEnds DEF Scanning
<1>4. CASE BehindText(m, i, parser.state, pos - 1) /\ Sees(m, i, Len(ValueOf(m, i)), parser)
  <2>1. \/ ~Folded(m, i) /\ EarnedAt("s_header_field_start", HeaderAt(m, i + 1))
        \/ /\ BehindText(m, i, parser'.state, pos' - 1)
           /\ SameLine(parser', parser) /\ SameLength(parser', parser)
           /\ parser'.header_state =
                IF parser.header_state = LengthNum THEN LengthWs ELSE parser.header_state
    BY <1>2, <1>4, LooksForFold DEF Scanning
  <2>2. CASE ~Folded(m, i) /\ EarnedAt("s_header_field_start", HeaderAt(m, i + 1))
    <3>1. Len(Text(m, i)) = Len(ValueOf(m, i))
      BY <1>2, <2>2, TextUnits
    <3> QED
      BY <1>2, <1>4, <2>2, <3>1, HeaderEnds
  <2>3. CASE /\ BehindText(m, i, parser'.state, pos' - 1)
             /\ SameLine(parser', parser) /\ SameLength(parser', parser)
             /\ parser'.header_state =
                  IF parser.header_state = LengthNum THEN LengthWs ELSE parser.header_state
    <3> DEFINE n == Len(ValueOf(m, i))
    <3>1. Sees(m, i, n, parser')
      <4> HIDE DEF n
      <4>1. Sees(m, i, n, parser)
        BY <1>4 DEF n
      <4>2. CASE parser.header_state # LengthNum
        BY <2>3, <4>1, <4>2, SeesOn
      <4>3. CASE parser.header_state = LengthNum
        <5>1. ~Tracks(Text(m, i), n, LengthNum, parser.flags)
          BY HeaderStateFields DEF Tracks
        <5>2. LengthWs.phase # "h_name"
          BY HeaderStateFields
        <5> QED
          BY <2>3, <4>1, <4>3, <5>1, <5>2 DEF Sees, SameLength
      <4> QED
        BY <4>2, <4>3
    <3>4. Learned(m, i - 1, parser')
      BY <1>2, <2>3, LearnedSame
    <3>5. KnownHeader(m, i, parser', pos' - 1)
      BY <2>3, <3>1 DEF KnownHeader
    <3> QED
      BY <1>2, <2>3, <3>4, <3>5, HeaderHere
  <2> QED
    BY <2>1, <2>2, <2>3
<1> QED
  BY <1>2, <1>3, <1>4

(* A fold begins with a blank; in a plain list it is behind a comma.       *)
LEMMA FoldSees ==
  ASSUME NEW m, Scanning(m), NEW i \in 1..Count(m), Learned(m, i - 1, parser), Folded(m, i),
         Sees(m, i, Len(ValueOf(m, i)), parser), at = "switch", StartValue,
         parser.state = "s_header_value_start"
  PROVE  Sees(m, i, Len(ValueOf(m, i)) + 1, parser') /\ Learned(m, i - 1, parser')
<1> DEFINE hs == parser.header_state
           n == Len(ValueOf(m, i))
           text == Text(m, i)
<1>1. HeadOK(m) /\ hs \in HeaderStates /\ parser.state \notin ScanStates
  BY ScanningType DEF ScanStates
<1>2. hs.phase # "h_name" /\ \A w : hs # HS("h_name", w)
  BY HeaderStateFields DEF Sees
<1>3. /\ SameLength(parser', parser)
      /\ \/ hs \in {LengthWs, TokenStart} /\ parser'.header_state = hs
         \/ hs \notin {LengthWs, TokenStart} /\ parser'.header_state = General
  BY <1>1, <1>2, BeginsValue DEF Scanning, Like, SameLength
<1>4. Learned(m, i - 1, parser')
  BY <1>3, LearnedSame
<1>5. /\ parser'.header_state.phase # "h_name"
      /\ Unsized(m) => parser'.header_state # LengthNum /\ parser'.header_state.word # "chunked"
  <2>1. General.phase # "h_name" /\ General # LengthNum /\ General.word # "chunked"
    <3>1. General.word = ""
      BY HeaderStateFields DEF General
    <3> QED
      BY <3>1, HeaderStateFields
  <2> QED
    BY <1>2, <1>3, <2>1 DEF Sees
<1>6. IsName(NameOf(m, i), "upgrade") => "F_UPGRADE" \in parser'.flags
  BY <1>3 DEF Sees, SameLength
<1>7. ASSUME PlainLists(m), IsConnection(m, i)
      PROVE  Tracks(text, n + 1, parser'.header_state, parser'.flags)
  <2>1. /\ ListOK(text) /\ AtElement(ValueOf(m, i), n)
        /\ Tracks(text, n, hs, parser.flags)
    BY <1>7 DEF PlainLists, Sees
  <2>2. AtElement(text, n)
    BY <1>1, <2>1, TextElement
  <2>3. hs = TokenStart
    BY <2>2, <2>1 DEF Tracks
  <2>4. /\ Len(text) \in Nat /\ DOMAIN text = 1..Len(text) /\ n \in Nat
        /\ Len(text) = n + Len(FoldOf(m, i)) /\ Len(FoldOf(m, i)) \in Nat
    BY <1>1, TextUnits
  <2>5. FoldOf(m, i) # <<>> /\ IsBlank(FoldOf(m, i)[1]) /\ Len(FoldOf(m, i)) # 0
    <3>1. FoldOf(m, i) # <<>> /\ FoldOf(m, i) \in Seq(Sign)
      BY <1>1, HeaderTypes DEF Folded
    <3>2. HeaderOK(m.headers[i])
      BY <1>1, HeadersType DEF HeadOK
    <3> QED
      BY <3>1, <3>2 DEF HeaderOK, FoldOf
  <2>6. 1 \in 1..Len(FoldOf(m, i)) /\ n + 1 \in 1..Len(text)
    BY <2>4, <2>5
  <2>7. IsBlank(text[n + 1])
    BY <1>1, <2>5, <2>6, TextUnits
  <2> HIDE DEF text, n
  <2>8. n + 1 \in DOMAIN text
    BY <2>4, <2>6
  <2>9. text[n + 1] = SP
    BY <2>1, <2>4, <2>7, <2>8, ListUnits
  <2>a. ValueUnit(TokenStart, text[n + 1]) = TokenStart
    BY <2>9, HeaderStateNames, UnitEffects, TokenEffects
  <2>b. parser.flags \cup ValueFlags(TokenStart, text[n + 1]) = parser.flags
    BY HeaderStateFields DEF ValueFlags
  <2>c. Tracks(text, n + 1, ValueUnit(hs, text[n + 1]), parser.flags \cup ValueFlags(hs, text[n + 1]))
    BY <1>1, <2>1, <2>4, <2>8, TrackStep
  <2>d. Tracks(text, n + 1, TokenStart, parser.flags)
    BY <2>3, <2>a, <2>b, <2>c
  <2> QED
    BY <1>3, <2>3, <2>d DEF SameLength
<1> QED
  BY <1>4, <1>5, <1>6, <1>7 DEF Sees

LEMMA UnderstandsFoldStart ==
  ASSUME NEW m, Scanning(m), NEW i \in 1 .. Count(m) + 1, KnownAt(m, i, parser, pos - 1), PassValueStart
  PROVE  Understood(m, parser', pos' - 1)
<1>1. parser.state = "s_header_value_start" /\ at = "switch"
  BY DEF PassValueStart, Turn
<1>2. /\ i \in 1..Count(m) /\ Learned(m, i - 1, parser)
      /\ BehindText(m, i, parser.state, pos - 1) /\ Sees(m, i, Len(ValueOf(m, i)), parser)
  BY <1>1, KnownStates
<1>3. InFold(m, i, parser'.state, pos' - 1) /\ pos - 1 = FoldAt(m, i) /\ StartValue
  BY <1>2, BeginsFold DEF Scanning
<1>4. Folded(m, i)
  BY <1>1, <1>2 DEF BehindText
<1>5. Sees(m, i, Len(ValueOf(m, i)) + 1, parser') /\ Learned(m, i - 1, parser')
  BY <1>1, <1>2, <1>3, <1>4, FoldSees
<1>6. SameLine(parser', parser) /\ pos' - 1 = pos
  BY <1>1, <1>3, BeginsValue DEF Scanning, ScanStates
<1>7. (pos' - 1) - FoldAt(m, i) = 1
  <2>1. FoldAt(m, i) \in Nat /\ pos \in Nat
    BY <1>2, ScanningType, HeaderPlaces
  <2> QED
    BY <1>3, <1>6, <2>1
<1>8. KnownHeader(m, i, parser', pos' - 1)
  BY <1>3, <1>5, <1>7 DEF KnownHeader
<1> QED
  BY <1>2, <1>5, <1>6, <1>8, HeaderHere

(* A pass over the headers keeps the understanding.                        *)
LEMMA UnderstandsHeaders ==
  ASSUME NEW m, Scanning(m), NEW i \in 1 .. Count(m) + 1, KnownAt(m, i, parser, pos - 1), Headers
  PROVE  Understood(m, parser', pos' - 1)
BY UnderstandsStart, UnderstandsName, UnderstandsBlank, UnderstandsFoldStart, UnderstandsValue,
   UnderstandsTextEnd, UnderstandsLws, UnderstandsBlankLine, UnderstandsEmpty DEF Headers

-----------------------------------------------------------------------------
(* The length of a head.                                                   *)

LEMMA LengthOfHead ==
  ASSUME NEW t, NEW b, NEW w, NEW s, NEW u, NEW v, NEW e, NEW r, OfHead(t, b, w, s, u, v, e, r)
  PROVE  Len(t) = HeadersFrom(b, u, v, e) + Len(r)
<1>1. /\ b \in Seq(Sign) /\ w \in Seq(Sign) /\ Len(w) = 2 /\ s \in Seq(Sign) /\ Len(s) = 1
      /\ u \in Seq(Sign) /\ v \in Seq(Sign) /\ e \in Seq(Sign) /\ r \in Seq(Sign)
      /\ t = b \o w \o s \o u \o v \o e \o r
  BY DEF OfHead
<1>2. \A x, y \in Seq(Sign) : x \o y \in Seq(Sign) /\ Len(x \o y) = Len(x) + Len(y)
  OBVIOUS
<1>3. b \o w \in Seq(Sign) /\ Len(b \o w) = Len(b) + 2
  <2>1. b \o w \in Seq(Sign) /\ Len(b \o w) = Len(b) + Len(w)
    BY <1>1, <1>2, Zenon
  <2> QED
    BY <1>1, <2>1
<1>4. b \o w \o s \in Seq(Sign) /\ Len(b \o w \o s) = Len(b) + 2 + 1
  BY <1>1, <1>2, <1>3
<1>5. b \o w \o s \o u \in Seq(Sign) /\ Len(b \o w \o s \o u) = Len(b) + 2 + 1 + Len(u)
  BY <1>1, <1>2, <1>4
<1>6. /\ b \o w \o s \o u \o v \in Seq(Sign)
      /\ Len(b \o w \o s \o u \o v) = Len(b) + 2 + 1 + Len(u) + Len(v)
  BY <1>1, <1>2, <1>5
<1>7. /\ b \o w \o s \o u \o v \o e \in Seq(Sign)
      /\ Len(b \o w \o s \o u \o v \o e) = Len(b) + 2 + 1 + Len(u) + Len(v) + Len(e)
  BY <1>1, <1>2, <1>6
<1>8. Len(t) = Len(b) + 2 + 1 + Len(u) + Len(v) + Len(e) + Len(r)
  BY <1>1, <1>2, <1>7
<1>9. Len(b) + 2 + 1 = Len(b) + 3
  BY <1>1
<1> QED
  BY <1>8, <1>9 DEF HeadersFrom, LineTo, UrlTo

LEMMA HeadLength ==
  ASSUME NEW m, HeadOK(m), m.body.kind = "none"
  PROVE  Len(Write(m)) = HeadEnd(m)
<1> DEFINE lines == Lines(m, Count(m))
<1>1. lines \in Seq(Sign) /\ Eol(m) \in Seq(Sign) /\ HeadersAt(m) \in Nat
  BY LinesText, HeadersType, EolType, LineOffsets DEF Eol
<1>2. Len(lines \o Eol(m)) = Len(lines) + Len(Eol(m))
  BY <1>1
<1>3. Len(WriteHead(m)) = HeadersAt(m) + Len(lines \o Eol(m))
  <2> DEFINE rest == lines \o Eol(m)
  <2>1. OfHead(WriteHead(m), m.before, Word(m.method), <<SP>>, Url(m), WriteVersion(m), Eol(m), rest)
    BY HeadParts
  <2> HIDE DEF rest
  <2>2. Len(WriteHead(m)) = HeadersFrom(m.before, Url(m), WriteVersion(m), Eol(m)) + Len(rest)
    BY <2>1, LengthOfHead
  <2> QED
    BY <2>2, LineOffsets DEF rest
<1>4. HeadEnd(m) = HeadersAt(m) + Len(lines) + Len(Eol(m))
  <2>1. (Count(m) + 1) - 1 = Count(m)
    BY HeadersType
  <2> QED
    BY <2>1 DEF HeadEnd, HeaderAt
<1>5. Len(WriteHead(m)) = HeadEnd(m)
  BY <1>1, <1>2, <1>3, <1>4
<1>6. WriteHead(m) \in Seq(Sign)
  BY HeadParts, TextOfHead, Zenon
<1>7. WriteBody(m.body) = <<>>
  BY DEF WriteBody
<1>8. Write(m) = WriteHead(m)
  BY <1>6, <1>7, JoinedNone DEF Write
<1> QED
  BY <1>5, <1>8
=============================================================================
