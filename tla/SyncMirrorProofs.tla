--------------------------- MODULE SyncMirrorProofs ---------------------------
(***************************************************************************)
(* Proofs about SyncMirror: for any tables, page size and bounds, whatever   *)
(* fails and whenever the app is killed, a device that only pulls misses     *)
(* nothing up to its cursor, in memory and in what the next start finds, and *)
(* keeps acknowledged effects on screen; and an audit, whatever pulls run    *)
(* beside it, never stages a mirror with holes.                              *)
(***************************************************************************)
EXTENDS SyncMirror, FiniteSetTheorems, WellFoundedInduction, TLAPS

Rows == [Row -> Nat \cup {Absent}]
Copies == [mirror : Rows, cursor : Nat]
Reply == [reset : BOOLEAN, rows : Rows, cursor : Nat, more : BOOLEAN]

-------------------------------------------------------------------------------
(* The least and the greatest of some numbers *)

LEMMA Least ==
    ASSUME NEW S, S \subseteq Nat, S # {}
    PROVE  \E m \in S : \A n \in S : m <= n
  <1>1. PICK m \in S : \A n \in S : ~(<<n, m>> \in OpToRel(<, Nat))
    BY NatLessThanWellFounded, WFMin
  <1>2. \A n \in S : ~(n < m)
    BY <1>1 DEF OpToRel
  <1>3. QED
    BY <1>2

LEMMA Highest ==
    ASSUME NEW S, S \subseteq Int, NEW floor \in Int, NEW top \in Int, floor <= top,
           \A r \in S : r <= top
    PROVE  /\ highest(S, floor) \in S \cup {floor}
           /\ \A r \in S \cup {floor} : r <= highest(S, floor)
  <1> DEFINE all == S \cup {floor}
             down == {top - r : r \in all}
  <1>1. down \subseteq Nat /\ down # {}
    OBVIOUS
  <1>2. PICK d \in down : \A n \in down : d <= n
    BY <1>1, Least
  <1>3. PICK r \in all : d = top - r
    OBVIOUS
  <1>4. \A q \in all : q <= r
    <2> SUFFICES ASSUME NEW q \in all PROVE q <= r
      OBVIOUS
    <2>1. top - q \in down
      OBVIOUS
    <2>2. top - r <= top - q
      BY <1>2, <1>3, <2>1
    <2>3. QED
      BY <2>2
  <1>5. QED
    BY <1>3, <1>4 DEF highest

-------------------------------------------------------------------------------
(* The server's pages *)

(* Every row has a revision the server has reached. *)
Numbered == rev \in Nat /\ rowRev \in Rows /\ \A x \in Row : rowRev[x] <= rev

below(t, lower, x) == {y \in above(t, lower) : rowRev[y] < rowRev[x]}

LEMMA Below ==
    ASSUME NEW t \in Table, NEW lower \in Int, NEW x \in Row
    PROVE  /\ IsFiniteSet(above(t, lower)) /\ Cardinality(above(t, lower)) \in Nat
           /\ IsFiniteSet(below(t, lower, x)) /\ Cardinality(below(t, lower, x)) \in Nat
           /\ Cardinality(below(t, lower, x)) <= Cardinality(above(t, lower))
  <1>1. above(t, lower) \subseteq Row
    BY DEF above, Row
  <1>2. IsFiniteSet(above(t, lower))
    BY <1>1, MirrorAssumption, FS_Subset
  <1>3. below(t, lower, x) \subseteq above(t, lower)
    BY DEF below
  <1>4. QED
    BY <1>2, <1>3, FS_Subset, FS_CardinalityType

(* A page that has a row has every earlier one: no revision is torn apart.   *)
LEMMA PageWhole ==
    ASSUME Numbered, NEW t \in Table, NEW lower \in Int,
           NEW x \in above(t, lower), NEW y \in page(t, lower), rowRev[x] <= rowRev[y]
    PROVE  x \in page(t, lower)
  <1>1. x \in Row /\ y \in Row /\ y \in above(t, lower)
    BY DEF above, page, Row
  <1>2. Cardinality(below(t, lower, y)) < PAGE_SIZE
    BY DEF page, below
  <1>3. below(t, lower, x) \subseteq below(t, lower, y)
    <2> SUFFICES ASSUME NEW z \in below(t, lower, x) PROVE z \in below(t, lower, y)
      OBVIOUS
    <2>1. z \in above(t, lower) /\ rowRev[z] < rowRev[x] /\ z \in Row
      BY DEF below, above, Row
    <2>2. rowRev[z] \in Int /\ rowRev[x] \in Int /\ rowRev[y] \in Int
      BY <1>1, <2>1 DEF Numbered, Rows, Absent
    <2>3. QED
      BY <2>1, <2>2 DEF below
  <1>4. Cardinality(below(t, lower, x)) <= Cardinality(below(t, lower, y))
    BY <1>1, <1>3, Below, FS_Subset
  <1>5. Cardinality(below(t, lower, x)) < PAGE_SIZE
    BY <1>1, <1>2, <1>4, Below, MirrorAssumption
  <1>6. QED
    BY <1>5 DEF page, below

(* A table that is not cut is sent whole. *)
LEMMA PageAll ==
    ASSUME NEW t \in Table, NEW lower \in Int, ~truncated(t, lower)
    PROVE  page(t, lower) = above(t, lower)
  <1> SUFFICES ASSUME NEW x \in above(t, lower) PROVE x \in page(t, lower)
    BY DEF page
  <1>1. x \in Row
    BY DEF above, Row
  <1>2. Cardinality(below(t, lower, x)) < PAGE_SIZE
    BY <1>1, Below, MirrorAssumption DEF truncated
  <1>3. QED
    BY <1>2 DEF page, below

(* The first page has the rows of revision 0. *)
LEMMA PageZero ==
    ASSUME Numbered, NEW t \in Table, NEW x \in above(t, -1), rowRev[x] = 0
    PROVE  x \in page(t, -1)
  <1>1. below(t, -1, x) = {}
    <2> SUFFICES ASSUME NEW z \in below(t, -1, x) PROVE FALSE
      OBVIOUS
    <2>1. z \in Row /\ rowRev[z] > -1 /\ rowRev[z] < 0
      BY DEF below, above, Row
    <2>2. rowRev[z] \in Int
      BY <2>1 DEF Numbered, Rows, Absent
    <2>3. QED
      BY <2>1, <2>2
  <1>2. PAGE_SIZE \in Nat /\ PAGE_SIZE # 0
    BY MirrorAssumption
  <1>3. Cardinality(below(t, -1, x)) = 0
    BY <1>1, FS_EmptySet
  <1>4. Cardinality(below(t, -1, x)) < PAGE_SIZE
    BY <1>2, <1>3
  <1>5. QED
    BY <1>4 DEF page, below

(* How far the rows read of a table reach: as far as one of them, or not     *)
(* beyond where the request began.                                           *)
LEMMA Reach ==
    ASSUME NEW r, NEW t \in Table, NEW top \in Nat, r.since \in Nat, r.since <= top,
           r.reply.rows \in Rows, \A x \in Row : r.reply.rows[x] <= top
    PROVE  /\ reach(r, t) \in Nat /\ r.since <= reach(r, t) /\ reach(r, t) <= top
           /\ \A x \in t : r.reply.rows[x] <= reach(r, t)
           /\ reach(r, t) = r.since \/ \E x \in t : reach(r, t) = r.reply.rows[x]
  <1> DEFINE S == {r.reply.rows[x] : x \in t}
             c == r.since
             m == reach(r, t)
  <1>1. \A x \in t : x \in Row
    BY DEF Row
  <1>2. S \subseteq Int /\ \A q \in S : q <= top
    BY <1>1 DEF Rows, Absent
  <1>3. m = highest(S, c) /\ c \in Int /\ top \in Int /\ c <= top
    BY DEF reach
  <1> HIDE DEF S, m, c
  <1>4. m \in S \cup {c} /\ \A q \in S \cup {c} : q <= m
    BY <1>2, <1>3, Highest
  <1>5. c \in Nat /\ c <= m /\ m <= top /\ m \in Int
    <2>1. c \in Nat
      BY DEF c
    <2>2. QED
      BY <1>2, <1>3, <1>4, <2>1
  <1>6. \A x \in t : r.reply.rows[x] <= m
    BY <1>4 DEF S
  <1>7. m = c \/ \E x \in t : m = r.reply.rows[x]
    BY <1>4 DEF S
  <1>8. QED
    BY <1>5, <1>6, <1>7 DEF m, c

(* The least of how far the tables reach that were cut. *)
LEMMA CutCursor ==
    ASSUME NEW r, r.cut \subseteq Table, r.cut # {}, \A t \in r.cut : reach(r, t) \in Nat
    PROVE  /\ \E t \in r.cut : nextDeltaCursor(r) = reach(r, t)
           /\ \A t \in r.cut : nextDeltaCursor(r) <= reach(r, t)
  <1> DEFINE safe == {reach(r, t) : t \in r.cut}
             n == nextDeltaCursor(r)
  <1>1. safe \subseteq Nat /\ safe # {}
    OBVIOUS
  <1>2. PICK l \in safe : \A q \in safe : l <= q
    BY <1>1, Least
  <1>3. n = CHOOSE k \in safe : \A t \in r.cut : k <= reach(r, t)
    BY DEF nextDeltaCursor
  <1>4. \A t \in r.cut : l <= reach(r, t)
    BY <1>2
  <1>5. n \in safe /\ \A t \in r.cut : n <= reach(r, t)
    <2> HIDE DEF n, safe
    <2>1. QED
      BY <1>2, <1>3, <1>4
  <1>6. QED
    BY <1>5

(* Nothing was cut: the cursor has caught up with the server. *)
LEMMA WholeCursor ==
    ASSUME NEW r, NEW top \in Nat, r.cut = {}, r.since \in Nat, r.since <= top,
           r.reply.rows \in Rows, \A x \in Row : r.reply.rows[x] <= top,
           r.reply.cursor \in Nat, r.since <= r.reply.cursor, r.reply.cursor <= top
    PROVE  nextDeltaCursor(r) \in Nat /\ r.since <= nextDeltaCursor(r) /\ nextDeltaCursor(r) <= top
  <1> DEFINE S == {reach(r, t) : t \in Table}
             c == r.reply.cursor
             n == nextDeltaCursor(r)
  <1>1. S \subseteq Int /\ \A q \in S : q <= top
    BY Reach
  <1>2. n = highest(S, c) /\ c \in Int /\ top \in Int /\ c <= top
    BY DEF nextDeltaCursor
  <1> HIDE DEF S, n
  <1>3. n \in S \cup {c} /\ \A q \in S \cup {c} : q <= n
    <2> HIDE DEF c
    <2>1. QED
      BY <1>1, <1>2, Highest
  <1>4. n <= top /\ c <= n /\ n \in Int
    BY <1>1, <1>2, <1>3
  <1>5. n \in Nat /\ r.since <= n
    BY <1>4
  <1>6. QED
    BY <1>4, <1>5 DEF n

-------------------------------------------------------------------------------
(* What a device has *)

(* Of every row up to revision c, m has the current version: with respect to *)
(* any revisions rr of the rows, and to those of the server.                 *)
Shown(m, c, rr) == \A x \in Row : rr[x] \in 0..c => m[x] = rr[x]
holds(m, c) == Shown(m, c, rowRev)

-------------------------------------------------------------------------------
(* A request for a delta, statement by statement *)

RequestPC == {"idle", "asked", "reading", "cut", "answered", "storing", "stored", "stalled"}
Serving == {"asked", "reading", "cut", "answered"}
Pulling == [pc : RequestPC, since : Nat, afterZero : BOOLEAN, reply : Reply,
            cut : SUBSET Table, left : SUBSET Table, saved : BOOLEAN]
Auditing == [pc : RequestPC, since : Nat, afterZero : BOOLEAN, reply : Reply,
             cut : SUBSET Table, left : SUBSET Table, snapshot : Rows, saved : BOOLEAN]

Lower(r) == lowerRev(r.since, r.afterZero)

(* The rows of r are versions of the server's that take none of m back.      *)
Fresh(m, rows, rr) == \A x \in Row : rows[x] # Absent => m[x] <= rows[x] /\ rows[x] <= rr[x]

(* What has been read of tables of which some were cut: everything asked for *)
(* up to the table that reaches least far.                                   *)
Partial(r, rr, top) ==
    /\ r.cut # {}
    /\ \A t \in r.cut : reach(r, t) \in Nat /\ reach(r, t) <= top
    /\ \A x \in Row :
          /\ Lower(r) < rr[x]
          /\ \A t \in r.cut : rr[x] <= reach(r, t)
          => r.reply.rows[x] = rr[x]

(* A request made by who holds m: what m has of the rows it does not ask     *)
(* for, and what it has read of the others.                                  *)
Asking(m, r, rr, top) ==
    LET next == r.reply.cursor
        brought == merge(m, r.reply.rows)
    IN  /\ r.since <= top
        /\ r.since > 0 => Shown(m, r.since, rr)
        /\ r.afterZero => r.since = 0 /\ Shown(m, 0, rr)
        /\ ~r.reply.reset
        /\ r.pc = "reading" => r.since <= next /\ next <= top
        /\ r.pc = "cut" => Fresh(m, r.reply.rows, rr) /\ Partial(r, rr, top)
        /\ r.pc = "answered" =>
              /\ r.since <= next /\ next <= top
              /\ Shown(brought, next, rr)
              /\ \A x \in Row : m[x] <= brought[x] /\ brought[x] <= rr[x]

(* Only these rows and numbers are in a request. *)
LEMMA RequestFields ==
    ASSUME NEW r, r \in Pulling \/ r \in Auditing
    PROVE  /\ r.pc \in RequestPC /\ r.since \in Nat /\ r.afterZero \in BOOLEAN
           /\ r.reply \in Reply /\ r.reply.reset \in BOOLEAN /\ r.reply.rows \in Rows
           /\ r.reply.cursor \in Nat /\ r.reply.more \in BOOLEAN
           /\ r.cut \subseteq Table /\ r.left \subseteq Table /\ r.saved \in BOOLEAN
  BY DEF Pulling, Auditing, Reply

LEMMA MergeType ==
    ASSUME NEW m \in Rows, NEW rows \in Rows
    PROVE  merge(m, rows) \in Rows
  BY DEF merge, Rows

(* Merged into what holds what was not asked for, rows that are whole up to  *)
(* n hold everything up to there, and take no row back.                      *)
LEMMA Merged ==
    ASSUME NEW m \in Rows, NEW rows \in Rows, NEW rr \in Rows, NEW since \in Nat,
           NEW z \in BOOLEAN, NEW n \in Nat,
           \A x \in Row : m[x] <= rr[x], Fresh(m, rows, rr),
           since > 0 => Shown(m, since, rr), z => since = 0 /\ Shown(m, 0, rr),
           \A x \in Row : lowerRev(since, z) < rr[x] /\ rr[x] <= n => rows[x] = rr[x]
    PROVE  /\ Shown(merge(m, rows), n, rr)
           /\ \A x \in Row : m[x] <= merge(m, rows)[x] /\ merge(m, rows)[x] <= rr[x]
  <1> DEFINE new == merge(m, rows)
  <1>1. \A x \in Row : new[x] = IF rows[x] # Absent THEN rows[x] ELSE m[x]
    BY DEF merge
  <1> HIDE DEF new
  <1>2. \A x \in Row : m[x] \in Int /\ rows[x] \in Int /\ rr[x] \in Int
    BY DEF Rows, Absent
  <1>3. \A x \in Row : m[x] <= new[x] /\ new[x] <= rr[x]
    BY <1>1, <1>2 DEF Fresh
  <1>4. ASSUME NEW x \in Row, rr[x] \in 0..n PROVE new[x] = rr[x]
    <2>1. CASE lowerRev(since, z) < rr[x]
      <3>1. rows[x] = rr[x] /\ rr[x] # Absent
        BY <1>4, <2>1 DEF Absent
      <3>2. QED
        BY <1>1, <3>1
    <2>2. CASE ~(lowerRev(since, z) < rr[x])
      <3>1. m[x] = rr[x]
        BY <1>4, <2>2 DEF lowerRev, Shown
      <3>2. QED
        BY <1>1, <1>2, <1>3, <3>1
    <2>3. QED
      BY <2>1, <2>2
  <1>5. QED
    BY <1>3, <1>4 DEF Shown, new

(* When the last group has been read, the answer is whole up to its cursor.  *)
LEMMA AnswerWhole ==
    ASSUME NEW m \in Rows, NEW r, r \in Pulling \/ r \in Auditing, NEW rr \in Rows,
           NEW top \in Nat, r.pc = "cut", \A x \in Row : m[x] <= rr[x] /\ rr[x] <= top,
           Asking(m, r, rr, top), r.left = {}
    PROVE  LET n == nextDeltaCursor(r) IN
           /\ n \in Nat /\ r.since <= n /\ n <= top
           /\ Shown(merge(m, r.reply.rows), n, rr)
           /\ \A x \in Row : /\ m[x] <= merge(m, r.reply.rows)[x]
                             /\ merge(m, r.reply.rows)[x] <= rr[x]
  <1> DEFINE n == nextDeltaCursor(r)
             rows == r.reply.rows
             z == r.afterZero
             since == r.since
  <1>1. /\ r.since <= top /\ Fresh(m, rows, rr) /\ Partial(r, rr, top)
        /\ r.since > 0 => Shown(m, r.since, rr)
        /\ r.afterZero => r.since = 0 /\ Shown(m, 0, rr)
    BY DEF Asking
  <1>2. rows \in Rows /\ r.since \in Nat /\ r.afterZero \in BOOLEAN /\ r.cut \subseteq Table
    BY RequestFields
  <1>3. \A x \in Row : rows[x] <= top
    BY <1>1, <1>2 DEF Fresh, Rows, Absent
  <1>4. \A t \in r.cut : reach(r, t) \in Nat /\ r.since <= reach(r, t) /\ reach(r, t) <= top
    BY <1>1, <1>2, <1>3, Reach
  <1>5. /\ \E t \in r.cut : n = reach(r, t)
        /\ \A t \in r.cut : n <= reach(r, t)
    BY <1>1, <1>2, <1>4, CutCursor DEF Partial
  <1> HIDE DEF n
  <1>6. n \in Nat /\ r.since <= n /\ n <= top
    BY <1>4, <1>5
  <1>7. ASSUME NEW x \in Row, lowerRev(r.since, r.afterZero) < rr[x], rr[x] <= n
        PROVE  rows[x] = rr[x]
    <2>1. rr[x] \in Int
      BY DEF Rows, Absent
    <2>2. \A t \in r.cut : rr[x] <= reach(r, t)
      BY <1>4, <1>5, <1>6, <1>7, <2>1
    <2>3. QED
      BY <1>1, <1>7, <2>2 DEF Partial, Lower
  <1>8. /\ \A x \in Row : m[x] <= rr[x]
        /\ Fresh(m, rows, rr) /\ rows \in Rows /\ since \in Nat /\ z \in BOOLEAN
        /\ since > 0 => Shown(m, since, rr)
        /\ z => since = 0 /\ Shown(m, 0, rr)
        /\ \A x \in Row : lowerRev(since, z) < rr[x] /\ rr[x] <= n => rows[x] = rr[x]
    BY <1>1, <1>2, <1>7
  <1> HIDE DEF rows, since, z
  <1>9. /\ Shown(merge(m, rows), n, rr)
        /\ \A x \in Row : m[x] <= merge(m, rows)[x] /\ merge(m, rows)[x] <= rr[x]
    BY <1>6, <1>8, Merged
  <1>10. QED
    BY <1>6, <1>9 DEF n, rows

(* q is the request r, further on. *)
Continues(q, r) ==
    /\ q.since = r.since /\ q.afterZero = r.afterZero /\ q.saved = r.saved
    /\ r \in Pulling => q \in Pulling
    /\ r \in Auditing => q \in Auditing /\ q.snapshot = r.snapshot

LEMMA NoReplyType == NoRows \in Rows /\ NoReply \in Reply
  <1>1. NoRows \in Rows
    BY DEF NoRows, Rows
  <1>2. QED
    BY <1>1 DEF NoReply, Reply

(* The answer that goes out is one to the request, whole up to its cursor. *)
LEMMA Outgoing ==
    ASSUME NEW m, NEW r, r \in Pulling \/ r \in Auditing, NEW rr, NEW top \in Nat,
           NEW n \in Nat, n = nextDeltaCursor(r), r.left = {}, ~r.reply.reset,
           r.since <= top, r.since <= n, n <= top,
           r.since > 0 => Shown(m, r.since, rr),
           r.afterZero => r.since = 0 /\ Shown(m, 0, rr),
           Shown(merge(m, r.reply.rows), n, rr),
           \A x \in Row : /\ m[x] <= merge(m, r.reply.rows)[x]
                          /\ merge(m, r.reply.rows)[x] <= rr[x]
    PROVE  Continues(answer(r), r) /\ answer(r).pc \in Serving /\ Asking(m, answer(r), rr, top)
  <1> DEFINE q == answer(r)
             more == r.cut # {}
  <1>1. q = [r EXCEPT !.pc = "answered", !.cut = {}, !.reply.cursor = n, !.reply.more = more]
    BY DEF answer
  <1>2. more \in BOOLEAN
    OBVIOUS
  <1> HIDE DEF more, q
  <1> DEFINE a == [r.reply EXCEPT !.cursor = n, !.more = more]
  <1>3. r.reply \in Reply
    BY RequestFields
  <1>4. a \in Reply /\ a.cursor = n /\ a.rows = r.reply.rows /\ ~a.reset
    BY <1>2, <1>3 DEF Reply
  <1>5. /\ Continues(q, r) /\ q.pc = "answered"
        /\ q.reply.cursor = n /\ q.reply.rows = r.reply.rows /\ ~q.reply.reset
    <2>1. q = [r EXCEPT !.pc = "answered", !.cut = {}, !.reply = a]
      BY <1>1 DEF Pulling, Auditing
    <2> HIDE DEF a
    <2>2. Continues(q, r) /\ q.pc = "answered" /\ q.reply = a
      BY <1>4, <2>1 DEF Continues, Pulling, Auditing, RequestPC
    <2>3. QED
      BY <1>4, <2>2
  <1>6. q.since = r.since /\ q.afterZero = r.afterZero
    BY <1>5 DEF Continues
  <1>7. Asking(m, q, rr, top)
    BY <1>5, <1>6 DEF Asking
  <1>8. QED
    BY <1>5, <1>7 DEF q, Serving

LEMMA ReadRev ==
    ASSUME Numbered, NEW m, NEW r, r \in Pulling \/ r \in Auditing, Asking(m, r, rowRev, rev)
    PROVE  /\ Continues(readRev(r), r) /\ readRev(r).pc \in Serving
           /\ Asking(m, readRev(r), rowRev, rev)
  <1> DEFINE a == [NoReply EXCEPT !.cursor = rev]
             q == readRev(r)
  <1>1. r.since \in Nat /\ rev \in Nat /\ r.since <= rev
    BY RequestFields DEF Asking, Numbered
  <1>2. a \in Reply /\ ~a.reset /\ a.cursor = rev
    BY <1>1, NoReplyType DEF NoReply, Reply
  <1>3. q = [r EXCEPT !.pc = "reading", !.reply = a]
    BY <1>1 DEF readRev
  <1> HIDE DEF a, q
  <1>4. Continues(q, r) /\ q.pc = "reading" /\ q.reply = a
    BY <1>2, <1>3 DEF Continues, Pulling, Auditing, RequestPC
  <1>5. q.since = r.since /\ q.afterZero = r.afterZero
    BY <1>4 DEF Continues
  <1>6. Asking(m, q, rowRev, rev)
    BY <1>1, <1>2, <1>4, <1>5 DEF Asking
  <1>7. QED
    BY <1>4, <1>6 DEF q, Serving

(* What the pages bring, of all tables at one moment. *)
Sent(lower) == UNION {page(t, lower) : t \in Table}
Brought(lower) == [x \in Row |-> IF x \in Sent(lower) THEN rowRev[x] ELSE Absent]

LEMMA BroughtFresh ==
    ASSUME Numbered, NEW lower \in Int, NEW m \in Rows, \A x \in Row : m[x] <= rowRev[x]
    PROVE  /\ Brought(lower) \in Rows /\ Fresh(m, Brought(lower), rowRev)
           /\ \A x \in Row : Brought(lower)[x] <= rev
  <1>1. \A x \in Row : rowRev[x] \in Int /\ rowRev[x] <= rev /\ -1 <= rowRev[x]
    BY DEF Numbered, Rows, Absent
  <1>2. Brought(lower) \in Rows
    BY DEF Brought, Numbered, Rows
  <1>3. \A x \in Row : Brought(lower)[x] = IF x \in Sent(lower) THEN rowRev[x] ELSE Absent
    BY DEF Brought
  <1>4. QED
    BY <1>1, <1>2, <1>3 DEF Fresh, Absent, Numbered

(* A row of a table is sent if it is on the page of that table. *)
LEMMA SentOn ==
    ASSUME NEW lower \in Int, NEW t \in Table, NEW x \in t
    PROVE  x \in Sent(lower) <=> x \in page(t, lower)
  <1>1. \A u \in Table : x \in u => u = t
    BY MirrorAssumption
  <1>2. \A u \in Table : page(u, lower) \subseteq u
    BY DEF page, above
  <1>3. QED
    BY <1>1, <1>2 DEF Sent

(* Of the tables that are not cut everything above lower is sent; of one     *)
(* that is cut everything up to where its rows reach.                        *)
LEMMA SentWhole ==
    ASSUME Numbered, NEW since \in Nat, NEW z \in BOOLEAN,
           NEW t \in Table, NEW x \in t, lowerRev(since, z) < rowRev[x],
           \/ ~truncated(t, lowerRev(since, z))
           \/ rowRev[x] <= since
           \/ \E y \in t : /\ Brought(lowerRev(since, z))[y] # Absent
                           /\ rowRev[x] <= Brought(lowerRev(since, z))[y]
    PROVE  Brought(lowerRev(since, z))[x] = rowRev[x]
  <1> DEFINE lower == lowerRev(since, z)
  <1>1. lower \in Int
    BY DEF lowerRev
  <1>2. x \in Row /\ x \in above(t, lower) /\ rowRev[x] \in Int
    BY DEF above, Row, Numbered, Rows, Absent
  <1>3. \A y \in t : y \in Row
    BY DEF Row
  <1>4. CASE ~truncated(t, lower)
    BY <1>1, <1>2, <1>4, PageAll, SentOn DEF Brought
  <1>5. CASE rowRev[x] <= since
    <2>1. lower = -1 /\ rowRev[x] = 0
      BY <1>2, <1>5 DEF lowerRev
    <2>2. x \in page(t, -1)
      BY <1>2, <2>1, PageZero
    <2>3. QED
      BY <1>1, <1>2, <2>1, <2>2, SentOn DEF Brought
  <1>6. ASSUME NEW y \in t, Brought(lower)[y] # Absent, rowRev[x] <= Brought(lower)[y]
        PROVE  Brought(lower)[x] = rowRev[x]
    <2>1. y \in Sent(lower) /\ Brought(lower)[y] = rowRev[y]
      BY <1>3, <1>6 DEF Brought
    <2>2. y \in page(t, lower)
      BY <1>1, <2>1, SentOn
    <2>3. rowRev[x] <= rowRev[y]
      BY <1>6, <2>1
    <2>4. x \in page(t, lower)
      BY <1>1, <1>2, <2>2, <2>3, PageWhole
    <2>5. QED
      BY <1>1, <1>2, <2>4, SentOn DEF Brought
  <1>7. QED
    BY <1>4, <1>5, <1>6

LEMMA ReadTables ==
    ASSUME Numbered, NEW m \in Rows, NEW r, r \in Pulling \/ r \in Auditing,
           \A x \in Row : m[x] <= rowRev[x], r.pc = "reading", Asking(m, r, rowRev, rev)
    PROVE  /\ Continues(readTables(r), r) /\ readTables(r).pc \in Serving
           /\ Asking(m, readTables(r), rowRev, rev)
  <1> DEFINE lower == lowerRev(r.since, r.afterZero)
             cut == {t \in Table : truncated(t, lower)}
             rows == Brought(lower)
             q == [r EXCEPT !.pc = "cut", !.cut = cut, !.left = cut, !.reply.rows = rows]
  <1>1. /\ r.since \in Nat /\ r.afterZero \in BOOLEAN /\ r.reply \in Reply
        /\ r.reply.cursor \in Nat /\ ~r.reply.reset /\ rev \in Nat
        /\ r.since <= r.reply.cursor /\ r.reply.cursor <= rev /\ r.since <= rev
        /\ r.since > 0 => Shown(m, r.since, rowRev)
        /\ r.afterZero => r.since = 0 /\ Shown(m, 0, rowRev)
    BY RequestFields DEF Asking, Numbered
  <1>2. readTables(r) = answer(q)
    BY DEF readTables, Brought, Sent
  <1>3. lower \in Int
    BY <1>1 DEF lowerRev
  <1>4. rows \in Rows /\ Fresh(m, rows, rowRev) /\ \A x \in Row : rows[x] <= rev
    <2> HIDE DEF lower
    <2>1. QED
      BY <1>3, BroughtFresh
  <1>5. \A t \in Table : \A x \in t :
           /\ lower < rowRev[x]
           /\ \/ t \notin cut
              \/ rowRev[x] <= r.since
              \/ \E y \in t : rows[y] # Absent /\ rowRev[x] <= rows[y]
           => rows[x] = rowRev[x]
    BY <1>1, SentWhole
  <1> HIDE DEF lower, cut, rows
  <1>6. cut \in SUBSET Table
    BY DEF cut
  <1>q. q = [r EXCEPT !.pc = "cut", !.cut = cut, !.left = cut, !.reply.rows = rows]
    OBVIOUS
  <1> HIDE DEF q
  <1> DEFINE a == [r.reply EXCEPT !.rows = rows]
  <1>7. /\ Continues(q, r) /\ q.pc = "cut" /\ q.cut = cut /\ q.left = cut
        /\ q.reply = a /\ a.rows = rows /\ a.cursor = r.reply.cursor /\ ~a.reset
    <2>1. a \in Reply /\ a.rows = rows /\ a.cursor = r.reply.cursor /\ ~a.reset
      BY <1>1, <1>4 DEF Reply
    <2>2. q = [r EXCEPT !.pc = "cut", !.cut = cut, !.left = cut, !.reply = a]
      BY <1>q DEF Pulling, Auditing
    <2> HIDE DEF a
    <2>3. Continues(q, r) /\ q.pc = "cut" /\ q.cut = cut /\ q.left = cut /\ q.reply = a
      BY <1>6, <2>1, <2>2 DEF Continues, Pulling, Auditing, RequestPC
    <2>4. QED
      BY <2>1, <2>3
  <1> HIDE DEF a
  <1>8. q \in Pulling \/ q \in Auditing
    BY <1>7 DEF Continues
  <1>9. q.reply.rows = rows /\ q.reply.cursor = r.reply.cursor /\ ~q.reply.reset
    BY <1>7
  <1>10. q.since = r.since /\ q.afterZero = r.afterZero
    BY <1>7 DEF Continues
  <1>11. rowRev \in Rows
    BY DEF Numbered
  <1>12. CASE cut = {}
    <2> DEFINE n == nextDeltaCursor(q)
    <2>1. n \in Nat /\ q.since <= n /\ n <= rev
      BY <1>1, <1>4, <1>7, <1>9, <1>10, <1>12, WholeCursor
    <2> HIDE DEF n
    <2>2. \A x \in Row : lower < rowRev[x] /\ rowRev[x] <= n => rows[x] = rowRev[x]
      BY <1>5, <1>12 DEF Row
    <2>3. /\ Shown(merge(m, rows), n, rowRev)
          /\ \A x \in Row : m[x] <= merge(m, rows)[x] /\ merge(m, rows)[x] <= rowRev[x]
      BY <1>1, <1>4, <1>11, <2>1, <2>2, Merged DEF lower
    <2>4. QED
      <3>1. Continues(answer(q), q) /\ answer(q).pc \in Serving /\ Asking(m, answer(q), rowRev, rev)
        BY <1>1, <1>7, <1>8, <1>9, <1>10, <1>12, <2>1, <2>3, Outgoing DEF n
      <3>2. QED
        BY <1>2, <1>7, <3>1 DEF Continues
  <1>13. CASE cut # {}
    <2>1. answer(q) = q
      BY <1>7, <1>13 DEF answer
    <2>2. \A t \in cut :
             /\ reach(q, t) \in Nat /\ reach(q, t) <= rev
             /\ reach(q, t) = r.since \/ \E y \in t : reach(q, t) = rows[y]
      BY <1>1, <1>4, <1>6, <1>9, <1>10, Reach
    <2>3. ASSUME NEW x \in Row, lower < rowRev[x], \A t \in cut : rowRev[x] <= reach(q, t)
          PROVE  rows[x] = rowRev[x]
      <3>1. PICK t \in Table : x \in t
        BY DEF Row
      <3>2. CASE t \in cut
        <4>1. CASE reach(q, t) = r.since
          BY <1>5, <2>3, <3>1, <3>2, <4>1
        <4>2. ASSUME NEW y \in t, reach(q, t) = rows[y] PROVE rows[x] = rowRev[x]
          <5>1. rows[y] # Absent /\ rowRev[x] <= rows[y]
            BY <2>2, <2>3, <3>2, <4>2 DEF Absent
          <5>2. QED
            BY <1>5, <2>3, <3>1, <5>1
        <4>3. QED
          BY <2>2, <3>2, <4>1, <4>2
      <3>3. QED
        BY <1>5, <2>3, <3>1, <3>2
    <2>4. Partial(q, rowRev, rev)
      BY <1>7, <1>9, <1>10, <1>13, <2>2, <2>3 DEF Partial, Lower, lower
    <2>5. Asking(m, q, rowRev, rev)
      BY <1>1, <1>4, <1>7, <1>9, <1>10, <2>4 DEF Asking
    <2>6. QED
      BY <1>2, <1>7, <2>1, <2>5 DEF Serving
  <1>14. QED
    BY <1>12, <1>13

(* The last group of a table once more: the table may reach less far then,   *)
(* but what it still reaches is whole.                                       *)
LEMMA Regrouped ==
    ASSUME Numbered, NEW m \in Rows, NEW r, r \in Pulling \/ r \in Auditing, NEW t \in Table,
           \A x \in Row : m[x] <= rowRev[x], r.since \in Nat, r.since <= rev,
           Fresh(m, r.reply.rows, rowRev), Partial(r, rowRev, rev),
           NEW q, q \in Pulling \/ q \in Auditing,
           q.since = r.since, q.afterZero = r.afterZero, q.cut = r.cut,
           \A x \in Row :
              q.reply.rows[x] =
                 IF x \in t /\ rowRev[x] = reach(r, t) THEN reach(r, t)
                 ELSE IF x \in t /\ r.reply.rows[x] = reach(r, t) THEN Absent
                 ELSE r.reply.rows[x]
    PROVE  Fresh(m, q.reply.rows, rowRev) /\ Partial(q, rowRev, rev)
  <1> DEFINE last == reach(r, t)
             was == r.reply.rows
             rows == q.reply.rows
  <1>1. was \in Rows /\ rows \in Rows /\ rev \in Nat /\ r.cut \subseteq Table
    BY RequestFields DEF Numbered
  <1>2. \A x \in Row : /\ rowRev[x] \in Int /\ rowRev[x] <= rev /\ was[x] \in Int
                       /\ rows[x] \in Int /\ m[x] \in Int
    BY <1>1 DEF Numbered, Rows, Absent
  <1>3. \A x \in Row : was[x] <= rev
    BY <1>1, <1>2 DEF Fresh, Absent
  <1>4. last \in Nat /\ r.since <= last /\ last <= rev /\ \A x \in t : was[x] <= last
    BY <1>1, <1>3, Reach
  <1>5. \A x \in Row : rows[x] = IF x \in t /\ rowRev[x] = last THEN last
                                 ELSE IF x \in t /\ was[x] = last THEN Absent
                                 ELSE was[x]
    OBVIOUS
  <1>6. \A u \in r.cut : reach(r, u) \in Nat /\ reach(r, u) <= rev
    BY DEF Partial
  <1>7. \A x \in t : x \in Row
    BY DEF Row
  <1>8. \A u \in Table : u # t => reach(q, u) = reach(r, u)
    <2> SUFFICES ASSUME NEW u \in Table, u # t PROVE reach(q, u) = reach(r, u)
      OBVIOUS
    <2>1. \A x \in u : x \in Row /\ x \notin t
      BY MirrorAssumption DEF Row
    <2>2. \A x \in u : rows[x] = was[x]
      BY <1>5, <2>1
    <2>3. {rows[x] : x \in u} = {was[x] : x \in u}
      BY <2>2
    <2>4. QED
      BY <2>3 DEF reach
  <1>9. rows = q.reply.rows /\ was = r.reply.rows /\ last = reach(r, t)
    OBVIOUS
  <1> HIDE DEF last, was, rows
  <1>10. \A x \in Row : rows[x] <= rev
    BY <1>2, <1>3, <1>4, <1>5, <1>1 DEF Absent
  <1>11. /\ reach(q, t) \in Nat /\ reach(q, t) <= last
    <2>1. /\ reach(q, t) \in Nat /\ reach(q, t) <= rev
          /\ reach(q, t) = q.since \/ \E x \in t : reach(q, t) = rows[x]
      BY <1>1, <1>9, <1>10, Reach
    <2>2. \A x \in t : rows[x] <= last
      BY <1>4, <1>5, <1>7 DEF Absent
    <2>3. QED
      BY <1>4, <2>1, <2>2
  <1>12. Fresh(m, rows, rowRev)
    <2>1. Fresh(m, was, rowRev)
      BY <1>9
    <2>2. QED
      BY <1>2, <1>5, <2>1 DEF Fresh
  <1>13. \A u \in q.cut : reach(q, u) \in Nat /\ reach(q, u) <= rev
    BY <1>1, <1>4, <1>6, <1>8, <1>11
  <1>14. ASSUME NEW x \in Row, lowerRev(q.since, q.afterZero) < rowRev[x],
                \A u \in q.cut : rowRev[x] <= reach(q, u)
         PROVE  rows[x] = rowRev[x]
    <2>1. \A u \in r.cut : rowRev[x] <= reach(r, u)
      <3> SUFFICES ASSUME NEW u \in r.cut PROVE rowRev[x] <= reach(r, u)
        OBVIOUS
      <3>1. CASE u = t
        BY <1>2, <1>4, <1>9, <1>11, <1>14, <3>1
      <3>2. CASE u # t
        BY <1>1, <1>8, <1>14, <3>2
      <3>3. QED
        BY <3>1, <3>2
    <2>2. was[x] = rowRev[x]
      BY <1>9, <1>14, <2>1 DEF Partial, Lower
    <2>3. QED
      BY <1>5, <2>2
  <1>15. Partial(q, rowRev, rev)
    BY <1>9, <1>13, <1>14 DEF Partial, Lower
  <1>16. QED
    BY <1>9, <1>12, <1>15

LEMMA ReadGroup ==
    ASSUME Numbered, NEW m \in Rows, NEW r, r \in Pulling \/ r \in Auditing, NEW t \in r.left,
           \A x \in Row : m[x] <= rowRev[x], r.pc = "cut", Asking(m, r, rowRev, rev)
    PROVE  /\ Continues(readGroup(r, t), r) /\ readGroup(r, t).pc \in Serving
           /\ Asking(m, readGroup(r, t), rowRev, rev)
  <1> DEFINE last == reach(r, t)
             rows == [x \in Row |-> IF x \in t /\ rowRev[x] = last THEN last
                                    ELSE IF x \in t /\ r.reply.rows[x] = last THEN Absent
                                    ELSE r.reply.rows[x]]
             left == r.left \ {t}
             a == [r.reply EXCEPT !.rows = rows]
             q == [r EXCEPT !.left = @ \ {t}, !.reply.rows = rows]
  <1>1. /\ r.since \in Nat /\ r.afterZero \in BOOLEAN /\ r.reply \in Reply /\ t \in Table
        /\ r.reply.rows \in Rows /\ r.cut \subseteq Table /\ r.left \subseteq Table
        /\ ~r.reply.reset /\ rev \in Nat /\ r.since <= rev
        /\ r.since > 0 => Shown(m, r.since, rowRev)
        /\ r.afterZero => r.since = 0 /\ Shown(m, 0, rowRev)
        /\ Fresh(m, r.reply.rows, rowRev) /\ Partial(r, rowRev, rev)
    BY RequestFields DEF Asking, Numbered
  <1>2. readGroup(r, t) = answer(q)
    BY DEF readGroup
  <1>3. last \in Nat
    <2>1. \A x \in Row : rowRev[x] \in Int /\ rowRev[x] <= rev /\ r.reply.rows[x] \in Int
      BY <1>1 DEF Numbered, Rows, Absent
    <2>2. \A x \in Row : r.reply.rows[x] <= rev
      BY <1>1, <2>1 DEF Fresh, Absent
    <2>3. QED
      BY <1>1, <2>2, Reach
  <1>4. \A x \in Row : rows[x] = IF x \in t /\ rowRev[x] = last THEN last
                                 ELSE IF x \in t /\ r.reply.rows[x] = last THEN Absent
                                 ELSE r.reply.rows[x]
    OBVIOUS
  <1>5. rows \in Rows
    <2> HIDE DEF last
    <2>1. QED
      BY <1>1, <1>3 DEF Rows
  <1>6. last = reach(r, t)
    OBVIOUS
  <1>7. left \in SUBSET Table /\ q = [r EXCEPT !.left = left, !.reply = a]
    BY <1>1 DEF Pulling, Auditing
  <1> HIDE DEF rows, last, q
  <1>8. /\ a \in Reply /\ a.rows = rows /\ a.cursor = r.reply.cursor /\ ~a.reset
    BY <1>1, <1>5 DEF Reply
  <1> HIDE DEF a, left
  <1>9. Continues(q, r) /\ q.pc = "cut" /\ q.cut = r.cut /\ q.left = left /\ q.reply = a
    BY <1>7, <1>8 DEF Continues, Pulling, Auditing
  <1>10. /\ q \in Pulling \/ q \in Auditing
         /\ q.since = r.since /\ q.afterZero = r.afterZero
    BY <1>9 DEF Continues
  <1>11. Fresh(m, q.reply.rows, rowRev) /\ Partial(q, rowRev, rev)
    BY <1>1, <1>4, <1>6, <1>8, <1>9, <1>10, Regrouped
  <1>12. Asking(m, q, rowRev, rev)
    BY <1>1, <1>8, <1>9, <1>10, <1>11 DEF Asking
  <1>13. CASE left # {}
    <2>1. answer(q) = q
      BY <1>9, <1>13 DEF answer
    <2>2. QED
      BY <1>2, <1>9, <1>12, <2>1 DEF Serving
  <1>14. CASE left = {}
    <2>1. rowRev \in Rows /\ \A x \in Row : m[x] <= rowRev[x] /\ rowRev[x] <= rev
      BY DEF Numbered
    <2> DEFINE n == nextDeltaCursor(q)
    <2>2. /\ n \in Nat /\ q.since <= n /\ n <= rev
          /\ Shown(merge(m, q.reply.rows), n, rowRev)
          /\ \A x \in Row : /\ m[x] <= merge(m, q.reply.rows)[x]
                            /\ merge(m, q.reply.rows)[x] <= rowRev[x]
      BY <1>1, <1>9, <1>10, <1>12, <1>14, <2>1, AnswerWhole
    <2> HIDE DEF n
    <2>3. Continues(answer(q), q) /\ answer(q).pc \in Serving /\ Asking(m, answer(q), rowRev, rev)
      BY <1>1, <1>8, <1>9, <1>10, <1>14, <2>2, Outgoing DEF n
    <2>4. QED
      BY <1>2, <1>9, <2>3 DEF Continues
  <1>15. QED
    BY <1>13, <1>14

(* handleSync: every statement leaves a request that may still be answered,  *)
(* or its answer.                                                            *)
LEMMA ServeKeeps ==
    ASSUME Numbered, NEW m \in Rows, NEW r, r \in Pulling \/ r \in Auditing,
           \A x \in Row : m[x] <= rowRev[x], r.pc \in Serving => Asking(m, r, rowRev, rev),
           NEW q \in handleSync(r)
    PROVE  Continues(q, r) /\ r.pc \in Serving /\ q.pc \in Serving /\ Asking(m, q, rowRev, rev)
  <1>1. CASE r.pc = "asked"
    <2>1. q = readRev(r)
      BY <1>1 DEF handleSync
    <2>2. QED
      BY <1>1, <2>1, ReadRev DEF Serving
  <1>2. CASE r.pc = "reading"
    <2>1. q = readTables(r)
      BY <1>2 DEF handleSync
    <2>2. QED
      BY <1>2, <2>1, ReadTables DEF Serving
  <1>3. CASE r.pc = "cut"
    <2>1. PICK t \in r.left : q = readGroup(r, t)
      BY <1>3 DEF handleSync
    <2>2. QED
      BY <1>3, <2>1, ReadGroup DEF Serving
  <1>4. QED
    BY <1>1, <1>2, <1>3 DEF handleSync

(* What is shown stays shown while the rows take revisions nobody has seen.  *)
LEMMA ShownLater ==
    ASSUME NEW m, NEW rr \in Rows, NEW rr2 \in Rows, NEW top \in Nat, NEW c \in Nat, c <= top,
           \A x \in Row : rr2[x] = rr[x] \/ rr2[x] = top + 1, Shown(m, c, rr)
    PROVE  Shown(m, c, rr2)
  <1> SUFFICES ASSUME NEW x \in Row, rr2[x] \in 0..c PROVE m[x] = rr2[x]
    BY DEF Shown
  <1>1. rr2[x] = rr[x]
    OBVIOUS
  <1>2. QED
    BY <1>1 DEF Shown

(* So does what a request has read. *)
LEMMA AskingLater ==
    ASSUME NEW m \in Rows, NEW r, r \in Pulling \/ r \in Auditing, NEW rr \in Rows, NEW rr2 \in Rows,
           NEW top \in Nat, NEW top2 \in Nat, top <= top2,
           \A x \in Row : (rr2[x] = rr[x] \/ rr2[x] = top + 1) /\ rr[x] <= rr2[x],
           Asking(m, r, rr, top)
    PROVE  Asking(m, r, rr2, top2)
  <1> DEFINE next == r.reply.cursor
             rows == r.reply.rows
             brought == merge(m, rows)
  <1>1. /\ r.since \in Nat /\ next \in Nat /\ rows \in Rows /\ brought \in Rows
        /\ r.cut \subseteq Table
    BY RequestFields, MergeType
  <1> HIDE DEF brought
  <1>2. \A x \in Row : /\ rr[x] \in Int /\ rr2[x] \in Int /\ rows[x] \in Int /\ m[x] \in Int
                       /\ brought[x] \in Int
    BY <1>1 DEF Rows, Absent
  <1>3. /\ r.since <= top /\ r.since <= top2
        /\ r.since > 0 => Shown(m, r.since, rr2)
        /\ r.afterZero => r.since = 0 /\ Shown(m, 0, rr2)
        /\ ~r.reply.reset
    BY <1>1, ShownLater DEF Asking
  <1>4. r.pc = "reading" => r.since <= next /\ next <= top2
    BY <1>1 DEF Asking
  <1>5. r.pc = "cut" => Fresh(m, rows, rr2)
    BY <1>1, <1>2 DEF Asking, Fresh
  <1>6. ASSUME r.pc = "cut" PROVE Partial(r, rr2, top2)
    <2>1. Partial(r, rr, top)
      BY <1>6 DEF Asking
    <2>2. r.cut # {} /\ \A t \in r.cut : /\ reach(r, t) \in Nat /\ reach(r, t) <= top
                                         /\ reach(r, t) <= top2
      BY <2>1 DEF Partial
    <2>3. ASSUME NEW x \in Row, Lower(r) < rr2[x], \A t \in r.cut : rr2[x] <= reach(r, t)
          PROVE  rows[x] = rr2[x]
      <3>1. PICK t \in r.cut : TRUE
        BY <2>2
      <3>2. rr2[x] # top + 1
        BY <1>2, <2>2, <2>3, <3>1
      <3>3. rr2[x] = rr[x]
        BY <3>2
      <3>4. QED
        BY <2>1, <2>3, <3>3 DEF Partial
    <2>4. QED
      BY <2>2, <2>3 DEF Partial
  <1>7. ASSUME r.pc = "answered"
        PROVE  /\ r.since <= next /\ next <= top2 /\ Shown(brought, next, rr2)
               /\ \A x \in Row : m[x] <= brought[x] /\ brought[x] <= rr2[x]
    <2>1. /\ r.since <= next /\ next <= top /\ Shown(brought, next, rr)
          /\ \A x \in Row : m[x] <= brought[x] /\ brought[x] <= rr[x]
      BY <1>7 DEF Asking, brought
    <2>2. Shown(brought, next, rr2)
      BY <1>1, <2>1, ShownLater
    <2>3. \A x \in Row : brought[x] <= rr2[x]
      BY <1>2, <2>1
    <2>4. QED
      BY <1>1, <2>1, <2>2, <2>3
  <1>8. QED
    BY <1>3, <1>4, <1>5, <1>6, <1>7 DEF Asking, brought

-------------------------------------------------------------------------------
(* The server: its revisions only grow while no backup is restored *)

Forward == Numbered /\ MaxRestores = 0 /\ restores = 0

(* A row keeps its revision or takes one nobody has been told of. *)
Grows ==
    /\ Numbered' /\ rev <= rev' /\ restores' = restores
    /\ \A x \in Row : /\ rowRev'[x] = rowRev[x] \/ rowRev'[x] = rev + 1
                      /\ rowRev[x] <= rowRev'[x]

LEMMA CommitGrows ==
    ASSUME Forward, NEW rows, Commit(rows)
    PROVE  Grows
  <1>1. rev' = rev + 1 /\ rowRev' = [x \in Row |-> IF x \in rows THEN rev + 1 ELSE rowRev[x]]
    BY DEF Commit
  <1>2. rowRev' \in Rows
    BY <1>1 DEF Forward, Numbered, Rows
  <1>3. \A x \in Row : rowRev[x] \in Int /\ rowRev[x] <= rev
    BY DEF Forward, Numbered, Rows, Absent
  <1>4. \A x \in Row : rowRev'[x] = IF x \in rows THEN rev + 1 ELSE rowRev[x]
    BY <1>1
  <1>5. QED
    BY <1>1, <1>2, <1>3, <1>4 DEF Forward, Numbered, Grows, Commit

LEMMA PushGrows ==
    ASSUME Forward, NEW x \in Row, PushServe(x)
    PROVE  Grows /\ rowRev' = [rowRev EXCEPT ![x] = rev + 1] /\ rev' = rev + 1
  <1>1. rev' = rev + 1 /\ rowRev' = [rowRev EXCEPT ![x] = rev + 1]
    BY DEF PushServe
  <1>2. rowRev' \in Rows
    BY <1>1 DEF Forward, Numbered, Rows
  <1>3. \A y \in Row : rowRev[y] \in Int /\ rowRev[y] <= rev
    BY DEF Forward, Numbered, Rows, Absent
  <1>4. \A y \in Row : rowRev'[y] = IF y = x THEN rev + 1 ELSE rowRev[y]
    BY <1>1 DEF Forward, Numbered, Rows
  <1>5. QED
    BY <1>1, <1>2, <1>3, <1>4 DEF Forward, Numbered, Grows, PushServe

LEMMA IdleGrows ==
    ASSUME Forward, UNCHANGED server
    PROVE  Grows
  <1>1. rev' = rev /\ rowRev' = rowRev /\ restores' = restores
    BY DEF server
  <1>2. \A x \in Row : rowRev[x] \in Int
    BY DEF Forward, Numbered, Rows, Absent
  <1>3. QED
    BY <1>1, <1>2 DEF Forward, Numbered, Grows

(* Every step is one of these. *)
LEMMA ServerGrows ==
    ASSUME Forward, [Next]_vars
    PROVE  Grows /\ Forward'
  <1>1. ASSUME NEW rows, Commit(rows) PROVE Grows
    BY <1>1, CommitGrows
  <1>2. ASSUME NEW x \in OwnWrites, PushServe(x) PROVE Grows
    BY <1>2, PushGrows, MirrorAssumption
  <1>3. ~Backup /\ ~Restore
    BY DEF Backup, Restore, Forward
  <1>4. ASSUME \/ \E writtenAt \in 0..MaxRev : PushAnswered(writtenAt)
               \/ PullStart \/ Pull \/ PullFail \/ AuditStart \/ Audit \/ AuditFail
               \/ Stores \/ Restart
        PROVE  UNCHANGED server
    BY <1>4 DEF PushAnswered, PullStart, Pull, PullServe, PullApply, PullFinish, PullAbandon, PullReset,
                PullAudited, PullFail, AuditStart, Audit, AuditServe, AuditPage, AuditStage,
                AuditInstall, AuditAbandon, AuditFail, Stores, StoreCopy, Restart
  <1>5. UNCHANGED vars => UNCHANGED server
    BY DEF vars
  <1>6. Grows
    BY <1>1, <1>2, <1>3, <1>4, <1>5, IdleGrows DEF Next
  <1>7. QED
    BY <1>6 DEF Forward, Grows

-------------------------------------------------------------------------------
(* A device that only pulls *)

(* The device holds, Shown nothing the server has not had. *)
Behind(m) == m \in Rows /\ \A x \in Row : m[x] <= rowRev[x]

(* s is whole up to its cursor, which the server has reached. *)
Whole(s) == s \in Copies /\ Behind(s.mirror) /\ s.cursor <= rev /\ (s.cursor > 0 => holds(s.mirror, s.cursor))

(* The pull under way asks from the cursor, and what it brings makes the     *)
(* mirror whole up to the cursor it brings.                                  *)
PullInv ==
    LET next == pull.reply.cursor
    IN  /\ pull \in Pulling
        /\ ~pull.reply.reset
        /\ pull.pc \in Serving => pull.since = cursor /\ Asking(mirror, pull, rowRev, rev)
        /\ pull.pc \in {"storing", "stored"} =>
              cursor <= next /\ next <= rev /\ holds(mirror, next)

(* Only the pull's snapshot is ever on its way to the account store. *)
StoreInv ==
    LET next == pull.reply.cursor IN
    /\ writes = IF pull.pc = "storing"
                THEN <<[who |-> "pull", snapshot |-> Snapshot(mirror, next)]>> ELSE <<>>
    /\ local \in Copies /\ Behind(local.mirror)
    /\ Whole(copy)
    /\ local.cursor <= cursor
    /\ copy.cursor <= cursor \/ (pull.pc = "stored" /\ pull.saved /\ copy.cursor <= next)
    /\ local.cursor > copy.cursor => holds(local.mirror, local.cursor)
    /\ pull.pc = "storing" /\ pull.saved => holds(local.mirror, next)
    /\ pull.pc = "stored" /\ pull.saved => holds(local.mirror, next) \/ copy.cursor = next

(* A write of the device's own that was applied has a revision of the        *)
(* server's.                                                                 *)
PushInv ==
    push # NoPush => push.row \in Row /\ push.rev \in Nat /\ push.rev # 0 /\ push.rev <= rev

LandingInv ==
    /\ PushInv
    /\ landing \subseteq Row \X Nat
    /\ acked \in [Row -> Nat] /\ \A x \in Row : acked[x] <= rev
    /\ AckedStaysVisible

MirrorInv ==
    /\ Forward /\ ~Audits /\ audit = NoAudit
    /\ Whole(Snapshot(mirror, cursor))
    /\ PullInv /\ StoreInv /\ LandingInv

LEMMA Later ==
    ASSUME Forward, Grows, NEW m, NEW c \in Nat, c <= rev
    PROVE  /\ holds(m, c) => \A x \in Row : rowRev'[x] \in 0..c => m[x] = rowRev'[x]
           /\ Behind(m) => \A x \in Row : m[x] <= rowRev'[x]
  <1>1. ASSUME holds(m, c), NEW x \in Row, rowRev'[x] \in 0..c PROVE m[x] = rowRev'[x]
    <2>1. rowRev'[x] = rowRev[x] \/ rowRev'[x] = rev + 1
      BY DEF Grows
    <2>2. rowRev'[x] # rev + 1
      BY <1>1 DEF Forward, Numbered
    <2>3. QED
      BY <1>1, <2>1, <2>2 DEF holds, Shown
  <1>2. ASSUME Behind(m), NEW x \in Row PROVE m[x] <= rowRev'[x]
    <2>1. m[x] \in Int /\ rowRev[x] \in Int /\ rowRev'[x] \in Int
      BY <1>2 DEF Behind, Forward, Grows, Numbered, Rows, Absent
    <2>2. m[x] <= rowRev[x] /\ rowRev[x] <= rowRev'[x]
      BY <1>2 DEF Behind, Grows
    <2>3. QED
      BY <2>1, <2>2
  <1>3. QED
    BY <1>1, <1>2

(* What the parts of the invariant say about the numbers in them. *)
LEMMA Numbers ==
    ASSUME MirrorInv
    PROVE  /\ rev \in Nat /\ cursor \in Nat /\ cursor <= rev
           /\ mirror \in Rows /\ Behind(mirror)
           /\ cursor > 0 => holds(mirror, cursor)
           /\ local.cursor \in Nat /\ copy.cursor \in Nat /\ copy.cursor <= rev
           /\ local.mirror \in Rows /\ copy.mirror \in Rows
           /\ pull.reply.cursor \in Nat
  <1>1. Snapshot(mirror, cursor).mirror = mirror /\ Snapshot(mirror, cursor).cursor = cursor
    BY DEF Snapshot
  <1>2. QED
    BY <1>1, RequestFields DEF MirrorInv, Whole, Copies, StoreInv, PullInv, Forward, Numbered

(* A step of the server disturbs nothing the device has. *)
LEMMA ServerStep ==
    ASSUME MirrorInv, Grows, UNCHANGED <<mirror, cursor, pull, audit, stored>>
    PROVE  /\ Forward' /\ audit' = NoAudit
           /\ Whole(Snapshot(mirror, cursor))' /\ PullInv' /\ StoreInv'
  <1> USE Numbers
  <1>1. Forward /\ Forward'
    BY DEF MirrorInv, Forward, Grows
  <1>2. /\ mirror' = mirror /\ cursor' = cursor /\ pull' = pull /\ audit' = audit
        /\ writes' = writes /\ local' = local /\ copy' = copy
    BY DEF stored
  <1>3. rev \in Nat /\ rev' \in Nat /\ rev <= rev'
    BY DEF Grows, Numbered
  <1>4. \A m, c : c \in Nat /\ c <= rev =>
           /\ holds(m, c) => \A x \in Row : rowRev'[x] \in 0..c => m[x] = rowRev'[x]
           /\ Behind(m) => m \in Rows /\ \A x \in Row : m[x] <= rowRev'[x]
    BY <1>1, Later DEF Behind
  <1>5. ASSUME Whole(copy) PROVE Whole(copy)'
    BY <1>2, <1>3, <1>4, <1>5 DEF Whole, Behind, holds, Shown
  <1>6. Whole(Snapshot(mirror, cursor))'
    <2>1. /\ Snapshot(mirror, cursor).mirror = mirror /\ Snapshot(mirror, cursor).cursor = cursor
          /\ Snapshot(mirror, cursor)' = Snapshot(mirror, cursor)
      BY <1>2 DEF Snapshot
    <2>2. Whole(Snapshot(mirror, cursor))
      BY DEF MirrorInv
    <2>3. QED
      BY <1>2, <1>3, <1>4, <2>1, <2>2 DEF Whole, Behind, holds, Shown
  <1>7. PullInv'
    <2>1. PullInv
      BY DEF MirrorInv
    <2>2. /\ rowRev \in Rows /\ rowRev' \in Rows
          /\ \A x \in Row : /\ rowRev'[x] = rowRev[x] \/ rowRev'[x] = rev + 1
                            /\ rowRev[x] <= rowRev'[x]
      BY <1>1 DEF Forward, Numbered, Grows
    <2>3. ASSUME pull.pc \in Serving PROVE Asking(mirror, pull, rowRev', rev')
      <3>1. Asking(mirror, pull, rowRev, rev) /\ pull \in Pulling
        BY <2>1, <2>3 DEF PullInv
      <3>2. QED
        BY <1>3, <2>2, <3>1, AskingLater
    <2>4. pull.pc \in Serving => Asking(mirror, pull, rowRev, rev)'
      BY <1>2, <2>3
    <2>5. pull.pc \in {"storing", "stored"} => holds(mirror, pull.reply.cursor)'
      BY <1>2, <1>4, <2>1 DEF PullInv, holds, Shown
    <2>6. QED
      BY <1>2, <1>3, <2>1, <2>4, <2>5 DEF PullInv
  <1>8. StoreInv'
    <2>1. StoreInv /\ PullInv
      BY DEF MirrorInv
    <2>2. Snapshot(mirror, pull.reply.cursor)' = Snapshot(mirror, pull.reply.cursor)
      BY <1>2 DEF Snapshot
    <2>3. local.cursor > copy.cursor => holds(local.mirror, local.cursor)'
      BY <1>2, <1>4, <2>1 DEF StoreInv, holds, Shown
    <2>4. Behind(local.mirror)'
      BY <1>2, <1>4, <2>1 DEF StoreInv, Behind
    <2>5. pull.pc = "storing" /\ pull.saved => holds(local.mirror, pull.reply.cursor)'
      BY <1>2, <1>4, <2>1 DEF StoreInv, PullInv, holds, Shown
    <2>6. pull.pc = "stored" /\ pull.saved =>
              holds(local.mirror, pull.reply.cursor)' \/ copy.cursor = pull.reply.cursor
      BY <1>2, <1>4, <2>1 DEF StoreInv, PullInv, holds, Shown
    <2>7. Whole(copy)'
      BY <1>5, <2>1 DEF StoreInv
    <2>8. QED
      BY <1>2, <2>1, <2>2, <2>3, <2>4, <2>5, <2>6, <2>7 DEF StoreInv
  <1>9. QED
    BY <1>1, <1>2, <1>6, <1>7, <1>8 DEF MirrorInv

LEMMA CommitStep ==
    ASSUME MirrorInv, NEW rows, Commit(rows)
    PROVE  MirrorInv'
  <1>1. Grows /\ UNCHANGED <<mirror, cursor, pull, audit, stored>>
    BY CommitGrows DEF MirrorInv, Commit, memory
  <1>2. landing' = landing /\ acked' = acked /\ mirror' = mirror /\ push' = push
    BY DEF Commit, memory
  <1>3. LandingInv
    BY DEF MirrorInv
  <1>4. \A x \in Row : acked[x] = rowRev'[x] => acked[x] = rowRev[x]
    BY <1>1, <1>3 DEF LandingInv, Grows, MirrorInv, Forward, Numbered
  <1>5. AckedStaysVisible'
    BY <1>2, <1>3, <1>4 DEF LandingInv, AckedStaysVisible
  <1>6. \A x \in Row : acked[x] <= rev'
    BY <1>1, <1>3 DEF LandingInv, Grows, Numbered, MirrorInv, Forward
  <1>7. PushInv'
    BY <1>1, <1>2, <1>3 DEF LandingInv, PushInv, Grows, Numbered, MirrorInv, Forward
  <1>8. QED
    BY <1>1, <1>2, <1>3, <1>5, <1>6, <1>7, ServerStep DEF LandingInv, MirrorInv

(* The server applies a write of the device: nothing of it is shown before   *)
(* the answer arrives.                                                       *)
LEMMA PushServeStep ==
    ASSUME MirrorInv, NEW x \in Row, PushServe(x)
    PROVE  MirrorInv'
  <1>1. Grows /\ UNCHANGED <<mirror, cursor, pull, audit, stored>>
    BY PushGrows DEF MirrorInv, PushServe
  <1>2. /\ landing' = landing /\ acked' = acked /\ mirror' = mirror /\ rev' = rev + 1
        /\ push' = [pc |-> "served", row |-> x, rev |-> rev + 1]
    BY DEF PushServe
  <1>3. LandingInv /\ rev \in Nat
    BY DEF MirrorInv, Forward, Numbered
  <1>4. \A y \in Row : acked[y] = rowRev'[y] => acked[y] = rowRev[y]
    BY <1>1, <1>3 DEF LandingInv, Grows, MirrorInv, Forward, Numbered
  <1>5. AckedStaysVisible'
    BY <1>2, <1>3, <1>4 DEF LandingInv, AckedStaysVisible
  <1>6. \A y \in Row : acked[y] <= rev'
    BY <1>1, <1>3 DEF LandingInv, Grows, Numbered
  <1>7. PushInv'
    BY <1>2, <1>3 DEF PushInv
  <1>8. QED
    BY <1>1, <1>2, <1>3, <1>5, <1>6, <1>7, ServerStep DEF LandingInv, MirrorInv

-------------------------------------------------------------------------------
(* The steps of the device *)

LEMMA Quiet ==
    ASSUME MirrorInv, UNCHANGED server
    PROVE  Forward' /\ rev' = rev /\ rowRev' = rowRev
  BY IdleGrows DEF MirrorInv, server, Forward, Grows

(* A step of the pull that leaves everything else as it is. *)
LEMMA OnlyPull ==
    ASSUME MirrorInv, UNCHANGED <<server, memory, audit, stored>>, PullInv',
           pull.pc # "storing",
           pull.pc = "stored" => ~pull.saved \/ pull.reply.cursor = 0,
           pull'.pc \notin {"storing", "stored"}
    PROVE  MirrorInv'
  <1>1. /\ mirror' = mirror /\ cursor' = cursor /\ audit' = audit /\ landing' = landing
        /\ acked' = acked /\ writes' = writes /\ local' = local /\ copy' = copy
        /\ push' = push /\ rev' = rev /\ rowRev' = rowRev /\ Forward'
    BY Quiet DEF memory, stored
  <1>2. Whole(copy)' = Whole(copy)
    BY <1>1 DEF Whole, Behind, holds, Shown
  <1>3. Whole(Snapshot(mirror, cursor))' = Whole(Snapshot(mirror, cursor))
    BY <1>1 DEF Whole, Behind, holds, Shown, Snapshot
  <1>4. LandingInv'
    BY <1>1 DEF MirrorInv, LandingInv, PushInv, AckedStaysVisible
  <1>5. StoreInv'
    <2>1. StoreInv
      BY DEF MirrorInv
    <2>2. Behind(local.mirror)' = Behind(local.mirror)
      BY <1>1 DEF Behind
    <2>3. holds(local.mirror, local.cursor)' = holds(local.mirror, local.cursor)
      BY <1>1 DEF holds, Shown
    <2>4. copy.cursor <= cursor
      BY Numbers, <2>1 DEF StoreInv
    <2>5. QED
      BY <1>1, <1>2, <2>1, <2>2, <2>3, <2>4 DEF StoreInv
  <1>6. QED
    BY <1>1, <1>2, <1>3, <1>4, <1>5 DEF MirrorInv

(* The answer to a write arrives: the mirror has the row up to its cursor,   *)
(* and what is beyond stays on screen.                                       *)
LEMMA PushAnsweredStep ==
    ASSUME MirrorInv, NEW writtenAt \in 0..MaxRev, PushAnswered(writtenAt)
    PROVE  MirrorInv'
  <1> USE Numbers
  <1> DEFINE x == push.row
             own == push.rev
  <1>1. /\ push # NoPush /\ push' = NoPush
        /\ landing' = IF writtenAt > cursor THEN landing \cup {<<x, writtenAt>>} ELSE landing
        /\ acked' = [acked EXCEPT ![x] = own]
        /\ UNCHANGED <<server, mirror, cursor, pull, audit, stored>>
    BY DEF PushAnswered
  <1>2. LandingInv /\ x \in Row /\ own \in Nat /\ own # 0 /\ own <= rev
    BY <1>1 DEF MirrorInv, LandingInv, PushInv
  <1>3. writtenAt \in Nat /\ own <= writtenAt
    BY <1>2 DEF PushAnswered
  <1> HIDE DEF x, own
  <1>4. /\ rev' = rev /\ rowRev' = rowRev /\ mirror' = mirror /\ cursor' = cursor
        /\ Forward'
    BY <1>1, Quiet
  <1>5. \A y \in Row : acked'[y] = IF y = x THEN own ELSE acked[y]
    BY <1>1, <1>2 DEF LandingInv
  <1>6. landing' \subseteq Row \X Nat /\ landing \subseteq landing'
    BY <1>1, <1>2, <1>3 DEF LandingInv
  <1>7. ASSUME own = rowRev[x], ~(writtenAt > cursor) PROVE mirror[x] = own
    BY <1>2, <1>3, <1>7 DEF holds, Shown
  <1>8. AckedStaysVisible'
    <2> SUFFICES ASSUME NEW y \in Row, acked'[y] # 0, acked'[y] = rowRev[y]
                 PROVE  \/ mirror[y] >= acked'[y]
                        \/ \E l \in landing' : l[1] = y /\ l[2] >= acked'[y]
      BY <1>4 DEF AckedStaysVisible
    <2>1. CASE y # x
      BY <1>2, <1>5, <1>6, <2>1 DEF LandingInv, AckedStaysVisible
    <2>2. CASE y = x /\ writtenAt > cursor
      <3>1. <<x, writtenAt>> \in landing'
        BY <1>1, <2>2
      <3>2. QED
        BY <1>2, <1>3, <1>5, <2>2, <3>1
    <2>3. CASE y = x /\ ~(writtenAt > cursor)
      BY <1>2, <1>5, <1>7, <2>3
    <2>4. QED
      BY <2>1, <2>2, <2>3
  <1>9. LandingInv'
    BY <1>1, <1>2, <1>4, <1>5, <1>6, <1>8 DEF LandingInv, PushInv
  <1>10. Whole(copy)' = Whole(copy) /\ copy' = copy /\ local' = local /\ writes' = writes
         /\ pull' = pull /\ audit' = audit
    BY <1>1, <1>4 DEF stored, Whole, Behind, holds, Shown
  <1>11. Whole(Snapshot(mirror, cursor))' = Whole(Snapshot(mirror, cursor))
    BY <1>4 DEF Whole, Behind, holds, Shown, Snapshot
  <1>12. PullInv'
    <2>1. Asking(mirror, pull, rowRev, rev)' <=> Asking(mirror, pull, rowRev, rev)
      BY <1>4, <1>10
    <2>2. QED
      BY <1>4, <1>10, <2>1 DEF MirrorInv, PullInv, holds, Shown
  <1>13. StoreInv'
    BY <1>4, <1>10 DEF MirrorInv, StoreInv, Behind, holds, Shown, Snapshot
  <1>14. QED
    BY <1>4, <1>9, <1>10, <1>11, <1>12, <1>13 DEF MirrorInv

LEMMA NoPullType == NoPull \in Pulling /\ ~NoPull.reply.reset /\ NoPull.pc = "idle"
  BY NoReplyType DEF NoPull, Pulling, RequestPC, NoReply

(* The pull ends, or ends in vain. *)
LEMMA PullEnds ==
    ASSUME MirrorInv, UNCHANGED <<server, memory, audit, stored>>, pull' = NoPull,
           pull.pc # "storing", pull.pc = "stored" => ~pull.saved \/ pull.reply.cursor = 0
    PROVE  MirrorInv'
  <1>1. PullInv'
    BY NoPullType DEF PullInv, Serving
  <1>2. QED
    BY <1>1, OnlyPull, NoPullType

LEMMA PullStartStep ==
    ASSUME MirrorInv, PullStart
    PROVE  MirrorInv'
  <1> USE Numbers
  <1>1. /\ pull.pc = "idle" /\ pull' = [NoPull EXCEPT !.pc = "asked", !.since = cursor]
        /\ UNCHANGED <<server, memory, audit, stored>>
    BY DEF PullStart
  <1>2. /\ pull'.pc = "asked" /\ pull'.since = cursor /\ pull'.afterZero = FALSE
        /\ pull'.reply = NoPull.reply /\ pull' \in Pulling
    BY <1>1, NoPullType DEF NoPull, Pulling, RequestPC
  <1>3. cursor' = cursor /\ mirror' = mirror /\ rowRev' = rowRev /\ rev' = rev
    BY <1>1, Quiet DEF memory
  <1>4. Asking(mirror, pull', rowRev, rev)
    BY <1>2, NoPullType DEF Asking, holds
  <1>5. Asking(mirror, pull, rowRev, rev)'
    BY <1>3, <1>4
  <1>6. PullInv'
    BY <1>2, <1>3, <1>5, NoPullType DEF PullInv
  <1>7. QED
    BY <1>1, <1>2, <1>6, OnlyPull

LEMMA PullServeStep ==
    ASSUME MirrorInv, PullServe
    PROVE  MirrorInv'
  <1> USE Numbers
  <1>1. pull' \in handleSync(pull) /\ UNCHANGED <<server, memory, audit, stored>>
    BY DEF PullServe
  <1>2. PullInv /\ pull \in Pulling
    BY DEF MirrorInv, PullInv
  <1>3. Numbered /\ \A x \in Row : mirror[x] <= rowRev[x]
    BY DEF MirrorInv, Forward, Behind
  <1>4. pull.pc \in Serving => Asking(mirror, pull, rowRev, rev)
    BY <1>2 DEF PullInv
  <1>5. /\ Continues(pull', pull) /\ pull.pc \in Serving /\ pull'.pc \in Serving
        /\ Asking(mirror, pull', rowRev, rev)
    BY <1>1, <1>2, <1>3, <1>4, ServeKeeps
  <1>6. mirror' = mirror /\ cursor' = cursor /\ rowRev' = rowRev /\ rev' = rev
    BY <1>1, Quiet DEF memory
  <1>7. Asking(mirror, pull, rowRev, rev)'
    BY <1>5, <1>6
  <1>8. pull' \in Pulling /\ pull'.since = cursor /\ ~pull'.reply.reset
    BY <1>2, <1>5 DEF Continues, PullInv, Asking
  <1>9. PullInv'
    BY <1>5, <1>6, <1>7, <1>8 DEF PullInv, Serving
  <1>10. QED
    BY <1>1, <1>5, <1>9, OnlyPull DEF Serving

LEMMA PullApplyStep ==
    ASSUME MirrorInv, PullApply
    PROVE  MirrorInv'
  <1> USE Numbers
  <1> DEFINE new == merge(mirror, pull.reply.rows)
             next == pull.reply.cursor
  <1>1. PullInv /\ StoreInv /\ pull \in Pulling /\ pull.pc = "answered"
    BY DEF MirrorInv, PullInv, PullApply
  <1>2. /\ pull.since = cursor /\ cursor <= next /\ next <= rev /\ next \in Nat
        /\ holds(new, next) /\ Behind(new) /\ new \in Rows
        /\ \A x \in Row : mirror[x] <= new[x]
    <2>1. pull.since = cursor /\ Asking(mirror, pull, rowRev, rev)
      BY <1>1 DEF PullInv, Serving
    <2>2. new \in Rows /\ next \in Nat
      BY <1>1, RequestFields, MergeType
    <2>3. QED
      BY <1>1, <2>1, <2>2 DEF Asking, Behind, holds
  <1> HIDE DEF new
  <1>3. (IF next = 0 THEN cursor ELSE next) = next
    BY <1>2
  <1>4. PICK saved \in BOOLEAN :
           /\ commitMirror("pull", new, next, saved)
           /\ pull' = [pull EXCEPT !.pc = "storing", !.saved = saved, !.reply.cursor = next]
    BY <1>3 DEF PullApply, new
  <1>5. /\ UNCHANGED <<server, cursor, push, landing, acked, audit>> /\ mirror' = new
    BY DEF PullApply, new
  <1>6. rev' = rev /\ rowRev' = rowRev /\ Forward'
    BY <1>5, Quiet
  <1>7. pull' = [pull EXCEPT !.pc = "storing", !.saved = saved]
    BY <1>1, <1>4 DEF Pulling, Reply
  <1>8. /\ pull'.pc = "storing" /\ pull'.saved = saved /\ pull'.reply = pull.reply
        /\ pull' \in Pulling
    BY <1>1, <1>7 DEF Pulling, RequestPC
  <1>9. PullInv'
    BY <1>1, <1>2, <1>5, <1>6, <1>8 DEF PullInv, holds, Shown, Serving
  <1>10. /\ writes = <<>> /\ local \in Copies /\ Behind(local.mirror) /\ Whole(copy)
         /\ local.cursor <= cursor /\ copy.cursor <= cursor
         /\ local.cursor > copy.cursor => holds(local.mirror, local.cursor)
    BY <1>1 DEF StoreInv
  <1>11. /\ local' = IF saved THEN [local EXCEPT !.mirror = new] ELSE local
         /\ writes' = Append(writes, [who |-> "pull", snapshot |-> Snapshot(new, next)])
         /\ copy' = copy
    BY <1>4 DEF commitMirror
  <1>12. /\ local' \in Copies /\ local'.cursor = local.cursor
         /\ local'.mirror = IF saved THEN new ELSE local.mirror
    BY <1>2, <1>10, <1>11 DEF Copies
  <1>13. StoreInv'
    <2>1. writes' = <<[who |-> "pull", snapshot |-> Snapshot(mirror', pull'.reply.cursor)]>>
      BY <1>5, <1>8, <1>10, <1>11
    <2>2. Behind(local.mirror)'
      BY <1>2, <1>6, <1>10, <1>12 DEF Behind
    <2>3. Whole(copy)'
      BY <1>6, <1>10, <1>11 DEF Whole, Behind, holds, Shown
    <2>4. \A c \in Nat : c <= next => \A x \in Row : rowRev[x] \in 0..c => new[x] = rowRev[x]
      BY <1>2 DEF holds, Shown
    <2>5. local'.cursor > copy'.cursor => holds(local.mirror, local.cursor)'
      BY <1>2, <1>6, <1>10, <1>11, <1>12, <2>4 DEF holds, Shown
    <2>6. saved => holds(local.mirror, pull.reply.cursor)'
      BY <1>2, <1>6, <1>8, <1>12 DEF holds, Shown
    <2>7. QED
      BY <1>5, <1>8, <1>10, <1>11, <1>12, <2>1, <2>2, <2>3, <2>5, <2>6 DEF StoreInv
  <1>14. Whole(Snapshot(mirror, cursor))'
    <2>1. Snapshot(mirror, cursor)'.mirror = new /\ Snapshot(mirror, cursor)'.cursor = cursor
      BY <1>5 DEF Snapshot
    <2>2. Snapshot(mirror, cursor)' \in Copies
      BY <1>2, <1>5 DEF Snapshot, Copies
    <2>3. QED
      BY <1>2, <1>6, <2>1, <2>2 DEF Whole, Behind, holds, Shown
  <1>15. LandingInv'
    <2>1. LandingInv
      BY DEF MirrorInv
    <2>2. \A x \in Row : mirror[x] >= acked[x] => new[x] >= acked[x]
      BY <1>2, <2>1 DEF LandingInv, Rows, Absent
    <2>3. QED
      BY <1>5, <1>6, <2>1, <2>2 DEF LandingInv, PushInv, AckedStaysVisible
  <1>16. QED
    BY <1>5, <1>6, <1>9, <1>13, <1>14, <1>15 DEF MirrorInv

LEMMA AskingAnew ==
    ASSUME NEW next \in Nat, NEW zero \in BOOLEAN
    PROVE  LET p == [NoPull EXCEPT !.pc = "asked", !.since = next, !.afterZero = zero] IN
           /\ p \in Pulling /\ ~p.reply.reset /\ p.pc = "asked"
           /\ p.since = next /\ (p.afterZero <=> zero)
  <1> DEFINE p == [NoPull EXCEPT !.pc = "asked", !.since = next, !.afterZero = zero]
  <1>1. p \in Pulling
    BY NoPullType, Zenon DEF NoPull, Pulling, RequestPC
  <1>2. /\ p.pc = "asked" /\ p.reply = NoPull.reply /\ p.since = next
        /\ p.afterZero = zero
    BY NoPullType DEF NoPull, Pulling
  <1>3. QED
    BY <1>1, <1>2, NoPullType

LEMMA PullFinishStep ==
    ASSUME MirrorInv, PullFinish
    PROVE  MirrorInv'
  <1> USE Numbers
  <1> DEFINE next == pull.reply.cursor
             again == [NoPull EXCEPT !.pc = "asked", !.since = next, !.afterZero = next = 0]
  <1>1. /\ PullInv /\ StoreInv /\ pull \in Pulling /\ pull.pc = "stored" /\ pull.saved
        /\ cursor <= next /\ next <= rev /\ next \in Nat /\ holds(mirror, next)
    BY DEF MirrorInv, PullInv, PullFinish, durable
  <1>2. /\ cursor' = next /\ landing' = landed(next) /\ local' = [local EXCEPT !.cursor = next]
        /\ UNCHANGED <<server, mirror, push, acked, audit, writes, copy, faults>>
        /\ pull' \in {NoPull, again}
    BY DEF PullFinish
  <1>3. rev' = rev /\ rowRev' = rowRev /\ Forward'
    BY <1>2, Quiet
  <1>4. /\ again \in Pulling /\ ~again.reply.reset /\ again.pc = "asked"
        /\ again.since = next /\ (again.afterZero <=> next = 0)
    <2> DEFINE zero == next = 0
    <2>1. zero \in BOOLEAN /\ next \in Nat
      BY <1>1
    <2>2. again = [NoPull EXCEPT !.pc = "asked", !.since = next, !.afterZero = zero]
      OBVIOUS
    <2> HIDE DEF zero, next, again
    <2>3. /\ again \in Pulling /\ ~again.reply.reset /\ again.pc = "asked"
          /\ again.since = next /\ (again.afterZero <=> zero)
      BY <2>1, <2>2, AskingAnew
    <2>4. QED
      BY <2>3 DEF zero
  <1> HIDE DEF again
  <1>5. PullInv'
    <2>1. Asking(mirror, again, rowRev, rev)
      BY <1>1, <1>4 DEF Asking, holds
    <2>2. pull' = again => Asking(mirror, pull, rowRev, rev)'
      BY <1>2, <1>3, <2>1
    <2>3. QED
      BY <1>2, <1>4, <2>2, NoPullType DEF PullInv, Serving
  <1>6. /\ writes = <<>> /\ local \in Copies /\ Behind(local.mirror) /\ Whole(copy)
        /\ copy.cursor <= next
        /\ holds(local.mirror, next) \/ copy.cursor = next
    BY <1>1 DEF StoreInv
  <1>7. local' \in Copies /\ local'.cursor = next /\ local'.mirror = local.mirror
    BY <1>1, <1>2, <1>6 DEF Copies
  <1>8. StoreInv'
    <2>1. Behind(local.mirror)' /\ Whole(copy)'
      BY <1>2, <1>3, <1>6, <1>7 DEF Whole, Behind, holds, Shown
    <2>2. local'.cursor > copy'.cursor => holds(local.mirror, local.cursor)'
      BY <1>2, <1>3, <1>6, <1>7 DEF holds, Shown
    <2>3. pull'.pc \notin {"storing", "stored"}
      BY <1>2, <1>4, NoPullType
    <2>4. QED
      BY <1>1, <1>2, <1>6, <1>7, <2>1, <2>2, <2>3 DEF StoreInv
  <1>9. Whole(Snapshot(mirror, cursor))'
    <2>1. Snapshot(mirror, cursor)'.mirror = mirror /\ Snapshot(mirror, cursor)'.cursor = next
      BY <1>2 DEF Snapshot
    <2>2. Snapshot(mirror, cursor)' \in Copies
      BY <1>1, <1>2 DEF Snapshot, Copies
    <2>3. QED
      BY <1>1, <1>2, <1>3, <2>1, <2>2 DEF Whole, Behind, holds, Shown
  <1>10. LandingInv'
    <2>1. LandingInv
      BY DEF MirrorInv
    <2>2. landing' = {l \in landing : l[2] > next}
      BY <1>2 DEF landed
    <2>3. AckedStaysVisible'
      <3> SUFFICES ASSUME NEW x \in Row, acked[x] # 0, acked[x] = rowRev[x],
                          ~(mirror[x] >= acked[x])
                   PROVE  \E l \in landing' : l[1] = x /\ l[2] >= acked[x]
        BY <1>2, <1>3 DEF AckedStaysVisible
      <3>1. PICK l \in landing : l[1] = x /\ l[2] >= acked[x]
        BY <2>1 DEF LandingInv, AckedStaysVisible
      <3>2. acked[x] \in Nat /\ l[2] \in Nat
        BY <2>1 DEF LandingInv
      <3>3. ~(acked[x] <= next)
        <4>1. ASSUME acked[x] <= next PROVE FALSE
          <5>1. mirror[x] = acked[x]
            BY <1>1, <3>2, <4>1 DEF holds, Shown
          <5>2. QED
            BY <3>2, <5>1
        <4>2. QED
          BY <4>1
      <3>4. l \in landing'
        BY <1>1, <2>2, <3>1, <3>2, <3>3
      <3>5. QED
        BY <3>1, <3>4
    <2>4. QED
      BY <1>2, <1>3, <2>1, <2>2, <2>3 DEF LandingInv, PushInv
  <1>11. QED
    BY <1>2, <1>3, <1>5, <1>8, <1>9, <1>10 DEF MirrorInv

LEMMA StoreCopyStep ==
    ASSUME MirrorInv, NEW done \in BOOLEAN, StoreCopy(done)
    PROVE  MirrorInv'
  <1> USE Numbers
  <1> DEFINE next == pull.reply.cursor
             snap == Snapshot(mirror, next)
  <1>1. PullInv /\ StoreInv /\ pull \in Pulling /\ writes # <<>>
    BY DEF MirrorInv, PullInv, StoreCopy
  <1>2. pull.pc = "storing" /\ writes = <<[who |-> "pull", snapshot |-> snap]>>
    BY <1>1 DEF StoreInv
  <1>3. /\ Head(writes).who = "pull" /\ Head(writes).snapshot = snap /\ Tail(writes) = <<>>
    BY <1>2
  <1>4. /\ writes' = <<>> /\ copy' = IF done THEN snap ELSE copy
        /\ pull' = [pull EXCEPT !.pc = "stored", !.saved = @ \/ done] /\ audit' = audit
        /\ UNCHANGED <<server, memory, local, faults>>
    BY <1>3 DEF StoreCopy
  <1>5. /\ rev' = rev /\ rowRev' = rowRev /\ Forward' /\ mirror' = mirror /\ cursor' = cursor
        /\ push' = push /\ landing' = landing /\ acked' = acked /\ local' = local
    BY <1>4, Quiet DEF memory
  <1>6. /\ cursor <= next /\ next <= rev /\ next \in Nat /\ holds(mirror, next) /\ Behind(mirror)
    BY <1>1, <1>2 DEF PullInv
  <1>7. pull'.pc = "stored" /\ pull'.reply = pull.reply /\ pull' \in Pulling
        /\ (pull'.saved <=> pull.saved \/ done)
    <2> DEFINE either == pull.saved \/ done
    <2>1. either \in BOOLEAN
      OBVIOUS
    <2>2. pull' = [pull EXCEPT !.pc = "stored", !.saved = either]
      BY <1>1, <1>4 DEF Pulling
    <2> HIDE DEF either
    <2>3. pull'.pc = "stored" /\ pull'.reply = pull.reply /\ pull' \in Pulling /\ pull'.saved = either
      BY <1>1, <2>1, <2>2 DEF Pulling, RequestPC
    <2>4. QED
      BY <2>3 DEF either
  <1>8. PullInv'
    BY <1>1, <1>5, <1>6, <1>7 DEF PullInv, holds, Shown, Serving
  <1>9. snap \in Copies /\ snap.mirror = mirror /\ snap.cursor = next
    BY <1>6 DEF Snapshot, Copies
  <1> HIDE DEF snap
  <1>10. /\ local \in Copies /\ Behind(local.mirror) /\ Whole(copy)
         /\ local.cursor <= cursor /\ copy.cursor <= cursor
         /\ local.cursor > copy.cursor => holds(local.mirror, local.cursor)
         /\ pull.saved => holds(local.mirror, next)
    BY <1>1, <1>2 DEF StoreInv
  <1>11. Whole(copy)'
    <2>1. CASE done
      <3>1. copy' = snap
        BY <1>4, <2>1
      <3>2. QED
        BY <1>5, <1>6, <1>9, <3>1 DEF Whole, Behind, holds, Shown
    <2>2. CASE ~done
      BY <1>4, <1>5, <1>10, <2>2 DEF Whole, Behind, holds, Shown
    <2>3. QED
      BY <2>1, <2>2
  <1>12. copy'.cursor = IF done THEN next ELSE copy.cursor
    BY <1>4, <1>9
  <1>13. StoreInv'
    <2>1. Behind(local.mirror)'
      BY <1>5, <1>10 DEF Behind
    <2>2. local'.cursor > copy'.cursor => holds(local.mirror, local.cursor)'
      BY <1>5, <1>6, <1>10, <1>12 DEF holds, Shown
    <2>3. pull'.saved => holds(local.mirror, pull.reply.cursor)' \/ copy'.cursor = next
      BY <1>5, <1>7, <1>10, <1>12 DEF holds, Shown
    <2>4. copy'.cursor <= cursor' \/ (pull'.saved /\ copy'.cursor <= next)
      BY <1>5, <1>6, <1>7, <1>10, <1>12
    <2>5. QED
      BY <1>4, <1>5, <1>7, <1>10, <1>11, <2>1, <2>2, <2>3, <2>4 DEF StoreInv
  <1>14. Whole(Snapshot(mirror, cursor))'
    BY <1>5 DEF MirrorInv, Whole, Behind, holds, Shown, Snapshot
  <1>15. LandingInv'
    BY <1>5 DEF MirrorInv, LandingInv, PushInv, AckedStaysVisible
  <1>16. QED
    BY <1>4, <1>5, <1>8, <1>13, <1>14, <1>15 DEF MirrorInv

LEMMA LoadedWhole ==
    ASSUME MirrorInv
    PROVE  Whole(Loaded) /\ copy.cursor <= Loaded.cursor /\ local.cursor <= Loaded.cursor
  <1> USE Numbers
  <1>1. StoreInv
    BY DEF MirrorInv
  <1>2. CASE copy.cursor >= local.cursor
    BY <1>1, <1>2 DEF Loaded, StoreInv
  <1>3. CASE ~(copy.cursor >= local.cursor)
    <2>1. Loaded = local /\ holds(local.mirror, local.cursor) /\ local.cursor > copy.cursor
      BY <1>1, <1>3 DEF Loaded, StoreInv
    <2>2. local.cursor <= rev
      BY <1>1 DEF StoreInv
    <2>3. QED
      BY <1>1, <2>1, <2>2 DEF StoreInv, Whole
  <1>4. QED
    BY <1>2, <1>3

LEMMA RestartStep ==
    ASSUME MirrorInv, Restart
    PROVE  MirrorInv'
  <1> USE Numbers
  <1>1. /\ mirror' = Loaded.mirror /\ cursor' = Loaded.cursor
        /\ push' = NoPush /\ landing' = {} /\ acked' = [x \in Row |-> 0]
        /\ pull' = NoPull /\ audit' = NoAudit /\ writes' = <<>>
        /\ UNCHANGED <<server, local, copy, failures>>
    BY DEF Restart
  <1>2. rev' = rev /\ rowRev' = rowRev /\ Forward'
    BY <1>1, Quiet
  <1>3. Whole(Loaded) /\ copy.cursor <= Loaded.cursor /\ local.cursor <= Loaded.cursor
    BY LoadedWhole
  <1>4. Whole(Snapshot(mirror, cursor))'
    <2>1. Loaded \in Copies
      BY <1>3 DEF Whole
    <2>2. /\ Snapshot(mirror, cursor)'.mirror = Loaded.mirror
          /\ Snapshot(mirror, cursor)'.cursor = Loaded.cursor
          /\ Snapshot(mirror, cursor)' \in Copies
      BY <1>1, <2>1 DEF Snapshot, Copies
    <2>3. QED
      BY <1>2, <1>3, <2>2 DEF Whole, Behind, holds, Shown
  <1>5. PullInv'
    BY <1>1, NoPullType DEF PullInv, Serving
  <1>6. StoreInv'
    <2>1. StoreInv
      BY DEF MirrorInv
    <2>2. Whole(copy)' /\ Behind(local.mirror)'
      BY <1>1, <1>2, <2>1 DEF StoreInv, Whole, Behind, holds, Shown
    <2>3. local'.cursor > copy'.cursor => holds(local.mirror, local.cursor)'
      BY <1>1, <1>2, <2>1 DEF StoreInv, holds, Shown
    <2>4. QED
      BY <1>1, <1>3, <2>1, <2>2, <2>3, NoPullType DEF StoreInv
  <1>7. LandingInv'
    BY <1>1, <1>2 DEF LandingInv, PushInv, AckedStaysVisible
  <1>8. QED
    BY <1>1, <1>2, <1>4, <1>5, <1>6, <1>7 DEF MirrorInv

LEMMA MirrorInit ==
    ASSUME MaxRestores = 0, ~Audits, Init
    PROVE  MirrorInv
  <1>1. NoRows \in Rows /\ \A x \in Row : NoRows[x] = Absent
    BY DEF NoRows, Rows
  <1>2. /\ rev = 0 /\ rowRev = [x \in Row |-> IF x \in Seed THEN 0 ELSE Absent]
        /\ mirror = NoRows /\ cursor = 0 /\ push = NoPush /\ landing = {} /\ pull = NoPull /\ audit = NoAudit
        /\ writes = <<>> /\ local = Snapshot(NoRows, 0) /\ copy = Snapshot(NoRows, 0)
        /\ acked = [x \in Row |-> 0] /\ restores = 0
    BY DEF Init
  <1>3. Forward
    BY <1>2 DEF Forward, Numbered, Rows, Absent
  <1>4. Behind(NoRows)
    BY <1>1, <1>2 DEF Behind, Absent
  <1>5. Snapshot(NoRows, 0) \in Copies /\ Snapshot(NoRows, 0).mirror = NoRows
        /\ Snapshot(NoRows, 0).cursor = 0
    BY <1>1 DEF Snapshot, Copies
  <1>6. Whole(Snapshot(NoRows, 0))
    BY <1>2, <1>4, <1>5 DEF Whole
  <1>7. PullInv
    BY <1>2, NoPullType DEF PullInv, Serving
  <1>8. StoreInv
    BY <1>2, <1>4, <1>5, <1>6, NoPullType DEF StoreInv
  <1>9. LandingInv
    BY <1>2 DEF LandingInv, PushInv, AckedStaysVisible
  <1>10. QED
    BY <1>2, <1>3, <1>6, <1>7, <1>8, <1>9 DEF MirrorInv

LEMMA MirrorNext ==
    ASSUME MirrorInv, [Next]_vars
    PROVE  MirrorInv'
  <1> USE Numbers
  <1>1. audit.pc = "idle" /\ ~Audits
    BY DEF MirrorInv, NoAudit
  <1>2. ~AuditStart /\ ~Audit /\ ~AuditFail
    BY <1>1 DEF handleSync, AuditStart, Audit, AuditServe, AuditPage, AuditStage, AuditInstall,
                AuditAbandon, AuditFail
  <1>3. ~Backup /\ ~Restore
    BY DEF Backup, Restore, MirrorInv, Forward
  <1>4. ~PullReset /\ ~PullAudited
    BY DEF PullReset, PullAudited, MirrorInv, PullInv, Pulling, RequestPC
  <1>5. ASSUME PullFail PROVE MirrorInv'
    BY <1>5, PullEnds DEF PullFail, faults
  <1>6. ASSUME PullAbandon PROVE MirrorInv'
    BY <1>6, PullEnds DEF PullAbandon, durable, stalled
  <1>7. ASSUME UNCHANGED vars PROVE MirrorInv'
    <2>1. /\ mirror' = mirror /\ cursor' = cursor /\ pull' = pull /\ audit' = audit
          /\ writes' = writes /\ local' = local /\ copy' = copy /\ landing' = landing
          /\ acked' = acked /\ push' = push /\ rev' = rev /\ rowRev' = rowRev
          /\ restores' = restores
      BY <1>7 DEF vars, server, memory, stored
    <2>2. Asking(mirror, pull, rowRev, rev)' <=> Asking(mirror, pull, rowRev, rev)
      BY <2>1
    <2>3. QED
      BY <2>1, <2>2 DEF MirrorInv, Forward, Numbered, Whole, Behind, holds, Shown, Snapshot,
                  PullInv, StoreInv, LandingInv, PushInv, AckedStaysVisible
  <1>8. QED
    BY <1>2, <1>3, <1>4, <1>5, <1>6, <1>7, CommitStep, PushServeStep, PushAnsweredStep,
       PullStartStep, PullServeStep, PullApplyStep, PullFinishStep, StoreCopyStep, RestartStep,
       MirrorAssumption DEF Next, Pull, Stores

LEMMA MirrorAlways ==
    ASSUME MaxRestores = 0, ~Audits
    PROVE  Spec => []MirrorInv
  <1>1. Init => MirrorInv
    BY MirrorInit
  <1>2. MirrorInv /\ [Next]_vars => MirrorInv'
    BY MirrorNext
  <1>3. QED
    BY <1>1, <1>2, PTL DEF Spec

LEMMA WholeIsComplete ==
    ASSUME NEW s, Whole(s)
    PROVE  complete(s)
  BY DEF Whole, complete, holds, Shown

(* Between two pulls, and while one asks, the mirror misses nothing up to    *)
(* its cursor (pull: apply first, then the cursor), whatever the server      *)
(* commits meanwhile, however it cuts its pages and whatever fails.          *)
THEOREM MirrorMissesNothing ==
    ASSUME MaxRestores = 0, ~Audits
    PROVE  Spec => []NothingBehindCursor
  <1>1. MirrorInv => NothingBehindCursor
    BY WholeIsComplete DEF MirrorInv, NothingBehindCursor
  <1>2. QED
    BY <1>1, MirrorAlways, PTL

(* Of the two stored copies, one of which may be older or torn, the start    *)
(* takes one that misses nothing up to its cursor (createSync, recovered).   *)
THEOREM MirrorSurvives ==
    ASSUME MaxRestores = 0, ~Audits
    PROVE  Spec => []SurvivesRestart
  <1>1. MirrorInv => SurvivesRestart
    BY LoadedWhole, WholeIsComplete DEF SurvivesRestart
  <1>2. QED
    BY <1>1, MirrorAlways, PTL

(* The effect of an acknowledged write stays on screen until the mirror has  *)
(* the row (landed): no pull takes it away too early.                        *)
THEOREM MirrorShowsAcked ==
    ASSUME MaxRestores = 0, ~Audits
    PROVE  Spec => []AckedStaysVisible
  <1>1. MirrorInv => AckedStaysVisible
    BY DEF MirrorInv, LandingInv
  <1>2. QED
    BY <1>1, MirrorAlways, PTL

-------------------------------------------------------------------------------
(* An audit beside the pulls *)

(* What an audit has put aside is whole up to where it asks from, and what   *)
(* it writes up to the cursor of the last answer.                            *)
StagingInv ==
    LET next == audit.reply.cursor IN
    /\ audit \in Auditing
    /\ audit.pc \in Serving =>
          Behind(audit.snapshot) /\ Asking(audit.snapshot, audit, rowRev, rev)
    /\ audit.pc \in {"storing", "stored"} => next <= rev /\ holds(audit.snapshot, next)

(* One write of the audit at most is on its way, and only while it waits.    *)
OneWrite(q) ==
    /\ \E S : q \in Seq(S)
    /\ \A i \in DOMAIN q : q[i].who # "pull" => audit.pc = "storing"
    /\ \A i, j \in DOMAIN q : q[i].who # "pull" /\ q[j].who # "pull" => i = j

AuditInv == Forward /\ StagingInv /\ OneWrite(writes)

(* Once the last answer is there. *)
LEMMA Answered ==
    ASSUME StagingInv, audit.pc = "answered"
    PROVE  LET next == audit.reply.cursor IN
           /\ audit \in Auditing /\ ~audit.reply.reset /\ next \in Nat /\ next <= rev
           /\ staged \in Rows /\ holds(staged, next) /\ Behind(staged)
  <1>1. /\ audit \in Auditing /\ Behind(audit.snapshot)
        /\ Asking(audit.snapshot, audit, rowRev, rev)
    BY DEF StagingInv, Serving
  <1>2. audit.snapshot \in Rows /\ audit.reply.rows \in Rows /\ audit.reply.cursor \in Nat
    BY <1>1, RequestFields DEF Behind
  <1>3. staged \in Rows
    BY <1>2, MergeType DEF staged
  <1>4. QED
    BY <1>1, <1>2, <1>3 DEF Asking, Behind, holds, staged

LEMMA NoAuditType == NoAudit \in Auditing /\ NoAudit.pc = "idle"
  BY NoReplyType DEF NoAudit, Auditing, RequestPC

LEMMA FreshAudit ==
    LET a == [NoAudit EXCEPT !.pc = "asked"] IN
    a \in Auditing /\ a.pc = "asked" /\ a.since = 0 /\ a.afterZero = FALSE /\ a.snapshot = NoRows
    /\ ~a.reply.reset
  <1> DEFINE a == [NoAudit EXCEPT !.pc = "asked"]
  <1>1. a \in Auditing
    BY NoAuditType, Zenon DEF NoAudit, Auditing, RequestPC
  <1>2. a.pc = "asked" /\ a.since = NoAudit.since /\ a.afterZero = NoAudit.afterZero
        /\ a.snapshot = NoAudit.snapshot /\ a.reply = NoAudit.reply
    BY NoAuditType DEF Auditing
  <1>3. QED
    BY <1>1, <1>2 DEF NoAudit, NoReply

LEMMA NoRowsBehind ==
    ASSUME Numbered
    PROVE  Behind(NoRows)
  BY DEF NoRows, Behind, Numbered, Rows, Absent

(* An audit that is idle, has just begun or has been given up. *)
LEMMA StagingFresh ==
    ASSUME AuditInv, Forward', audit' = NoAudit \/ audit' = [NoAudit EXCEPT !.pc = "asked"]
    PROVE  StagingInv'
  <1>1. CASE audit' = NoAudit
    BY <1>1, NoAuditType DEF StagingInv, Serving
  <1>2. CASE audit' = [NoAudit EXCEPT !.pc = "asked"]
    <2> DEFINE a == [NoAudit EXCEPT !.pc = "asked"]
    <2>1. /\ a \in Auditing /\ a.pc = "asked" /\ a.since = 0 /\ a.afterZero = FALSE
          /\ a.snapshot = NoRows /\ ~a.reply.reset
      BY FreshAudit
    <2>2. audit' = a
      BY <1>2
    <2> HIDE DEF a
    <2>3. Behind(NoRows)'
      BY DEF Forward, NoRows, Behind, Numbered, Rows, Absent
    <2>4. Behind(audit.snapshot)'
      BY <2>1, <2>2, <2>3 DEF Behind, NoRows
    <2>5. rev' \in Nat
      BY DEF Forward, Numbered
    <2>6. Asking(a.snapshot, a, rowRev', rev')
      BY <2>1, <2>5 DEF Asking
    <2>7. Asking(audit.snapshot, audit, rowRev, rev)'
      BY <2>2, <2>6
    <2>8. QED
      BY <2>1, <2>2, <2>4, <2>7 DEF StagingInv
  <1>3. QED
    BY <1>1, <1>2

(* The server goes on. *)
LEMMA StagingKept ==
    ASSUME AuditInv, Grows, audit' = audit
    PROVE  StagingInv'
  <1>1. Forward /\ StagingInv /\ audit \in Auditing
    BY DEF AuditInv, StagingInv
  <1>2. rev \in Nat /\ rev' \in Nat /\ rev <= rev'
    BY DEF Grows, Numbered, AuditInv, Forward
  <1>3. audit.reply.cursor \in Nat
    BY <1>1, RequestFields
  <1>4. \A m, c : c \in Nat /\ c <= rev =>
           /\ holds(m, c) => \A x \in Row : rowRev'[x] \in 0..c => m[x] = rowRev'[x]
           /\ Behind(m) => m \in Rows /\ \A x \in Row : m[x] <= rowRev'[x]
    BY <1>1, Later DEF Behind
  <1>5. ASSUME audit.pc \in Serving
        PROVE  Behind(audit.snapshot)' /\ Asking(audit.snapshot, audit, rowRev, rev)'
    <2>1. /\ Behind(audit.snapshot) /\ audit.snapshot \in Rows
          /\ Asking(audit.snapshot, audit, rowRev, rev)
      BY <1>1, <1>5 DEF StagingInv, Behind
    <2>2. Behind(audit.snapshot)'
      BY <1>2, <1>4, <2>1 DEF Behind
    <2>3. /\ rowRev \in Rows /\ rowRev' \in Rows
          /\ \A x \in Row : /\ rowRev'[x] = rowRev[x] \/ rowRev'[x] = rev + 1
                            /\ rowRev[x] <= rowRev'[x]
      BY <1>1 DEF Forward, Numbered, Grows
    <2>4. Asking(audit.snapshot, audit, rowRev', rev')
      BY <1>1, <1>2, <2>1, <2>3, AskingLater
    <2>5. QED
      BY <2>2, <2>4
  <1>7. ASSUME audit.pc \in {"storing", "stored"}
        PROVE  audit.reply.cursor <= rev' /\ holds(audit.snapshot, audit.reply.cursor)'
    <2>1. audit.reply.cursor <= rev /\ holds(audit.snapshot, audit.reply.cursor)
      BY <1>1, <1>7 DEF StagingInv
    <2>2. holds(audit.snapshot, audit.reply.cursor)'
      BY <1>3, <1>4, <2>1 DEF holds, Shown
    <2>3. QED
      BY <1>2, <1>3, <2>1, <2>2
  <1>8. QED
    BY <1>1, <1>5, <1>7 DEF StagingInv

LEMMA AuditServeStaging ==
    ASSUME AuditInv, AuditServe
    PROVE  StagingInv' /\ audit.pc \in Serving
  <1>1. audit' \in handleSync(audit) /\ UNCHANGED server
    BY DEF AuditServe
  <1>2. /\ audit \in Auditing /\ audit.snapshot \in Rows /\ Numbered
        /\ audit.pc \in Serving =>
              Behind(audit.snapshot) /\ Asking(audit.snapshot, audit, rowRev, rev)
    BY DEF AuditInv, StagingInv, Forward, Auditing
  <1>3. audit.pc \in Serving
    BY <1>1 DEF handleSync, Serving
  <1>4. \A x \in Row : audit.snapshot[x] <= rowRev[x]
    BY <1>2, <1>3 DEF Behind
  <1>5. /\ Continues(audit', audit) /\ audit'.pc \in Serving
        /\ Asking(audit.snapshot, audit', rowRev, rev)
    BY <1>1, <1>2, <1>4, ServeKeeps
  <1>6. audit' \in Auditing /\ audit'.snapshot = audit.snapshot
    BY <1>2, <1>5 DEF Continues
  <1>7. rowRev' = rowRev /\ rev' = rev
    BY <1>1 DEF server
  <1>8. Behind(audit.snapshot)' /\ Asking(audit.snapshot, audit, rowRev, rev)'
    BY <1>2, <1>3, <1>5, <1>6, <1>7 DEF Behind
  <1>9. QED
    BY <1>3, <1>5, <1>6, <1>8 DEF StagingInv, Serving

LEMMA AuditPageStaging ==
    ASSUME AuditInv, AuditPage
    PROVE  StagingInv'
  <1> DEFINE next == audit.reply.cursor
             again == next = audit.since
  <1>1. /\ audit.pc = "answered" /\ UNCHANGED server
        /\ audit' = IF again /\ (next # 0 \/ audit.afterZero)
                    THEN [NoAudit EXCEPT !.pc = "stalled"]
                    ELSE [audit EXCEPT !.pc = "asked", !.since = next, !.afterZero = again,
                                       !.snapshot = staged]
    BY DEF AuditPage
  <1>2. /\ audit \in Auditing /\ next \in Nat /\ next <= rev /\ holds(staged, next)
        /\ Behind(staged) /\ staged \in Rows /\ audit.since \in Nat /\ ~audit.reply.reset
    BY <1>1, Answered, RequestFields DEF AuditInv
  <1>3. rowRev' = rowRev /\ rev' = rev
    BY <1>1 DEF server
  <1>4. CASE again /\ (next # 0 \/ audit.afterZero)
    <2>1. audit' = [NoAudit EXCEPT !.pc = "stalled"]
      BY <1>1, <1>4
    <2>2. audit' \in Auditing /\ audit'.pc = "stalled"
      BY <2>1, NoAuditType DEF NoAudit, Auditing, RequestPC
    <2>3. QED
      BY <2>2 DEF StagingInv, Serving
  <1>5. CASE ~(again /\ (next # 0 \/ audit.afterZero))
    <2>1. again \in BOOLEAN /\ (again => next = 0)
      BY <1>5
    <2>2. audit' = [audit EXCEPT !.pc = "asked", !.since = next, !.afterZero = again,
                                 !.snapshot = staged]
      BY <1>1, <1>5
    <2> HIDE DEF again, next
    <2> DEFINE s == staged
    <2>3. s \in Rows
      BY <1>2
    <2> HIDE DEF s
    <2>4. audit' = [audit EXCEPT !.pc = "asked", !.since = next, !.afterZero = again,
                                 !.snapshot = s]
      BY <2>2 DEF s
    <2>5. audit' \in Auditing
      BY <1>2, <2>1, <2>3, <2>4, Zenon DEF Auditing, RequestPC
    <2>6. /\ audit'.pc = "asked" /\ audit'.since = next /\ audit'.afterZero = again
          /\ audit'.snapshot = s /\ audit'.reply = audit.reply
      BY <1>2, <2>4 DEF Auditing
    <2>7. Behind(audit.snapshot)'
      BY <1>2, <1>3, <2>6 DEF Behind, s
    <2>8. Asking(s, audit', rowRev, rev)
      BY <1>2, <2>1, <2>6 DEF Asking, holds, Shown, s, next
    <2>9. Asking(audit.snapshot, audit, rowRev, rev)'
      BY <1>3, <2>6, <2>8
    <2>10. QED
      BY <2>5, <2>6, <2>7, <2>9 DEF StagingInv
  <1>6. QED
    BY <1>4, <1>5

LEMMA AuditStageStaging ==
    ASSUME AuditInv, AuditStage
    PROVE  StagingInv' /\ audit'.pc = "storing" /\ audit.pc = "answered"
  <1>1. PICK saved \in BOOLEAN :
           audit' = [audit EXCEPT !.pc = "storing", !.snapshot = staged, !.saved = saved]
    BY DEF AuditStage
  <1>2. audit.pc = "answered" /\ UNCHANGED server
    BY DEF AuditStage
  <1>3. /\ audit \in Auditing /\ audit.reply.cursor <= rev /\ holds(staged, audit.reply.cursor)
        /\ staged \in Rows
    BY <1>2, Answered DEF AuditInv
  <1>4. rowRev' = rowRev /\ rev' = rev
    BY <1>2 DEF server
  <1> DEFINE s == staged
  <1>5. s \in Rows /\ holds(s, audit.reply.cursor)
    BY <1>3
  <1>6. audit' = [audit EXCEPT !.pc = "storing", !.snapshot = s, !.saved = saved]
    BY <1>1
  <1> HIDE DEF s
  <1>7. /\ audit'.pc = "storing" /\ audit'.snapshot = s /\ audit'.reply = audit.reply
        /\ audit' \in Auditing
    BY <1>3, <1>5, <1>6 DEF Auditing, RequestPC
  <1>8. holds(audit.snapshot, audit.reply.cursor)'
    BY <1>4, <1>5, <1>7 DEF holds, Shown
  <1>9. QED
    BY <1>2, <1>3, <1>4, <1>7, <1>8 DEF StagingInv, Serving

LEMMA OneWriteIdle ==
    ASSUME OneWrite(writes), audit' = audit, writes' = writes
    PROVE  OneWrite(writes)'
  BY DEF OneWrite

LEMMA OneWriteNone ==
    ASSUME OneWrite(writes), audit.pc # "storing", writes' = writes
    PROVE  OneWrite(writes)'
  BY DEF OneWrite

(* A write joins the queue: one of a pull, or the only one of the audit. *)
LEMMA OneWriteMore ==
    ASSUME OneWrite(writes), NEW w, writes' = Append(writes, w),
           \/ w.who = "pull" /\ audit' = audit
           \/ audit.pc # "storing" /\ audit'.pc = "storing"
    PROVE  OneWrite(writes)'
  <1>1. PICK S : writes \in Seq(S)
    BY DEF OneWrite
  <1>2. writes' \in Seq(S \cup {w}) /\ DOMAIN writes' = 1..(Len(writes) + 1)
        /\ writes'[Len(writes) + 1] = w /\ \A i \in 1..Len(writes) : writes'[i] = writes[i]
    BY <1>1
  <1>3. DOMAIN writes = 1..Len(writes) /\ Len(writes) \in Nat
    BY <1>1
  <1>4. \A i \in DOMAIN writes' : i = Len(writes) + 1 \/ i \in DOMAIN writes
    BY <1>2, <1>3
  <1>5. CASE w.who = "pull" /\ audit' = audit
    BY <1>2, <1>3, <1>4, <1>5 DEF OneWrite
  <1>6. CASE audit.pc # "storing" /\ audit'.pc = "storing"
    BY <1>2, <1>3, <1>4, <1>6 DEF OneWrite
  <1>7. QED
    BY <1>5, <1>6

(* The first write leaves the queue; with it, if it is the audit's, the      *)
(* audit's last.                                                             *)
LEMMA OneWriteLess ==
    ASSUME OneWrite(writes), writes # <<>>, writes' = Tail(writes),
           Head(writes).who = "pull" => audit' = audit
    PROVE  OneWrite(writes)'
  <1>1. PICK S : writes \in Seq(S)
    BY DEF OneWrite
  <1>2. writes' \in Seq(S) /\ Len(writes) \in Nat /\ DOMAIN writes = 1..Len(writes)
        /\ DOMAIN writes' = 1..(Len(writes) - 1) /\ Head(writes) = writes[1] /\ Len(writes) > 0
        /\ \A i \in 1..(Len(writes) - 1) : writes'[i] = writes[i + 1]
    BY <1>1
  <1>3. \A i \in DOMAIN writes' : i + 1 \in DOMAIN writes /\ i + 1 # 1 /\ writes'[i] = writes[i + 1]
    BY <1>2
  <1>4. \A i, j \in DOMAIN writes' : i + 1 = j + 1 => i = j
    BY <1>2
  <1>5. CASE Head(writes).who # "pull"
    <2>1. \A i \in DOMAIN writes' : writes'[i].who = "pull"
      BY <1>2, <1>3, <1>5 DEF OneWrite
    <2>2. QED
      BY <1>2, <2>1 DEF OneWrite
  <1>6. CASE Head(writes).who = "pull"
    BY <1>2, <1>3, <1>4, <1>6 DEF OneWrite
  <1>7. QED
    BY <1>5, <1>6

(* Whatever leaves the audit alone, or starts it, or gives it up before it   *)
(* has something to write.                                                   *)
LEMMA AuditAside ==
    ASSUME AuditInv, [Next]_vars, audit' = audit,
           writes' = writes \/ \E w : w.who = "pull" /\ writes' = Append(writes, w)
    PROVE  AuditInv'
  <1>1. Grows /\ Forward'
    BY ServerGrows DEF AuditInv
  <1>2. StagingInv'
    BY <1>1, StagingKept
  <1>3. OneWrite(writes)'
    BY OneWriteIdle, OneWriteMore DEF AuditInv
  <1>4. QED
    BY <1>1, <1>2, <1>3 DEF AuditInv

LEMMA AuditAnew ==
    ASSUME AuditInv, [Next]_vars, audit.pc # "storing", writes' = writes,
           audit' = NoAudit \/ audit' = [NoAudit EXCEPT !.pc = "asked"]
    PROVE  AuditInv'
  <1>1. Forward'
    BY ServerGrows DEF AuditInv
  <1>2. StagingInv'
    BY <1>1, StagingFresh
  <1>3. OneWrite(writes)'
    BY OneWriteNone DEF AuditInv
  <1>4. QED
    BY <1>1, <1>2, <1>3 DEF AuditInv

LEMMA AuditStoreCopy ==
    ASSUME AuditInv, NEW done \in BOOLEAN, StoreCopy(done), [Next]_vars
    PROVE  AuditInv'
  <1>1. /\ writes # <<>> /\ writes' = Tail(writes) /\ UNCHANGED server
        /\ Head(writes).who = "pull" => audit' = audit
        /\ Head(writes).who # "pull" => audit' = [audit EXCEPT !.pc = "stored", !.saved = @ \/ done]
        /\ Forward /\ StagingInv /\ OneWrite(writes)
    BY DEF StoreCopy, AuditInv
  <1>2. Grows /\ Forward'
    BY <1>1, ServerGrows
  <1>3. OneWrite(writes)'
    BY <1>1, OneWriteLess
  <1>4. CASE Head(writes).who = "pull"
    BY <1>1, <1>2, <1>3, <1>4, StagingKept DEF AuditInv
  <1>5. CASE Head(writes).who # "pull"
    <2>1. PICK S : writes \in Seq(S)
      BY <1>1 DEF OneWrite
    <2>2. 1 \in DOMAIN writes /\ Head(writes) = writes[1]
      BY <1>1, <2>1
    <2>3. audit.pc = "storing"
      BY <1>1, <1>5, <2>2 DEF OneWrite
    <2>4. /\ audit \in Auditing /\ audit.reply.cursor <= rev
          /\ holds(audit.snapshot, audit.reply.cursor) /\ audit.saved \in BOOLEAN
      BY <1>1, <2>3, RequestFields DEF StagingInv
    <2> DEFINE saved == audit.saved \/ done
    <2>5. saved \in BOOLEAN
      OBVIOUS
    <2>6. audit' = [audit EXCEPT !.pc = "stored", !.saved = saved]
      BY <1>1, <1>5
    <2> HIDE DEF saved
    <2>7. audit' \in Auditing
      BY <2>4, <2>5, <2>6, Zenon DEF Auditing, RequestPC
    <2>8. audit'.pc = "stored" /\ audit'.reply = audit.reply /\ audit'.snapshot = audit.snapshot
      BY <2>4, <2>6 DEF Auditing
    <2>9. rowRev' = rowRev /\ rev' = rev
      BY <1>1 DEF server
    <2>10. StagingInv'
      BY <2>4, <2>7, <2>8, <2>9 DEF StagingInv, Serving, holds, Shown
    <2>11. QED
      BY <1>2, <1>3, <2>10 DEF AuditInv
  <1>6. QED
    BY <1>4, <1>5

LEMMA AuditStageStep ==
    ASSUME AuditInv, AuditStage, [Next]_vars
    PROVE  AuditInv'
  <1>1. StagingInv' /\ audit'.pc = "storing" /\ audit.pc = "answered"
    BY AuditStageStaging
  <1>2. \E w : writes' = Append(writes, w)
    BY DEF AuditStage, commitMirror
  <1>3. OneWrite(writes)'
    BY <1>1, <1>2, OneWriteMore DEF AuditInv
  <1>4. Forward'
    BY ServerGrows DEF AuditInv
  <1>5. QED
    BY <1>1, <1>3, <1>4 DEF AuditInv

LEMMA AuditInit ==
    ASSUME MaxRestores = 0, Init
    PROVE  AuditInv
  <1>1. /\ rev = 0 /\ rowRev = [x \in Row |-> IF x \in Seed THEN 0 ELSE Absent]
        /\ audit = NoAudit /\ writes = <<>> /\ restores = 0
    BY DEF Init
  <1>2. Forward
    BY <1>1 DEF Forward, Numbered, Rows, Absent
  <1>3. StagingInv
    BY <1>1, NoAuditType DEF StagingInv, Serving
  <1>4. <<>> \in Seq({}) /\ DOMAIN <<>> = {}
    OBVIOUS
  <1>5. OneWrite(writes)
    BY <1>1, <1>4 DEF OneWrite
  <1>6. QED
    BY <1>2, <1>3, <1>5 DEF AuditInv

LEMMA AuditNext ==
    ASSUME AuditInv, [Next]_vars
    PROVE  AuditInv'
  <1>1. Forward'
    BY ServerGrows DEF AuditInv
  <1>2. ~Backup /\ ~Restore
    BY DEF Backup, Restore, AuditInv, Forward
  <1>3. ASSUME \/ \E rows \in OtherWrites : Commit(rows)
               \/ \E x \in OwnWrites : PushServe(x)
               \/ \E writtenAt \in 0..MaxRev : PushAnswered(writtenAt)
               \/ PullStart \/ PullServe \/ PullFinish \/ PullAbandon \/ PullAudited \/ PullFail
        PROVE  AuditInv'
    <2>1. audit' = audit /\ writes' = writes
      BY <1>3 DEF Commit, PushServe, PushAnswered, PullStart, PullServe, PullFinish, PullAbandon,
                  PullAudited, PullFail, stored
    <2>2. QED
      BY <2>1, AuditAside
  <1>4. ASSUME PullApply PROVE AuditInv'
    <2>1. audit' = audit
      BY <1>4 DEF PullApply
    <2>2. \E m, c : writes' = Append(writes, [who |-> "pull", snapshot |-> Snapshot(m, c)])
      BY <1>4 DEF PullApply, commitMirror
    <2>3. \E w : w.who = "pull" /\ writes' = Append(writes, w)
      BY <2>2
    <2>4. QED
      BY <2>1, <2>3, AuditAside
  <1>5. ASSUME PullReset PROVE AuditInv'
    <2>1. writes' = writes
      BY <1>5 DEF PullReset, stored
    <2>2. audit' = audit \/ (audit.pc = "idle" /\ audit' = [NoAudit EXCEPT !.pc = "asked"])
      BY <1>5 DEF PullReset
    <2>3. QED
      BY <2>1, <2>2, AuditAside, AuditAnew
  <1>6. ASSUME AuditStart \/ AuditInstall \/ AuditAbandon \/ AuditFail PROVE AuditInv'
    <2>1. writes' = writes /\ audit.pc # "storing"
      BY <1>6 DEF AuditStart, AuditInstall, AuditAbandon, AuditFail, stored
    <2>2. audit' = NoAudit \/ audit' = [NoAudit EXCEPT !.pc = "asked"]
      BY <1>6 DEF AuditStart, AuditInstall, AuditAbandon, AuditFail
    <2>3. QED
      BY <2>1, <2>2, AuditAnew
  <1>7. ASSUME AuditServe PROVE AuditInv'
    <2>1. StagingInv' /\ writes' = writes /\ audit.pc # "storing"
      BY <1>7, AuditServeStaging DEF AuditServe, stored, Serving
    <2>2. QED
      BY <1>1, <2>1, OneWriteNone DEF AuditInv
  <1>8. ASSUME AuditPage PROVE AuditInv'
    <2>1. StagingInv' /\ writes' = writes /\ audit.pc # "storing"
      BY <1>8, AuditPageStaging DEF AuditPage, stored
    <2>2. QED
      BY <1>1, <2>1, OneWriteNone DEF AuditInv
  <1>9. ASSUME Restart PROVE AuditInv'
    <2>1. audit' = NoAudit /\ writes' = <<>>
      BY <1>9 DEF Restart
    <2>2. StagingInv'
      BY <1>1, <2>1, StagingFresh
    <2>3. <<>> \in Seq({}) /\ DOMAIN <<>> = {}
      OBVIOUS
    <2>4. OneWrite(writes)'
      BY <2>1, <2>3 DEF OneWrite
    <2>5. QED
      BY <1>1, <2>2, <2>4 DEF AuditInv
  <1>10. ASSUME UNCHANGED vars PROVE AuditInv'
    BY <1>10, AuditAside DEF vars, stored
  <1>11. QED
    BY <1>2, <1>3, <1>4, <1>5, <1>6, <1>7, <1>8, <1>9, <1>10, AuditStoreCopy, AuditStageStep
    DEF Next, Pull, Audit, Stores

(* An audit that has come to its end has every row up to its cursor.         *)
AuditStagesWhole ==
    audit.pc \in {"storing", "stored"} => complete(Snapshot(audit.snapshot, audit.reply.cursor))

(* What auditMirror writes to the stored copies and then puts in the place   *)
(* of the mirror misses nothing up to its cursor, however many pages it took, *)
(* whatever the server commits between them and whatever pulls run beside.   *)
THEOREM AuditInstallsWhole ==
    ASSUME MaxRestores = 0
    PROVE  Spec => []AuditStagesWhole
  <1>1. Init => AuditInv
    BY AuditInit
  <1>2. AuditInv /\ [Next]_vars => AuditInv'
    BY AuditNext
  <1>3. AuditInv => AuditStagesWhole
    BY DEF AuditInv, StagingInv, AuditStagesWhole, Snapshot, complete, holds, Shown
  <1>4. QED
    BY <1>1, <1>2, <1>3, PTL DEF Spec
===============================================================================
