--------------------------- MODULE TranslationProofs ---------------------------
(***************************************************************************)
(* Proofs about Translation: for any users, pages, chapters, plans and       *)
(* bounds the books of the month and of the week balance and keep their      *)
(* limits and the bill is covered, no page has two payers, no saved answer   *)
(* is replaced by less, and a name is worded as by its earliest page.        *)
(***************************************************************************)
EXTENDS Translation, FiniteSetTheorems, WellFoundedInduction, TLAPS

Typed ==
    /\ now \in Nat /\ usd \in Nat /\ reserved \in Nat
    /\ todo \in Seq(SUBSET Job)
    /\ row \in [Target -> [Engine -> Stored]]
    /\ claim \in [Target -> [Engine -> Nat \cup {None}]]
    /\ pages \in [User -> Nat] /\ chapters \in [User -> SUBSET Chapter]
    /\ req \in [Request -> Req]
    /\ troubles \in 0..MaxTroubles

(* What a request has had of the month and of the week, by where it is. *)
Reserving == {"count", "unreserve", "check", "save", "refund"} \cup Asking
Untouched == {"new", "look", "second", "claim", "wait", "admit"}
Had(q) ==
    /\ q.pc \in Untouched => ~q.holds
    /\ q.pc \in Untouched \cup {"count", "unreserve"} => ~q.counted /\ ~q.opened
    /\ q.pc \in Reserving => q.holds
    /\ q.pc \in Asking \cup {"check", "save", "refund"} => q.counted = ~q.repairing
    /\ q.opened => q.counted
    /\ q.pc = "count" => ~q.repairing

(* How much a request has asked for, by where it is. *)
Asked(q) ==
    /\ q.pc \in Untouched \cup {"count", "unreserve", "ask"} => q.cost = 0
    /\ q.pc = "again" => q.cost <= 1
    /\ q.pc \in {"check", "correct"} => q.cost <= 2

Phases == \A r \in Request : Had(req[r]) /\ Asked(req[r])

MonthBooks == ~AnswerLost /\ Ample => BudgetHeld

WeekBooks ==
    \A u \in User :
        /\ IsFiniteSet(chapters[u])
        /\ pages[u] = Cardinality(Counted(u))
        /\ Cardinality(chapters[u]) = Cardinality(Openers(u))
        /\ \/ Cardinality(chapters[u]) <= PageLimit
           \/ Cardinality(chapters[u]) <= ChapterLimit
        /\ \A r \in Openers(u) : chapterKey(r) \in chapters[u]
        /\ \A r, q \in Openers(u) : r # q => chapterKey(r) # chapterKey(q)

IInv == Typed /\ Phases /\ MonthBooks /\ WeekBooks

-------------------------------------------------------------------------------
(* Facts about the requests *)

LEMMA RequestFinite ==
    ASSUME NEW S \in SUBSET Request
    PROVE  IsFiniteSet(S) /\ Cardinality(S) \in Nat
  <1>1. IsFiniteSet(Request)
    BY TranslationAssumption, FS_Interval, SMT DEF Request
  <1> QED BY <1>1, FS_Subset, FS_CardinalityType

LEMMA Least ==
    ASSUME NEW S, S \subseteq Nat, S # {}
    PROVE  \E m \in S : \A n \in S : m <= n
  <1>1. PICK m \in S : \A n \in S : ~(<<n, m>> \in OpToRel(<, Nat))
    BY NatLessThanWellFounded, WFMin
  <1>2. \A n \in S : ~(n < m)
    BY <1>1 DEF OpToRel
  <1> QED BY <1>2

(* A request joins or leaves a set of requests. *)
LEMMA OneMore ==
    ASSUME NEW S \in SUBSET Request, NEW r \in Request, r \notin S
    PROVE  Cardinality(S \cup {r}) = Cardinality(S) + 1
  BY RequestFinite, FS_AddElement

LEMMA OneLess ==
    ASSUME NEW S \in SUBSET Request, NEW r \in S
    PROVE  Cardinality(S \ {r}) = Cardinality(S) - 1 /\ Cardinality(S) > 0
  <1>1. Cardinality(S \ {r}) = Cardinality(S) - 1
    BY RequestFinite, FS_RemoveElement
  <1>2. Cardinality(S \ {r}) \in Nat /\ Cardinality(S) \in Nat
    BY RequestFinite
  <1> QED BY <1>1, <1>2, SMT

(* One field of a request is replaced by a value of its type. *)
LEMMA Setters ==
    ASSUME NEW q \in Req
    PROVE  /\ \A p \in PC : [q EXCEPT !.pc = p] \in Req
           /\ \A c \in Request : [q EXCEPT !.call = c] \in Req
           /\ \A j \in Job : [q EXCEPT !.job = j] \in Req
           /\ \A e \in Engine : [q EXCEPT !.engine = e] \in Req
           /\ \A t \in Nat : [q EXCEPT !.at = t] \in Req
           /\ \A b \in BOOLEAN : [q EXCEPT !.repairing = b] \in Req
           /\ \A a \in Stored : [q EXCEPT !.got = a] \in Req
           /\ \A n \in 0..3 : [q EXCEPT !.cost = n] \in Req
           /\ \A n \in Nat : [q EXCEPT !.unheard = n] \in Req
           /\ \A b \in BOOLEAN : [q EXCEPT !.holds = b] \in Req
           /\ \A b \in BOOLEAN : [q EXCEPT !.counted = b] \in Req
           /\ \A b \in BOOLEAN : [q EXCEPT !.opened = b] \in Req
           /\ \A b \in BOOLEAN : [q EXCEPT !.billed = b] \in Req
           /\ \A w \in {"none", "due", "kept"} : [q EXCEPT !.word = w] \in Req
  BY SMT DEF Req

(* What the books and the phases see of a request is in q as in o. *)
SameHad(q, o) == /\ q.holds = o.holds /\ q.counted = o.counted /\ q.opened = o.opened
                 /\ q.job = o.job /\ q.billed = o.billed

(* What becomes of a request that goes on or ends. *)
LEMMA Forgotten ==
    ASSUME NEW q \in Req, NEW p \in PC
    PROVE  LET f == forgotten(q, p) IN
           /\ f \in Req /\ f.pc = p /\ f.at = 0 /\ f.call = q.call /\ f.cost = q.cost
           /\ f.word = q.word /\ SameHad(f, q)
  <1> DEFINE a == [q EXCEPT !.pc = p]
             b == [a EXCEPT !.engine = q.job.kind]
             c == [b EXCEPT !.at = 0]
             d == [c EXCEPT !.repairing = FALSE]
             e == [d EXCEPT !.got = "none"]
  <1>1. q.job.kind \in Engine
    BY SMT DEF Req, Job, Engine
  <1>2. a \in Req
    BY Setters
  <1>3. b \in Req
    BY <1>1, <1>2, Setters
  <1>4. c \in Req
    BY <1>3, Setters, 0 \in Nat
  <1>5. d \in Req
    BY <1>4, Setters
  <1>6. e \in Req
    BY <1>5, Setters DEF Stored
  <1>7. forgotten(q, p) = e
    BY DEF forgotten
  <1>8. LET f == forgotten(q, p) IN
        /\ f.pc = p /\ f.at = 0 /\ f.call = q.call /\ f.cost = q.cost
        /\ f.word = q.word /\ f.job = q.job
        /\ f.holds = q.holds /\ f.counted = q.counted /\ f.opened = q.opened
        /\ f.billed = q.billed
    BY SMT DEF Req, forgotten
  <1> QED BY <1>6, <1>7, <1>8 DEF SameHad

LEMMA Onward ==
    ASSUME NEW q \in Req, NEW p \in PC
    PROVE  /\ at(q, p) \in Req /\ at(q, p).pc = p
           /\ at(q, p).call = q.call /\ at(q, p).cost = q.cost
           /\ at(q, p).word = q.word /\ SameHad(at(q, p), q)
           /\ p \notin Ended => /\ at(q, p).engine = q.engine /\ at(q, p).at = q.at
                                /\ at(q, p).repairing = q.repairing
                                /\ at(q, p).got = q.got
  <1>1. CASE p \in Ended
    BY <1>1, Forgotten DEF at
  <1>2. CASE p \notin Ended
    <2> DEFINE g == [q EXCEPT !.pc = p]
    <2>1. g \in Req
      BY Setters
    <2>2. /\ g.pc = p /\ g.call = q.call /\ g.cost = q.cost /\ g.word = q.word
          /\ g.holds = q.holds /\ g.counted = q.counted /\ g.opened = q.opened
          /\ g.job = q.job /\ g.engine = q.engine /\ g.at = q.at /\ g.billed = q.billed
          /\ g.repairing = q.repairing /\ g.got = q.got
      BY SMT DEF Req
    <2> QED BY <1>2, <2>1, <2>2 DEF at, SameHad
  <1> QED BY <1>1, <1>2

(* A look at a row of an engine. *)
LEMMA Found ==
    ASSUME Typed, NEW r \in Request, NEW e \in {"text", "fast"}
    PROVE  LET f == found(r, e)  old == row[target(r)][e] IN
           /\ f \in Req /\ SameHad(f, req[r]) /\ f.cost = req[r].cost
           /\ f.call = req[r].call /\ f.word = req[r].word
           /\ f.pc = IF old = "full" THEN "done" ELSE "claim"
           /\ old # "full" =>
                /\ f.engine = e /\ f.at = req[r].at /\ f.repairing = (old = "holes")
                /\ f.got = IF old = "holes" THEN "holes" ELSE "none"
  <1> DEFINE old == row[target(r)][e]
             q == req[r]
  <1>0. q \in Req
    BY DEF Typed
  <1>1. CASE old = "full"
    BY <1>0, <1>1, Onward DEF found, PC, Ended
  <1>2. CASE old # "full"
    <2> DEFINE k == old = "holes"
               g == IF old = "holes" THEN "holes" ELSE "none"
               a == [q EXCEPT !.pc = "claim"]
               b == [a EXCEPT !.engine = e]
               c == [b EXCEPT !.repairing = k]
               d == [c EXCEPT !.got = g]
    <2>1. a \in Req
      BY <1>0, Setters DEF PC
    <2>2. b \in Req
      BY <2>1, Setters DEF Engine, Kind
    <2>3. c \in Req
      BY <2>2, Setters
    <2>4. d \in Req
      BY <2>3, Setters DEF Stored, Answer
    <2>5. found(r, e) = d
      BY <1>2 DEF found
    <2> HIDE DEF k, g
    <2>6. /\ d.pc = "claim" /\ d.call = q.call /\ d.cost = q.cost /\ d.word = q.word
          /\ d.holds = q.holds /\ d.counted = q.counted /\ d.opened = q.opened
          /\ d.job = q.job /\ d.engine = e /\ d.at = q.at
          /\ d.repairing = k /\ d.got = g /\ d.billed = q.billed
      BY <1>0, SMT DEF Req
    <2> QED BY <1>2, <2>4, <2>5, <2>6 DEF SameHad, k, g
  <1> QED BY <1>1, <1>2

(* A reply to a question. *)
LEMMA Replied ==
    ASSUME NEW q \in Req, q.pc \in Asking, Had(q), Asked(q), NEW a \in Reply,
           NEW f, f = textAnswered(q, a) \/ f = pageAnswered(q, a)
    PROVE  /\ f \in Req /\ Had(f) /\ Asked(f) /\ SameHad(f, q)
           /\ f.call = q.call /\ f.word = q.word /\ f.at = q.at
           /\ f.engine = q.engine /\ f.repairing = q.repairing
           /\ f.pc \in {"again", "check", "save", "refund"}
           /\ f.got = q.got \/ f.got \in Answer
  <1> DEFINE n == q.cost + bill(a)
             m == q.unheard + hidden(a)
             paid == [q EXCEPT !.cost = n, !.unheard = m]
  <1>1. /\ n \in 0..3 /\ n <= q.cost + 1
        /\ q.pc = "ask" => n <= 1
        /\ q.pc = "again" => n <= 2
        /\ m \in Nat
    <2>1. q.cost \in 0..3
      BY SMT DEF Req
    <2>2. /\ q.pc = "ask" => q.cost = 0
          /\ q.pc = "again" => q.cost <= 1
          /\ q.pc = "correct" => q.cost <= 2
      BY DEF Asked
    <2>3. bill(a) \in {0, 1}
      BY DEF bill
    <2>4. q.pc = "ask" \/ q.pc = "again" \/ q.pc = "correct"
      BY DEF Asking
    <2>5. \A c \in 0..3, b \in {0, 1} :
            c + b <= c + 1 /\ (c = 0 => c + b <= 1) /\ (c <= 1 => c + b <= 2) /\ (c <= 2 => c + b \in 0..3)
      BY SMT
    <2>6. q.unheard \in Nat /\ hidden(a) \in {0, 1}
      BY SMT DEF Req, hidden
    <2>7. m \in Nat
      BY <2>6, SMT
    <2> QED BY <2>1, <2>2, <2>3, <2>4, <2>5, <2>7, SMT
  <1>11. asked(q, a) = paid
    BY DEF asked
  <1> HIDE DEF n, m
  <1>2. /\ paid \in Req /\ paid.cost = n
        /\ paid.pc = q.pc /\ paid.got = q.got /\ paid.job = q.job
        /\ paid.call = q.call /\ paid.word = q.word /\ paid.at = q.at
        /\ paid.engine = q.engine /\ paid.repairing = q.repairing
        /\ paid.holds = q.holds /\ paid.counted = q.counted /\ paid.opened = q.opened
        /\ paid.billed = q.billed
    <2> DEFINE c == [q EXCEPT !.cost = n]
    <2>2. c \in Req
      BY <1>1, Setters
    <2>3. paid = [c EXCEPT !.unheard = m]
      OBVIOUS
    <2> HIDE DEF c
    <2>1. paid \in Req
      BY <1>1, <2>2, <2>3, Setters
    <2> QED BY <1>1, <2>1, SMT DEF Req, c
  <1>3. ASSUME NEW g \in Stored, NEW p \in {"again", "check", "save", "refund"}
        PROVE  LET h == [paid EXCEPT !.got = g, !.pc = p] IN
               /\ h \in Req /\ h.pc = p /\ h.got = g /\ h.cost = n /\ h.job = q.job
               /\ h.call = q.call /\ h.word = q.word /\ h.at = q.at
               /\ h.engine = q.engine /\ h.repairing = q.repairing
               /\ h.holds = q.holds /\ h.counted = q.counted /\ h.opened = q.opened
               /\ h.billed = q.billed
    <2> HIDE DEF paid
    <2> DEFINE i == [paid EXCEPT !.got = g]
               h == [i EXCEPT !.pc = p]
    <2>1. i \in Req
      BY <1>2, Setters
    <2>2. h \in Req
      <3> HIDE DEF i
      <3>1. p \in PC
        BY DEF PC, Asking
      <3> QED BY <2>1, <3>1, Setters
    <2>3. /\ h.pc = p /\ h.got = g /\ h.cost = n /\ h.job = q.job
          /\ h.call = q.call /\ h.word = q.word /\ h.at = q.at
          /\ h.engine = q.engine /\ h.repairing = q.repairing
          /\ h.holds = q.holds /\ h.counted = q.counted /\ h.opened = q.opened
          /\ h.billed = q.billed
      BY <1>2, SMT DEF Req
    <2> QED BY <2>2, <2>3
  <1>4. q.got \in Stored /\ Answer \subseteq Stored
    BY DEF Req, Stored
  <1>5. \E g \in Stored, p \in {"again", "check", "save", "refund"} :
          /\ f = [paid EXCEPT !.got = g, !.pc = p]
          /\ g = q.got \/ g \in Answer
          /\ p = "again" => q.pc = "ask"
          /\ p = "check" => q.pc \in {"ask", "again"}
    <2>1. f = [paid EXCEPT !.pc = "refund"] => f = [paid EXCEPT !.got = q.got, !.pc = "refund"]
      <3>1. ASSUME NEW o \in Req PROVE [o EXCEPT !.got = o.got] = o
        BY <3>1, SMT DEF Req
      <3> HIDE DEF paid
      <3>2. [paid EXCEPT !.got = q.got] = paid
        BY <3>1, <1>2
      <3>3. [paid EXCEPT !.got = q.got, !.pc = "refund"]
                = [[paid EXCEPT !.got = q.got] EXCEPT !.pc = "refund"]
        OBVIOUS
      <3> QED BY <3>2, <3>3
    <2>2. CASE f = pageAnswered(q, a)
      BY <2>1, <2>2, <1>4, <1>11 DEF pageAnswered, Answer
    <2>3. CASE f = textAnswered(q, a)
      <3>1. CASE q.pc = "ask" /\ a \in Answer
        BY <2>3, <3>1, <1>4, <1>11 DEF textAnswered
      <3>2. CASE q.pc = "again" /\ (a \in Answer \/ ~q.repairing)
        <4>1. merged(q, a) \in Stored /\ (merged(q, a) = q.got \/ merged(q, a) \in Answer)
          BY <1>4 DEF merged, Answer, Stored
        <4>2. f = [paid EXCEPT !.got = merged(q, a), !.pc = "check"]
          BY <2>3, <3>2, <1>11 DEF textAnswered
        <4> QED BY <4>1, <4>2, <3>2
      <3>3. CASE q.pc = "correct"
        <4>1. f = [paid EXCEPT !.got = IF a = "full" THEN "full" ELSE q.got, !.pc = "save"]
          BY <2>3, <3>3, <1>2, <1>11 DEF textAnswered
        <4> QED BY <4>1, <1>4 DEF Answer
      <3>4. CASE ~(\/ q.pc = "ask" /\ a \in Answer
                   \/ q.pc = "again" /\ (a \in Answer \/ ~q.repairing)
                   \/ q.pc = "correct")
        BY <2>1, <2>3, <3>4, <1>4, <1>11 DEF textAnswered
      <3> QED BY <3>1, <3>2, <3>3, <3>4
    <2> QED BY <2>2, <2>3
  <1>6. PICK g \in Stored, p \in {"again", "check", "save", "refund"} :
          /\ f = [paid EXCEPT !.got = g, !.pc = p]
          /\ g = q.got \/ g \in Answer
          /\ p = "again" => q.pc = "ask"
          /\ p = "check" => q.pc \in {"ask", "again"}
    BY <1>5
  <1>7. /\ f \in Req /\ f.pc = p /\ f.got = g /\ f.cost = n /\ f.job = q.job
        /\ f.call = q.call /\ f.word = q.word /\ f.at = q.at
        /\ f.engine = q.engine /\ f.repairing = q.repairing
        /\ f.holds = q.holds /\ f.counted = q.counted /\ f.opened = q.opened
        /\ f.billed = q.billed
    <2> HIDE DEF paid
    <2> DEFINE h == [paid EXCEPT !.got = g, !.pc = p]
    <2>1. /\ h \in Req /\ h.pc = p /\ h.got = g /\ h.cost = n /\ h.job = q.job
          /\ h.call = q.call /\ h.word = q.word /\ h.at = q.at
          /\ h.engine = q.engine /\ h.repairing = q.repairing
          /\ h.holds = q.holds /\ h.counted = q.counted /\ h.opened = q.opened
          /\ h.billed = q.billed
      BY <1>3, ZenonT(30)
    <2> QED BY <1>6, <2>1
  <1>8. q.holds /\ q.counted = ~q.repairing /\ (q.opened => q.counted)
    BY DEF Had, Reserving
  <1>9. Had(f)
    BY <1>7, <1>8 DEF Had, Reserving, Untouched, Asking
  <1>10. Asked(f)
    BY <1>1, <1>6, <1>7, SMT DEF Asked, Untouched
  <1> QED BY <1>6, <1>7, <1>9, <1>10 DEF SameHad

-------------------------------------------------------------------------------
(* The books, when one request joins or leaves their sets. *)

LEMMA MonthKept ==
    ASSUME MonthBooks, UNCHANGED month,
           \A q \in Request : req'[q].holds = req[q].holds
    PROVE  MonthBooks'
  <1>1. Holders' = Holders
    BY DEF Holders
  <1> QED BY <1>1 DEF MonthBooks, BudgetHeld, month

LEMMA MonthReserved ==
    ASSUME Typed, MonthBooks, NEW r \in Request, ~req[r].holds, req'[r].holds,
           \A q \in Request \ {r} : req'[q].holds = req[q].holds,
           usd + reserved < Budget, reserved' = reserved + Reserve, usd' = usd
    PROVE  MonthBooks'
  <1>0. SUFFICES ASSUME BudgetHeld PROVE BudgetHeld'
    BY DEF MonthBooks
  <1>1. Holders' = Holders \cup {r} /\ r \notin Holders /\ Holders \in SUBSET Request
    BY DEF Holders
  <1>2. Cardinality(Holders') = Cardinality(Holders) + 1 /\ Cardinality(Holders) \in Nat
    BY <1>1, OneMore, RequestFinite
  <1>3. \A a, n \in Nat : a * (n + 1) = a * n + a
    BY SMT
  <1>4. reserved' = Reserve * Cardinality(Holders')
    BY <1>0, <1>2, <1>3, TranslationAssumption DEF BudgetHeld
  <1>5. usd' + reserved' < Budget + Reserve
    BY TranslationAssumption, SMT DEF Typed
  <1> QED BY <1>4, <1>5 DEF BudgetHeld

LEMMA MonthReturned ==
    ASSUME Typed, MonthBooks, NEW r \in Request, req[r].holds, ~req'[r].holds,
           \A q \in Request \ {r} : req'[q].holds = req[q].holds,
           NEW c \in 0..3, usd' = usd + c, reserved' = less(reserved, Reserve)
    PROVE  MonthBooks' /\ usd' \in Nat /\ reserved' \in Nat
  <1>8. usd' \in Nat /\ reserved' \in Nat
    BY TranslationAssumption, SMT DEF Typed, less
  <1>0. SUFFICES ASSUME Ample, BudgetHeld PROVE BudgetHeld'
    BY <1>8 DEF MonthBooks
  <1>1. Holders' = Holders \ {r} /\ r \in Holders /\ Holders \in SUBSET Request
    BY DEF Holders
  <1> DEFINE n == Cardinality(Holders')
  <1>2. Cardinality(Holders) = n + 1 /\ n \in Nat
    <2>1. n \in Nat /\ Cardinality(Holders) \in Nat
      BY <1>1, RequestFinite
    <2>2. n = Cardinality(Holders) - 1
      BY <1>1, OneLess
    <2> QED BY <2>1, <2>2, SMT
  <1> HIDE DEF n
  <1>3. \A a, m \in Nat : a * (m + 1) = a * m + a /\ a * m \in Nat
    BY SMT
  <1>4. reserved = Reserve * n + Reserve /\ Reserve * n \in Nat
    BY <1>0, <1>2, <1>3, TranslationAssumption DEF BudgetHeld
  <1>5. reserved' = Reserve * n /\ reserved' \in Nat
    BY <1>4, TranslationAssumption, SMT DEF less
  <1>6. usd' + reserved' < Budget + Reserve
    <2>1. usd + reserved < Budget + Reserve /\ usd \in Nat
      BY <1>0 DEF BudgetHeld, Typed
    <2> DEFINE x == Reserve * n
    <2>2. x \in Nat /\ reserved = x + Reserve /\ reserved' = x
      BY <1>4, <1>5
    <2> HIDE DEF x
    <2>3. Reserve \in Nat /\ Reserve >= 3 /\ Budget \in Nat
      BY <1>0, TranslationAssumption DEF Ample
    <2> QED BY <2>1, <2>2, <2>3, SMT
  <1> QED BY <1>5, <1>6 DEF BudgetHeld, n

LEMMA WeekKept ==
    ASSUME WeekBooks, UNCHANGED week,
           \A q \in Request : /\ req'[q].counted = req[q].counted
                              /\ req'[q].opened = req[q].opened
                              /\ req[q].counted \/ req[q].opened => req'[q].job = req[q].job
    PROVE  WeekBooks'
  <1>1. ASSUME NEW u \in User PROVE Counted(u)' = Counted(u) /\ Openers(u)' = Openers(u)
    BY DEF Counted, Openers, user
  <1>2. ASSUME NEW u \in User, NEW r \in Openers(u) PROVE chapterKey(r)' = chapterKey(r)
    BY DEF Openers, chapterKey, kind, target
  <1> QED BY <1>1, <1>2 DEF WeekBooks, week

(* A request keeps its job, and with it the key of its chapter. *)
LEMMA WeekNext ==
    ASSUME \A q \in Request : req'[q].job = req[q].job,
           \A u \in User :
              /\ IsFiniteSet(chapters'[u])
              /\ pages'[u] = Cardinality(Counted(u)')
              /\ Cardinality(chapters'[u]) = Cardinality(Openers(u)')
              /\ \/ Cardinality(chapters'[u]) <= PageLimit
                 \/ Cardinality(chapters'[u]) <= ChapterLimit
              /\ \A q \in Openers(u)' : chapterKey(q) \in chapters'[u]
              /\ \A q, p \in Openers(u)' : q # p => chapterKey(q) # chapterKey(p)
    PROVE  WeekBooks'
  <1>1. SUFFICES ASSUME NEW u \in User
        PROVE /\ \A q \in Openers(u)' : chapterKey(q)' \in chapters'[u]
              /\ \A q, p \in Openers(u)' : q # p => chapterKey(q)' # chapterKey(p)'
    BY DEF WeekBooks
  <1>2. ASSUME NEW q \in Openers(u)' PROVE chapterKey(q)' = chapterKey(q)
    BY <1>2 DEF Openers, chapterKey, kind, target
  <1>3. ASSUME NEW q \in Openers(u)' PROVE chapterKey(q)' \in chapters'[u]
    BY <1>2, <1>3
  <1>4. ASSUME NEW q \in Openers(u)', NEW p \in Openers(u)', q # p
        PROVE  chapterKey(q)' # chapterKey(p)'
    <2>1. chapterKey(q)' = chapterKey(q) /\ chapterKey(p)' = chapterKey(p)
      BY <1>2
    <2> QED BY <1>4, <2>1
  <1> QED BY <1>3, <1>4

LEMMA WeekCounted ==
    ASSUME Typed, WeekBooks, Phases, NEW r \in Request, NEW opens \in BOOLEAN,
           ~req[r].counted, ~req[r].opened,
           req'[r].counted, req'[r].opened = opens,
           \A q \in Request : req'[q].job = req[q].job,
           \A q \in Request \ {r} : /\ req'[q].counted = req[q].counted
                                    /\ req'[q].opened = req[q].opened,
           opens => /\ chapterKey(r) # None /\ chapterKey(r) \notin chapters[user(r)]
                    /\ under(user(r)),
           pages' = [pages EXCEPT ![user(r)] = @ + 1],
           chapters' = [chapters EXCEPT ![user(r)] = IF opens THEN @ \cup {chapterKey(r)} ELSE @]
    PROVE  WeekBooks'
  <1> DEFINE v == user(r)
  <1>0. v \in User /\ \A q \in Request : user(q)' = user(q) /\ chapterKey(q)' = chapterKey(q)
    BY DEF Typed, Req, Job, user, chapterKey, kind, target
  <1>1. SUFFICES ASSUME NEW u \in User
        PROVE /\ IsFiniteSet(chapters'[u])
              /\ pages'[u] = Cardinality(Counted(u)')
              /\ Cardinality(chapters'[u]) = Cardinality(Openers(u)')
              /\ \/ Cardinality(chapters'[u]) <= PageLimit
                 \/ Cardinality(chapters'[u]) <= ChapterLimit
              /\ \A q \in Openers(u)' : chapterKey(q) \in chapters'[u]
              /\ \A q, p \in Openers(u)' : q # p => chapterKey(q) # chapterKey(p)
    BY WeekNext, <1>0
  <1>2. CASE u # v
    <2>1. Counted(u)' = Counted(u) /\ Openers(u)' = Openers(u)
      BY <1>0, <1>2 DEF Counted, Openers
    <2>2. pages'[u] = pages[u] /\ chapters'[u] = chapters[u]
      BY <1>0, <1>2 DEF Typed
    <2> QED BY <1>0, <2>1, <2>2 DEF WeekBooks, Openers
  <1>3. CASE u = v
    <2>1. /\ Counted(u)' = Counted(u) \cup {r} /\ r \notin Counted(u)
          /\ Counted(u) \in SUBSET Request /\ Openers(u) \in SUBSET Request
          /\ r \notin Openers(u)
          /\ Openers(u)' = IF opens THEN Openers(u) \cup {r} ELSE Openers(u)
      BY <1>0, <1>3 DEF Counted, Openers
    <2>2. Cardinality(Counted(u)') = Cardinality(Counted(u)) + 1
      BY <2>1, OneMore
    <2>3. pages'[u] = pages[u] + 1
      BY <1>0, <1>3 DEF Typed
    <2>4. CASE ~opens
      <3>1. chapters'[u] = chapters[u] /\ Openers(u)' = Openers(u)
        BY <1>0, <1>3, <2>1, <2>4 DEF Typed
      <3>2. \A q \in Openers(u) : chapterKey(q)' = chapterKey(q)
        BY <1>0 DEF Openers
      <3>3. pages'[u] = Cardinality(Counted(u)')
        BY <2>2, <2>3 DEF WeekBooks
      <3> QED BY <3>1, <3>2, <3>3 DEF WeekBooks
    <2>5. CASE opens
      <3> DEFINE c == chapterKey(r)
      <3>1. chapters'[u] = chapters[u] \cup {c} /\ c \notin chapters[u]
        BY <1>0, <1>3, <2>5 DEF Typed
      <3>2. Openers(u)' = Openers(u) \cup {r}
        BY <2>1, <2>5
      <3>3. /\ IsFiniteSet(chapters'[u])
            /\ Cardinality(chapters'[u]) = Cardinality(chapters[u]) + 1
            /\ Cardinality(chapters[u]) \in Nat
        BY <3>1, FS_AddElement, FS_CardinalityType DEF WeekBooks
      <3>4. Cardinality(Openers(u)') = Cardinality(Openers(u)) + 1
        BY <2>1, <3>2, OneMore
      <3>5. Cardinality(chapters[u]) <= pages[u]
        <4>1. Openers(u) \subseteq Counted(u)
          BY DEF Openers, Counted, Phases, Had
        <4>2. Cardinality(Openers(u)) <= Cardinality(Counted(u))
          BY <4>1, <2>1, RequestFinite, FS_Subset
        <4> QED BY <4>2 DEF WeekBooks
      <3>6. \/ Cardinality(chapters'[u]) <= PageLimit
            \/ Cardinality(chapters'[u]) <= ChapterLimit
        <4>1. pages[u] < PageLimit \/ Cardinality(chapters[u]) < ChapterLimit
          BY <1>3, <2>5 DEF under
        <4>2. pages[u] \in Nat
          BY DEF Typed
        <4> QED BY <3>3, <3>5, <4>1, <4>2, TranslationAssumption, SMT
      <3>7. \A q \in Openers(u) : chapterKey(q) \in chapters[u] /\ q \in Request
        BY DEF WeekBooks, Openers
      <3>8. /\ pages'[u] = Cardinality(Counted(u)')
            /\ Cardinality(chapters'[u]) = Cardinality(Openers(u)')
        BY <2>2, <2>3, <3>3, <3>4 DEF WeekBooks
      <3>9. \A q \in Openers(u)' : chapterKey(q)' = chapterKey(q)
        BY <1>0, <3>2, <3>7
      <3>10. \A q \in Openers(u)' : chapterKey(q) \in chapters'[u]
        BY <3>1, <3>2, <3>7
      <3>11. \A q, p \in Openers(u)' : q # p => chapterKey(q) # chapterKey(p)
        BY <3>1, <3>2, <3>7 DEF WeekBooks
      <3> QED BY <3>3, <3>6, <3>8, <3>9, <3>10, <3>11
    <2> QED BY <2>4, <2>5
  <1> QED BY <1>2, <1>3

LEMMA WeekReturned ==
    ASSUME Typed, WeekBooks, Phases, NEW r \in Request,
           req[r].counted, ~req'[r].counted, ~req'[r].opened,
           \A q \in Request : req'[q].job = req[q].job,
           \A q \in Request \ {r} : /\ req'[q].counted = req[q].counted
                                    /\ req'[q].opened = req[q].opened,
           pages' = [pages EXCEPT ![user(r)] = less(@, 1)],
           chapters' = [chapters EXCEPT ![user(r)] =
                            IF req[r].opened THEN @ \ {chapterKey(r)} ELSE @]
    PROVE  WeekBooks' /\ pages' \in [User -> Nat]
  <1> DEFINE v == user(r)
             opened == req[r].opened
  <1>0. v \in User /\ \A q \in Request : user(q)' = user(q) /\ chapterKey(q)' = chapterKey(q)
    BY DEF Typed, Req, Job, user, chapterKey, kind, target
  <1>3. ASSUME NEW u \in User, u = v
        PROVE  pages'[u] = Cardinality(Counted(u)') /\ pages'[u] \in Nat
    <2>1. /\ Counted(u)' = Counted(u) \ {r} /\ r \in Counted(u)
          /\ Counted(u) \in SUBSET Request
      BY <1>0, <1>3 DEF Counted
    <2>2. /\ Cardinality(Counted(u)') = Cardinality(Counted(u)) - 1
          /\ Cardinality(Counted(u)) > 0 /\ Cardinality(Counted(u)) \in Nat
      BY <2>1, OneLess, RequestFinite
    <2>3. pages[u] = Cardinality(Counted(u)) /\ pages'[u] = less(pages[u], 1)
      BY <1>0, <1>3 DEF WeekBooks, Typed
    <2> QED BY <2>2, <2>3, SMT DEF less
  <1>4. pages' \in [User -> Nat]
    <2>1. pages' \in [User -> Nat] <=> pages'[v] \in Nat
      BY <1>0 DEF Typed
    <2> QED BY <1>0, <1>3, <2>1
  <1>5. SUFFICES ASSUME NEW u \in User
        PROVE /\ IsFiniteSet(chapters'[u])
              /\ pages'[u] = Cardinality(Counted(u)')
              /\ Cardinality(chapters'[u]) = Cardinality(Openers(u)')
              /\ \/ Cardinality(chapters'[u]) <= PageLimit
                 \/ Cardinality(chapters'[u]) <= ChapterLimit
              /\ \A q \in Openers(u)' : chapterKey(q) \in chapters'[u]
              /\ \A q, p \in Openers(u)' : q # p => chapterKey(q) # chapterKey(p)
    BY WeekNext, <1>4, <1>0
  <1>6. CASE u # v
    <2>1. Counted(u)' = Counted(u) /\ Openers(u)' = Openers(u)
      BY <1>0, <1>6 DEF Counted, Openers
    <2>2. pages'[u] = pages[u] /\ chapters'[u] = chapters[u]
      BY <1>0, <1>6 DEF Typed
    <2> QED BY <1>0, <2>1, <2>2 DEF WeekBooks, Openers
  <1>7. CASE u = v
    <2>1. /\ Openers(u) \in SUBSET Request /\ Openers(u)' = Openers(u) \ {r}
          /\ r \in Openers(u) <=> opened
      BY <1>0, <1>7 DEF Openers
    <2>2. CASE ~opened
      <3>1. chapters'[u] = chapters[u] /\ Openers(u)' = Openers(u)
        BY <1>0, <1>7, <2>1, <2>2 DEF Typed
      <3>2. \A q \in Openers(u) : chapterKey(q)' = chapterKey(q)
        BY <1>0 DEF Openers
      <3> QED BY <1>3, <1>7, <3>1, <3>2 DEF WeekBooks
    <2>3. CASE opened
      <3> DEFINE c == chapterKey(r)
      <3>1. chapters'[u] = chapters[u] \ {c}
        BY <1>0, <1>7, <2>3 DEF Typed
      <3>2. c \in chapters[u] /\ r \in Openers(u)
        BY <2>1, <2>3 DEF WeekBooks
      <3>3. /\ IsFiniteSet(chapters'[u])
            /\ Cardinality(chapters'[u]) = Cardinality(chapters[u]) - 1
            /\ Cardinality(chapters[u]) \in Nat
        BY <3>1, <3>2, FS_RemoveElement, FS_CardinalityType DEF WeekBooks
      <3>4. Cardinality(Openers(u)') = Cardinality(Openers(u)) - 1
        BY <2>1, <3>2, OneLess
      <3>5. \/ Cardinality(chapters'[u]) <= PageLimit
            \/ Cardinality(chapters'[u]) <= ChapterLimit
        BY <3>3, TranslationAssumption, SMT DEF WeekBooks
      <3>6. \A q \in Openers(u) \ {r} : chapterKey(q) \in chapters[u] \ {c}
        BY <3>2 DEF WeekBooks
      <3>7. \A q \in Openers(u) : q \in Request
        BY <2>1
      <3>8. Cardinality(chapters'[u]) = Cardinality(Openers(u)')
        BY <3>3, <3>4 DEF WeekBooks
      <3>9. \A q \in Openers(u)' : chapterKey(q)' = chapterKey(q)
        BY <1>0, <2>1, <3>7
      <3>10. \A q \in Openers(u)' : chapterKey(q) \in chapters'[u]
        BY <2>1, <3>1, <3>6
      <3>11. \A q, p \in Openers(u)' : q # p => chapterKey(q) # chapterKey(p)
        BY <2>1 DEF WeekBooks
      <3> QED BY <1>3, <1>7, <3>3, <3>5, <3>8, <3>9, <3>10, <3>11
    <2> QED BY <2>2, <2>3
  <1> QED BY <1>6, <1>7

-------------------------------------------------------------------------------
(* The steps: each keeps the invariant. *)

(* Everything typed but the requests. *)
TypedRest ==
    /\ now \in Nat /\ usd \in Nat /\ reserved \in Nat
    /\ todo \in Seq(SUBSET Job)
    /\ row \in [Target -> [Engine -> Stored]]
    /\ claim \in [Target -> [Engine -> Nat \cup {None}]]
    /\ pages \in [User -> Nat] /\ chapters \in [User -> SUBSET Chapter]
    /\ troubles \in 0..MaxTroubles

LEMMA TypedParts == Typed <=> TypedRest /\ req \in [Request -> Req]
  BY DEF Typed, TypedRest

(* What a step that may fail does to the count of troubles. *)
LEMMA Troubles ==
    ASSUME TypedRest, UNCHANGED troubles \/ Trouble
    PROVE  troubles' \in 0..MaxTroubles
  BY TranslationAssumption, SMT DEF TypedRest, Trouble

(* One request changes, and has what it had of the month and the week. *)
LEMMA Moves ==
    ASSUME IInv, NEW r \in Request, NEW f \in Req, Had(f), Asked(f), SameHad(f, req[r]),
           req' = [req EXCEPT ![r] = f], UNCHANGED week, AnswerLost \/ UNCHANGED month
    PROVE  req' \in [Request -> Req] /\ Phases' /\ MonthBooks' /\ WeekBooks'
  <1>1. req \in [Request -> Req]
    BY DEF IInv, Typed
  <1>2. req' \in [Request -> Req]
    BY <1>1
  <1>3. \A q \in Request : req'[q] = IF q = r THEN f ELSE req[q]
    BY <1>1
  <1>4. Phases'
    BY <1>3 DEF IInv, Phases
  <1>5. \A q \in Request : SameHad(req'[q], req[q])
    BY <1>3 DEF SameHad
  <1>6. MonthBooks'
    <2>1. CASE AnswerLost
      BY <2>1 DEF MonthBooks
    <2>2. CASE UNCHANGED month
      BY <1>5, <2>2, MonthKept DEF IInv, SameHad
    <2> QED BY <2>1, <2>2
  <1>7. WeekBooks'
    BY <1>5, WeekKept DEF IInv, SameHad
  <1> QED BY <1>2, <1>4, <1>6, <1>7

(* One request goes on or ends. *)
LEMMA Goes ==
    ASSUME IInv, NEW r \in Request, NEW p \in PC, to(r, p), UNCHANGED week,
           AnswerLost \/ UNCHANGED month,
           LET q == req[r] IN
           \/ p \in {"release", "done", "dead"}
           \/ p \in Untouched /\ q.pc \in Untouched
           \/ p = "correct" /\ q.pc = "check"
           \/ p = "refund" /\ q.pc \in {"check", "save"}
           \/ p = "unreserve" /\ q.pc = "count"
    PROVE  req' \in [Request -> Req] /\ Phases' /\ MonthBooks' /\ WeekBooks'
  <1> DEFINE q == req[r]
             f == at(q, p)
  <1>1. q \in Req /\ Had(q) /\ Asked(q)
    BY DEF IInv, Typed, Phases
  <1>2. /\ f \in Req /\ f.pc = p /\ f.cost = q.cost /\ SameHad(f, q)
        /\ p \notin Ended => f.repairing = q.repairing
    BY <1>1, Onward
  <1> HIDE DEF f, q
  <1>3. Had(f) /\ Asked(f)
    <2>1. CASE p \in {"release", "done", "dead"}
      BY <1>1, <1>2, <2>1 DEF Had, Asked, SameHad, Untouched, Reserving, Asking
    <2>2. CASE p \in Untouched /\ q.pc \in Untouched
      BY <1>1, <1>2, <2>2 DEF Had, Asked, SameHad, Untouched, Reserving, Asking
    <2>3. CASE p = "correct" /\ q.pc = "check"
      BY <1>1, <1>2, <2>3 DEF Had, Asked, SameHad, Untouched, Reserving, Asking, Ended
    <2>4. CASE p = "refund" /\ q.pc \in {"check", "save"}
      BY <1>1, <1>2, <2>4 DEF Had, Asked, SameHad, Untouched, Reserving, Asking, Ended
    <2>5. CASE p = "unreserve" /\ q.pc = "count"
      BY <1>1, <1>2, <2>5 DEF Had, Asked, SameHad, Untouched, Reserving, Asking, Ended
    <2> QED BY <2>1, <2>2, <2>3, <2>4, <2>5 DEF q
  <1>4. req' = [req EXCEPT ![r] = f]
    BY DEF to, f, q
  <1> QED BY <1>2, <1>3, <1>4, Moves DEF q

LEMMA LeavingTo == \A r : leaving(r) \in {"release", "done"} /\ leaving(r) \in PC
  BY DEF leaving, PC, Ended

LEMMA UnmadeTyped ==
    ASSUME Request # {}
    PROVE  /\ Unmade \in Req /\ Unmade.cost = 0
           /\ ~Unmade.holds /\ ~Unmade.counted /\ ~Unmade.opened
  <1>1. (CHOOSE j \in Job : TRUE) \in Job
    <2>1. PICK u \in User : TRUE
      BY TranslationAssumption
    <2>2. [kind |-> "learn", user |-> u, target |-> Learned, batch |-> FALSE] \in Job
      BY DEF Job, Kind, Target
    <2> QED BY <2>2
  <1>2. Unmade \in Req
    <2>1. 1 \in Request
      BY TranslationAssumption, SMT DEF Request
    <2> DEFINE j == CHOOSE x \in Job : TRUE
    <2>2. j \in Job
      BY <1>1
    <2> HIDE DEF j
    <2>3. [pc |-> "new", call |-> 1, job |-> j,
           engine |-> "text", at |-> 0, repairing |-> FALSE, got |-> "none",
           cost |-> 0, unheard |-> 0, holds |-> FALSE, counted |-> FALSE, opened |-> FALSE,
           billed |-> FALSE, word |-> "none"] \in Req
      BY <2>1, <2>2, SMT DEF Req, PC, Engine, Kind, Stored, Ended
    <2> QED BY <2>3 DEF Unmade, j
  <1>3. /\ Unmade.cost = 0 /\ ~Unmade.holds /\ ~Unmade.counted /\ ~Unmade.opened
    BY DEF Unmade
  <1> QED BY <1>2, <1>3

LEMMA InitIInv == Init => IInv
  <1> SUFFICES ASSUME Init PROVE IInv
    OBVIOUS
  <1>3. req = [r \in Request |-> Unmade] /\ req \in [Request -> Req]
    BY UnmadeTyped DEF Init
  <1>4. \A r \in Request : /\ req[r].pc = "new" /\ ~req[r].holds /\ ~req[r].counted
                           /\ ~req[r].opened /\ req[r].cost = 0
    BY <1>3 DEF Unmade
  <1>5. Typed
    <2>1. now \in Nat /\ usd \in Nat /\ reserved \in Nat /\ troubles \in 0..MaxTroubles
      BY TranslationAssumption, SMT DEF Init
    <2>2. todo \in Seq(SUBSET Job)
      BY TranslationAssumption DEF Init
    <2>3. row \in [Target -> [Engine -> Stored]] /\ claim \in [Target -> [Engine -> Nat \cup {None}]]
      BY DEF Init, Stored
    <2>4. pages \in [User -> Nat] /\ chapters \in [User -> SUBSET Chapter]
      BY DEF Init
    <2> QED BY <1>3, <2>1, <2>2, <2>3, <2>4 DEF Typed
  <1>6. Phases
    BY <1>4 DEF Phases, Had, Asked, Untouched, Reserving, Asking
  <1>7. MonthBooks
    <2>1. Holders = {}
      BY <1>4 DEF Holders
    <2>2. Cardinality(Holders) = 0
      BY <2>1, FS_EmptySet
    <2> QED BY <2>2, TranslationAssumption, SMT DEF MonthBooks, BudgetHeld, Init, Ample
  <1>8. WeekBooks
    <2> SUFFICES ASSUME NEW u \in User
        PROVE /\ IsFiniteSet(chapters[u])
              /\ pages[u] = Cardinality(Counted(u))
              /\ Cardinality(chapters[u]) = Cardinality(Openers(u))
              /\ \/ Cardinality(chapters[u]) <= PageLimit
                 \/ Cardinality(chapters[u]) <= ChapterLimit
              /\ \A r \in Openers(u) : chapterKey(r) \in chapters[u]
              /\ \A r, q \in Openers(u) : r # q => chapterKey(r) # chapterKey(q)
      BY DEF WeekBooks
    <2>1. Counted(u) = {} /\ Openers(u) = {} /\ chapters[u] = {} /\ pages[u] = 0
      BY <1>4 DEF Counted, Openers, Init
    <2>2. IsFiniteSet(chapters[u]) /\ Cardinality({}) = 0
      BY <2>1, FS_EmptySet
    <2> QED BY <2>1, <2>2, TranslationAssumption, SMT
  <1> QED BY <1>5, <1>6, <1>7, <1>8 DEF IInv

(* A look leads to an answer or to the claim. *)
LEMMA LookKeeps ==
    ASSUME IInv, NEW r \in Request, NEW e \in {"text", "fast"}, req[r].pc \in {"look", "second"},
           req' = [req EXCEPT ![r] = found(r, e)], UNCHANGED <<month, week>>
    PROVE  req' \in [Request -> Req] /\ Phases' /\ MonthBooks' /\ WeekBooks'
  <1> DEFINE f == found(r, e)
             q == req[r]
  <1>1. /\ f \in Req /\ SameHad(f, q) /\ f.cost = q.cost /\ f.pc \in {"done", "claim"}
    BY Found DEF IInv
  <1>2. Had(q) /\ Asked(q)
    BY DEF IInv, Phases
  <1> HIDE DEF f
  <1>3. Had(f) /\ Asked(f)
    BY <1>1, <1>2 DEF Had, Asked, SameHad, Untouched, Reserving, Asking
  <1> QED BY <1>1, <1>3, Moves DEF f

(* A request that has just reserved. *)
LEMMA HadNext ==
    ASSUME NEW f, f.holds = TRUE, f.counted = FALSE, f.opened = FALSE,
           \/ f.pc = "again" /\ f.repairing = TRUE
           \/ f.pc = "count" /\ f.repairing = FALSE
    PROVE  Had(f)
  BY DEF Had, Untouched, Reserving, Asking

LEMMA IInvParts ==
    ASSUME TypedRest', req' \in [Request -> Req], Phases', MonthBooks', WeekBooks'
    PROVE  IInv'
  BY DEF IInv, Typed, TypedRest

LEMMA LookStep ==
    ASSUME IInv, NEW r \in Request, Look(r)
    PROVE  IInv'
  <1>1. TypedRest'
    BY DEF IInv, Typed, TypedRest, Look, store, month, week
  <1>2. UNCHANGED <<month, week>> /\ req[r].pc = "look"
    BY DEF Look, month, week
  <1>3. CASE req' = [req EXCEPT ![r] = found(r, "text")]
    BY <1>1, <1>2, <1>3, LookKeeps, IInvParts
  <1>4. CASE to(r, "second")
    BY <1>1, <1>2, <1>4, Goes, IInvParts DEF PC, Untouched
  <1>5. CASE to(r, "admit") \/ to(r, "done")
    BY <1>1, <1>2, <1>5, Goes, IInvParts DEF PC, Untouched, Ended
  <1> QED BY <1>3, <1>4, <1>5 DEF Look

LEMMA LookAgainStep ==
    ASSUME IInv, NEW r \in Request, LookAgain(r)
    PROVE  IInv'
  <1>1. TypedRest'
    BY DEF IInv, Typed, TypedRest, LookAgain, store, month, week
  <1>2. /\ UNCHANGED <<month, week>> /\ req[r].pc = "second"
        /\ req' = [req EXCEPT ![r] = found(r, "fast")]
    BY DEF LookAgain, month, week
  <1> QED BY <1>1, <1>2, LookKeeps, IInvParts

LEMMA ClaimTyped ==
    ASSUME Typed, NEW t, NEW e, NEW x \in Nat \cup {None},
           claim' = claim \/ claim' = [claim EXCEPT ![t][e] = x]
    PROVE  claim' \in [Target -> [Engine -> Nat \cup {None}]]
  <1>1. claim \in [Target -> [Engine -> Nat \cup {None}]]
    BY DEF Typed
  <1>2. CASE t \in Target /\ claim' = [claim EXCEPT ![t][e] = x]
    <2>1. [claim[t] EXCEPT ![e] = x] \in [Engine -> Nat \cup {None}]
      BY <1>1, <1>2
    <2> QED BY <1>1, <1>2, <2>1
  <1> QED BY <1>1, <1>2

LEMMA ClaimStep ==
    ASSUME IInv, NEW r \in Request, Claim(r)
    PROVE  IInv'
  <1>1. claim' \in [Target -> [Engine -> Nat \cup {None}]]
    <2>1. req[r].at \in Nat
      BY DEF IInv, Typed, Req
    <2> QED BY <2>1, ClaimTyped DEF IInv, Claim
  <1>2. TypedRest'
    BY <1>1 DEF IInv, Typed, TypedRest, Claim, store, month, week
  <1>3. /\ UNCHANGED <<month, week>> /\ req[r].pc = "claim"
        /\ to(r, "admit") \/ to(r, "wait")
    BY DEF Claim, month, week
  <1> QED BY <1>2, <1>3, Goes, IInvParts DEF PC, Untouched

LEMMA WaitStep ==
    ASSUME IInv, NEW r \in Request, Wait(r)
    PROVE  IInv'
  <1>1. TypedRest'
    BY DEF IInv, Typed, TypedRest, Wait, store, month, week
  <1>2. UNCHANGED <<month, week>> /\ to(r, "done")
    BY DEF Wait, month, week
  <1> QED BY <1>1, <1>2, Goes, IInvParts DEF PC, Ended

LEMMA CorrectStep ==
    ASSUME IInv, NEW r \in Request, Correct(r)
    PROVE  IInv'
  <1>1. TypedRest'
    BY DEF IInv, Typed, TypedRest, Correct, store, month, week
  <1>2. UNCHANGED <<month, week>> /\ to(r, "correct") /\ req[r].pc = "check"
    BY DEF Correct, month, week
  <1> QED BY <1>1, <1>2, Goes, IInvParts DEF PC, Asking

LEMMA ReleaseStep ==
    ASSUME IInv, NEW r \in Request, Release(r)
    PROVE  IInv'
  <1>1. troubles' \in 0..MaxTroubles
    BY Troubles, TypedParts DEF IInv, Release
  <1>4. claim' \in [Target -> [Engine -> Nat \cup {None}]]
    BY ClaimTyped DEF IInv, Release
  <1>2. TypedRest'
    BY <1>1, <1>4 DEF IInv, Typed, TypedRest, Release, store, month, week
  <1>3. UNCHANGED <<month, week>> /\ to(r, "done")
    BY DEF Release, month, week
  <1> QED BY <1>2, <1>3, Goes, IInvParts DEF PC, Ended

LEMMA AdmitStep ==
    ASSUME IInv, NEW r \in Request, Admit(r)
    PROVE  IInv'
  <1>0. /\ req \in [Request -> Req] /\ req[r] \in Req /\ Had(req[r]) /\ Asked(req[r])
        /\ req[r].pc = "admit"
    BY DEF IInv, Typed, Phases, Admit
  <1>1. troubles' \in 0..MaxTroubles
    BY Troubles, TypedParts DEF IInv, Admit
  <1>2. CASE to(r, leaving(r)) /\ UNCHANGED month
    <2>1. TypedRest'
      BY <1>1, <1>2 DEF IInv, Typed, TypedRest, Admit, store, month, week
    <2>2. UNCHANGED <<month, week>>
      BY <1>2 DEF Admit, month, week
    <2> QED BY <1>2, <2>1, <2>2, LeavingTo, Goes, IInvParts
  <1>3. CASE /\ usd + reserved < Budget /\ reserved' = reserved + Reserve
             /\ req' = [req EXCEPT ![r].holds = TRUE,
                                   ![r].pc = IF req[r].repairing THEN "again" ELSE "count"]
             /\ UNCHANGED <<usd, troubles>>
    <2>1. reserved' \in Nat
      BY <1>3, TranslationAssumption, SMTT(30) DEF IInv, Typed
    <2>2. TypedRest'
      BY <1>1, <1>3, <2>1 DEF IInv, Typed, TypedRest, Admit, store, week
    <2> DEFINE p == IF req[r].repairing THEN "again" ELSE "count"
               a == [req[r] EXCEPT !.holds = TRUE]
               f == [a EXCEPT !.pc = p]
    <2>3. p \in PC
      BY DEF PC, Asking
    <2>4. a \in Req
      BY <1>0, Setters
    <2>5. f \in Req
      <3> HIDE DEF a, p
      <3> QED BY <2>3, <2>4, Setters
    <2>6. /\ f.pc = p /\ f.holds /\ f.job = req[r].job /\ f.cost = req[r].cost
          /\ f.repairing = req[r].repairing
          /\ f.counted = req[r].counted /\ f.opened = req[r].opened
      <3> HIDE DEF p
      <3> QED BY <1>0, SMT DEF Req
    <2>7. req' = [req EXCEPT ![r] = f]
      BY <1>0, <1>3
    <2>8. req' \in [Request -> Req] /\ \A q \in Request : req'[q] = IF q = r THEN f ELSE req[q]
      BY <1>0, <2>5, <2>7
    <2> HIDE DEF f
    <2>9. ~req[r].holds /\ ~req[r].counted /\ ~req[r].opened /\ req[r].cost = 0
      BY <1>0 DEF Had, Asked, Untouched
    <2>10. Had(f) /\ Asked(f)
      <3>1. /\ f.holds = TRUE /\ f.counted = FALSE /\ f.opened = FALSE
            /\ \/ f.pc = "again" /\ f.repairing = TRUE
               \/ f.pc = "count" /\ f.repairing = FALSE
        <4>1. {f.holds, f.counted, f.opened, f.repairing} \subseteq BOOLEAN
          BY <2>5 DEF Req
        <4> QED BY <2>6, <2>9, <4>1
      <3>2. Had(f)
        BY <3>1, HadNext
      <3>3. Asked(f)
        BY <2>6, <2>9, SMT DEF Asked, Untouched
      <3> QED BY <3>2, <3>3
    <2>11. Phases'
      BY <2>8, <2>10 DEF IInv, Phases
    <2>12. MonthBooks'
      BY <1>3, <2>6, <2>8, <2>9, MonthReserved DEF IInv
    <2>13. WeekBooks'
      BY <2>6, <2>8, WeekKept DEF IInv, Admit
    <2> QED BY <2>2, <2>8, <2>11, <2>12, <2>13, IInvParts
  <1> QED BY <1>2, <1>3 DEF Admit

LEMMA CountStep ==
    ASSUME IInv, NEW r \in Request, Count(r)
    PROVE  IInv'
  <1>0. /\ req \in [Request -> Req] /\ req[r] \in Req /\ Had(req[r]) /\ Asked(req[r])
        /\ req[r].pc = "count"
    BY DEF IInv, Typed, Phases, Count
  <1>1. troubles' \in 0..MaxTroubles
    BY Troubles, TypedParts DEF IInv, Count
  <1> DEFINE u == user(r)
             c == chapterKey(r)
             opens == c # None /\ c \notin chapters[u] /\ under(u)
  <1>2. CASE /\ to(r, "unreserve") \/ to(r, leaving(r))
             /\ UNCHANGED week
    <2>1. TypedRest'
      BY <1>1, <1>2 DEF IInv, Typed, TypedRest, Count, store, month, week
    <2>2. UNCHANGED <<month, week>>
      BY <1>2 DEF Count, month, week
    <2>3. PICK p \in {"unreserve", "release", "done"} : to(r, p)
      BY <1>2, LeavingTo
    <2> QED BY <1>0, <2>1, <2>2, <2>3, Goes, IInvParts DEF PC, Ended
  <1>3. CASE /\ pages' = [pages EXCEPT ![u] = @ + 1]
             /\ chapters' = [chapters EXCEPT ![u] = IF opens THEN @ \cup {c} ELSE @]
             /\ req' = [req EXCEPT ![r].counted = TRUE, ![r].opened = opens, ![r].pc = "ask"]
             /\ UNCHANGED troubles
    <2>1. u \in User /\ (c # None => c \in Chapter)
      <3>1. req[r].job \in Job
        BY <1>0 DEF Req
      <3> QED BY <3>1, TranslationAssumption DEF Job, user, chapterKey, kind, target, Target
    <2>2. TypedRest'
      BY <1>1, <1>3, <2>1 DEF IInv, Typed, TypedRest, Count, store, month
    <2> DEFINE a == [req[r] EXCEPT !.counted = TRUE]
               b == [a EXCEPT !.opened = opens]
               f == [b EXCEPT !.pc = "ask"]
    <2>3. a \in Req
      BY <1>0, Setters
    <2>4. b \in Req
      <3> HIDE DEF a
      <3> QED BY <2>3, Setters
    <2>5. f \in Req
      <3> HIDE DEF b
      <3> QED BY <2>4, Setters DEF PC, Asking
    <2>6. /\ f.pc = "ask" /\ f.holds = req[r].holds /\ f.job = req[r].job
          /\ f.cost = req[r].cost /\ f.repairing = req[r].repairing
          /\ f.counted /\ f.opened = opens
      <3> HIDE DEF opens
      <3> QED BY <1>0, SMT DEF Req
    <2>7. req' = [req EXCEPT ![r] = f]
      BY <1>0, <1>3
    <2>8. req' \in [Request -> Req] /\ \A q \in Request : req'[q] = IF q = r THEN f ELSE req[q]
      BY <1>0, <2>5, <2>7
    <2> HIDE DEF f
    <2>9. /\ req[r].holds /\ ~req[r].counted /\ ~req[r].opened /\ req[r].cost = 0
          /\ ~req[r].repairing
      BY <1>0 DEF Had, Asked, Untouched, Reserving
    <2>10. Had(f) /\ Asked(f)
      BY <2>6, <2>9 DEF Had, Asked, Untouched, Reserving, Asking
    <2>11. Phases'
      BY <2>8, <2>10 DEF IInv, Phases
    <2>12. MonthBooks'
      BY <2>6, <2>8, MonthKept DEF IInv, Count
    <2>13. WeekBooks'
      <3>1. opens \in BOOLEAN /\ req'[r].opened = opens /\ req'[r].counted
        BY <2>6, <2>8
      <3>2. /\ \A q \in Request : req'[q].job = req[q].job
            /\ \A q \in Request \ {r} : /\ req'[q].counted = req[q].counted
                                        /\ req'[q].opened = req[q].opened
        BY <2>6, <2>8
      <3>3. opens => /\ c # None /\ c \notin chapters[u] /\ under(u)
        OBVIOUS
      <3> HIDE DEF opens
      <3> QED BY <1>3, <2>9, <3>1, <3>2, <3>3, WeekCounted DEF IInv
    <2> QED BY <2>2, <2>8, <2>11, <2>12, <2>13, IInvParts
  <1> QED BY <1>2, <1>3 DEF Count

LEMMA SavedTyped ==
    ASSUME Typed, NEW r \in Request, saving(r)
    PROVE  row' \in [Target -> [Engine -> Stored]]
  <1> DEFINE t == target(r)
             e == req[r].engine
             n == IF kind(r) = "page" /\ row[t][e] # "none" THEN row[t][e] ELSE req[r].got
  <1>1. req[r].job \in Job /\ e \in Engine /\ req[r].got \in Stored
    BY DEF Typed, Req
  <1>2. t \in Target
    BY <1>1 DEF Job, target
  <1>3. row \in [Target -> [Engine -> Stored]]
    BY DEF Typed
  <1>4. row[t] \in [Engine -> Stored] /\ n \in Stored
    BY <1>1, <1>2, <1>3
  <1>5. row' = [row EXCEPT ![t] = [row[t] EXCEPT ![e] = n]]
    BY <1>1, <1>2, <1>3 DEF saving
  <1> HIDE DEF n
  <1> QED BY <1>1, <1>2, <1>3, <1>4, <1>5

(* A request gives back what it had of the month, and goes. *)
settledTo(q, w, p) == at([q EXCEPT !.holds = FALSE, !.billed = TRUE, !.word = w], p)

LEMMA Settles ==
    ASSUME NEW q \in Req, NEW w \in {"none", "due", "kept"},
           NEW p \in {"release", "done"},
           NEW f, f = settledTo(q, w, p)
    PROVE  /\ f \in Req /\ f.pc = p /\ ~f.holds /\ f.job = q.job
           /\ f.counted = q.counted /\ f.opened = q.opened /\ f.call = q.call
           /\ f.word = w /\ f.billed /\ f.cost = q.cost
  <1> DEFINE a == [q EXCEPT !.holds = FALSE]
             c == [a EXCEPT !.billed = TRUE]
             d == [c EXCEPT !.word = w]
  <1>1. a \in Req
    BY Setters
  <1>2. c \in Req
    <2> HIDE DEF a
    <2> QED BY <1>1, Setters
  <1>3. d \in Req
    <2> HIDE DEF c
    <2> QED BY <1>2, Setters
  <1>4. /\ ~d.holds /\ d.job = q.job /\ d.counted = q.counted /\ d.opened = q.opened
        /\ d.call = q.call /\ d.word = w /\ d.billed /\ d.cost = q.cost
    BY SMT DEF Req
  <1>5. d = [q EXCEPT !.holds = FALSE, !.billed = TRUE, !.word = w]
    OBVIOUS
  <1>6. p \in PC
    BY DEF PC, Ended
  <1>7. f = at(d, p)
    BY <1>5 DEF settledTo
  <1> HIDE DEF d
  <1> QED BY <1>3, <1>4, <1>6, <1>7, Onward DEF SameHad

(* One request has settled: the month changes with it, the week does not. *)
LEMMA Settled ==
    ASSUME IInv, NEW r \in Request, NEW f \in Req, req[r].holds,
           req' = [req EXCEPT ![r] = f], f.pc \in {"release", "done"}, ~f.holds,
           f.job = req[r].job, f.counted = req[r].counted, f.opened = req[r].opened,
           NEW c \in 0..3, usd' = usd + c, reserved' = less(reserved, Reserve),
           UNCHANGED week
    PROVE  /\ req' \in [Request -> Req] /\ Phases' /\ MonthBooks' /\ WeekBooks'
           /\ usd' \in Nat /\ reserved' \in Nat
  <1>1. /\ req \in [Request -> Req] /\ Had(req[r])
    BY DEF IInv, Typed, Phases
  <1>2. req' \in [Request -> Req] /\ \A q \in Request : req'[q] = IF q = r THEN f ELSE req[q]
    BY <1>1
  <1>3. Had(f) /\ Asked(f)
    <2>1. f.opened => f.counted
      BY <1>1 DEF Had
    <2> QED BY <2>1 DEF Had, Asked, Untouched, Reserving, Asking
  <1>4. Phases'
    BY <1>2, <1>3 DEF IInv, Phases
  <1>5. MonthBooks' /\ usd' \in Nat /\ reserved' \in Nat
    BY <1>2, MonthReturned DEF IInv
  <1>6. WeekBooks'
    BY <1>2, WeekKept DEF IInv
  <1> QED BY <1>2, <1>4, <1>5, <1>6

LEMMA UnreserveStep ==
    ASSUME IInv, NEW r \in Request, Unreserve(r)
    PROVE  IInv'
  <1>0. req[r] \in Req /\ req[r].holds /\ req[r].pc = "unreserve"
    BY DEF IInv, Typed, Phases, Had, Reserving, Unreserve
  <1>1. troubles' \in 0..MaxTroubles
    BY Troubles, TypedParts DEF IInv, Unreserve
  <1>2. CASE to(r, leaving(r)) /\ UNCHANGED month
    <2>1. TypedRest'
      BY <1>1, <1>2 DEF IInv, Typed, TypedRest, Unreserve, store, month, week
    <2>2. UNCHANGED <<month, week>>
      BY <1>2 DEF Unreserve, month, week
    <2> QED BY <1>2, <2>1, <2>2, LeavingTo, Goes, IInvParts
  <1>3. CASE /\ reserved' = less(reserved, Reserve) /\ UNCHANGED usd
             /\ req' = [req EXCEPT ![r] = at([@ EXCEPT !.holds = FALSE], leaving(r))]
    <2> DEFINE a == [req[r] EXCEPT !.holds = FALSE]
               f == at(a, leaving(r))
    <2>1. a \in Req
      BY <1>0, Setters
    <2>2. /\ ~a.holds /\ a.job = req[r].job /\ a.counted = req[r].counted
          /\ a.opened = req[r].opened
      BY <1>0, SMT DEF Req
    <2> HIDE DEF a
    <2>3. /\ f \in Req /\ f.pc \in {"release", "done"} /\ ~f.holds /\ f.job = req[r].job
          /\ f.counted = req[r].counted /\ f.opened = req[r].opened
      BY <2>1, <2>2, LeavingTo, Onward DEF SameHad
    <2>4. req' = [req EXCEPT ![r] = f]
      BY <1>3 DEF a
    <2> HIDE DEF f
    <2>5. 0 \in 0..3 /\ usd' = usd + 0
      BY <1>3, SMT DEF IInv, Typed
    <2>6. UNCHANGED week
      BY DEF Unreserve
    <2>7. /\ req' \in [Request -> Req] /\ Phases' /\ MonthBooks' /\ WeekBooks'
          /\ usd' \in Nat /\ reserved' \in Nat
      BY <1>0, <1>3, <2>3, <2>4, <2>5, <2>6, Settled
    <2>8. TypedRest'
      BY <1>1, <2>7 DEF IInv, Typed, TypedRest, Unreserve, store, week
    <2> QED BY <2>7, <2>8, IInvParts
  <1> QED BY <1>2, <1>3 DEF Unreserve

LEMMA SaveStep ==
    ASSUME IInv, NEW r \in Request, Save(r)
    PROVE  IInv'
  <1>0. /\ req[r] \in Req /\ req[r].holds /\ req[r].pc \in {"check", "save"}
        /\ req[r].cost \in 0..3 /\ req[r].got \in Stored
    BY DEF IInv, Typed, Phases, Had, Reserving, Save, Req
  <1>1. troubles' \in 0..MaxTroubles
    BY Troubles, TypedParts DEF IInv, Save
  <1>2. CASE /\ to(r, "refund")
             /\ UNCHANGED <<row, month>> \/ (AnswerLost /\ saving(r))
    <2>0. row' \in [Target -> [Engine -> Stored]] /\ usd' \in Nat /\ reserved' \in Nat
      <3>1. CASE UNCHANGED <<row, month>>
        BY <3>1 DEF IInv, Typed, month
      <3>2. CASE saving(r)
        <4>1. usd' = usd + req[r].cost /\ reserved' = less(reserved, Reserve)
          BY <3>2 DEF saving
        <4>2. usd' \in Nat /\ reserved' \in Nat
          BY <1>0, <4>1, TranslationAssumption, SMTT(30) DEF IInv, Typed, less
        <4> QED BY <3>2, <4>2, SavedTyped DEF IInv
      <3> QED BY <1>2, <3>1, <3>2
    <2>1. TypedRest'
      BY <1>1, <2>0 DEF IInv, Typed, TypedRest, Save, week
    <2>2. UNCHANGED week /\ (AnswerLost \/ UNCHANGED month)
      BY <1>2 DEF Save
    <2>3. "refund" \in PC
      BY DEF PC
    <2> QED BY <1>0, <1>2, <2>1, <2>2, <2>3, Goes, IInvParts
  <1> DEFINE w == IF req[r].repairing THEN "none" ELSE IF deferMemory(r) THEN "due" ELSE "kept"
             f == at([req[r] EXCEPT !.holds = FALSE, !.billed = TRUE, !.word = w], leaving(r))
  <1>3. CASE saving(r) /\ req' = [req EXCEPT ![r] = f]
    <2>1. w \in {"none", "due", "kept"}
      OBVIOUS
    <2> HIDE DEF w
    <2>2. /\ f \in Req /\ f.pc \in {"release", "done"} /\ ~f.holds /\ f.job = req[r].job
          /\ f.counted = req[r].counted /\ f.opened = req[r].opened
      <3> DEFINE p == leaving(r)
      <3>1. p \in {"release", "done"}
        BY LeavingTo
      <3>2. f = settledTo(req[r], w, p)
        BY DEF settledTo
      <3> HIDE DEF f, p
      <3>3. /\ f \in Req /\ f.pc = p /\ ~f.holds /\ f.job = req[r].job
            /\ f.counted = req[r].counted /\ f.opened = req[r].opened
        BY <1>0, <2>1, <3>1, <3>2, Settles
      <3> QED BY <3>1, <3>3
    <2> HIDE DEF f
    <2>3. usd' = usd + req[r].cost /\ reserved' = less(reserved, Reserve) /\ UNCHANGED week
      BY <1>3 DEF saving, Save
    <2>4. /\ req' \in [Request -> Req] /\ Phases' /\ MonthBooks' /\ WeekBooks'
          /\ usd' \in Nat /\ reserved' \in Nat
      BY <1>0, <1>3, <2>2, <2>3, Settled
    <2>5. row' \in [Target -> [Engine -> Stored]]
      BY <1>0, <1>3, SavedTyped DEF IInv
    <2>6. TypedRest'
      BY <1>1, <2>4, <2>5 DEF IInv, Typed, TypedRest, Save, week
    <2> QED BY <2>4, <2>6, IInvParts
  <1> QED BY <1>2, <1>3 DEF Save

LEMMA RefundStep ==
    ASSUME IInv, NEW r \in Request, Refund(r)
    PROVE  IInv'
  <1>0. /\ req \in [Request -> Req] /\ req[r] \in Req /\ req[r].holds /\ req[r].pc = "refund"
        /\ req[r].counted = ~req[r].repairing /\ (req[r].opened => req[r].counted)
        /\ req[r].cost \in 0..3
    BY DEF IInv, Typed, Phases, Had, Reserving, Refund, Req
  <1>1. troubles' \in 0..MaxTroubles
    BY Troubles, TypedParts DEF IInv, Refund
  <1>2. CASE to(r, leaving(r)) /\ UNCHANGED <<month, week>>
    <2>1. TypedRest'
      BY <1>1, <1>2 DEF IInv, Typed, TypedRest, Refund, store, month, week
    <2> QED BY <1>2, <2>1, LeavingTo, Goes, IInvParts
  <1> DEFINE u == user(r)
             q == req[r]
             f == at([q EXCEPT !.holds = FALSE, !.counted = FALSE, !.opened = FALSE,
                               !.billed = isText(r)], leaving(r))
  <1>3. CASE /\ pages' = [pages EXCEPT ![u] = IF unpages(r) THEN less(@, 1) ELSE @]
             /\ chapters' = [chapters EXCEPT ![u] = IF q.opened THEN @ \ {chapterKey(r)} ELSE @]
             /\ reserved' = less(reserved, Reserve) /\ usd' = usd + incurred(r)
             /\ req' = [req EXCEPT ![r] = f]
    <2>1. /\ f \in Req /\ f.pc \in {"release", "done"} /\ ~f.holds /\ f.job = q.job
          /\ ~f.counted /\ ~f.opened
      <3> DEFINE a == [q EXCEPT !.holds = FALSE]
                 b == [a EXCEPT !.counted = FALSE]
                 c == [b EXCEPT !.opened = FALSE]
                 d == [c EXCEPT !.billed = isText(r)]
      <3>1. a \in Req
        BY <1>0, Setters
      <3>2. b \in Req
        <4> HIDE DEF a
        <4> QED BY <3>1, Setters
      <3>3. c \in Req
        <4> HIDE DEF b
        <4> QED BY <3>2, Setters
      <3>4. d \in Req
        <4> HIDE DEF c
        <4>1. isText(r) \in BOOLEAN
          BY DEF isText
        <4> QED BY <3>3, <4>1, Setters
      <3>5. ~d.holds /\ ~d.counted /\ ~d.opened /\ d.job = q.job
        <4> DEFINE t == isText(r)
        <4> HIDE DEF t
        <4> QED BY <1>0, SMT DEF Req
      <3>6. f = at(d, leaving(r))
        BY <1>0
      <3> HIDE DEF d
      <3> QED BY <3>4, <3>5, <3>6, LeavingTo, Onward DEF SameHad
    <2> HIDE DEF f
    <2>2. req' \in [Request -> Req] /\ \A p \in Request : req'[p] = IF p = r THEN f ELSE req[p]
      BY <1>0, <1>3, <2>1
    <2>3. Had(f) /\ Asked(f)
      BY <2>1 DEF Had, Asked, Untouched, Reserving, Asking
    <2>4. Phases'
      BY <2>2, <2>3 DEF IInv, Phases
    <2>5. incurred(r) \in 0..3
      <3>1. 0 \in 0..3
        BY SMT
      <3> QED BY <1>0, <3>1 DEF incurred
    <2>6. MonthBooks' /\ usd' \in Nat /\ reserved' \in Nat
      BY <1>0, <1>3, <2>1, <2>2, <2>5, MonthReturned DEF IInv
    <2>7. WeekBooks' /\ pages' \in [User -> Nat]
      <3>1. /\ \A p \in Request : req'[p].job = req[p].job
            /\ \A p \in Request \ {r} : /\ req'[p].counted = req[p].counted
                                        /\ req'[p].opened = req[p].opened
            /\ ~req'[r].counted /\ ~req'[r].opened
        BY <2>1, <2>2
      <3>2. CASE ~req[r].repairing
        BY <1>0, <1>3, <3>1, <3>2, WeekReturned DEF IInv, unpages
      <3>3. CASE req[r].repairing
        <4>1. ~req[r].counted /\ ~req[r].opened
          BY <1>0, <3>3
        <4>2. pages' = pages /\ chapters' = chapters
          BY <1>3, <3>3, <4>1 DEF unpages, IInv, Typed
        <4>3. \A p \in Request : /\ req'[p].counted = req[p].counted
                                 /\ req'[p].opened = req[p].opened
          <5>1. {req[r].counted, req[r].opened, f.counted, f.opened} \subseteq BOOLEAN
            BY <1>0, <2>1 DEF Req
          <5> QED BY <2>1, <2>2, <4>1, <5>1
        <4>4. WeekBooks'
          BY <3>1, <4>2, <4>3, WeekKept DEF IInv, week
        <4> QED BY <4>2, <4>4 DEF IInv, Typed
      <3> QED BY <3>2, <3>3
    <2>8. chapters' \in [User -> SUBSET Chapter]
      BY <1>3 DEF IInv, Typed
    <2>9. TypedRest'
      BY <1>1, <2>6, <2>7, <2>8 DEF IInv, Typed, TypedRest, Refund, store
    <2> QED BY <2>2, <2>4, <2>6, <2>7, <2>9, IInvParts
  <1> QED BY <1>2, <1>3 DEF Refund

(* Several requests change, and have what they had. *)
LEMMA AllMove ==
    ASSUME IInv, UNCHANGED <<month, week>>, NEW f,
           req' = [q \in Request |-> f[q]],
           \A q \in Request : /\ f[q] \in Req /\ Had(f[q]) /\ Asked(f[q])
                              /\ f[q].holds = req[q].holds /\ f[q].counted = req[q].counted
                              /\ f[q].opened = req[q].opened
                              /\ req[q].counted \/ req[q].opened => f[q].job = req[q].job
    PROVE  req' \in [Request -> Req] /\ Phases' /\ MonthBooks' /\ WeekBooks'
  <1>1. req' \in [Request -> Req] /\ \A q \in Request : req'[q] = f[q]
    OBVIOUS
  <1>2. Phases'
    BY <1>1 DEF Phases
  <1>3. MonthBooks'
    BY <1>1, MonthKept DEF IInv
  <1>4. WeekBooks'
    BY <1>1, WeekKept DEF IInv
  <1> QED BY <1>1, <1>2, <1>3, <1>4

LEMMA FlushStep ==
    ASSUME IInv, NEW c \in Request, Flush(c)
    PROVE  IInv'
  <1>1. TypedRest' /\ UNCHANGED <<month, week>>
    BY DEF IInv, Typed, TypedRest, Flush, store, month, week
  <1>2. PICK replies \in [pending(c) -> Reply] :
            req' = [r \in Request |->
                        IF r \notin pending(c) THEN req[r]
                        ELSE IF isText(r) THEN textAnswered(req[r], replies[r])
                        ELSE pageAnswered(req[r], replies[r])]
    BY DEF Flush
  <1> DEFINE g == [r \in Request |->
                        IF r \notin pending(c) THEN req[r]
                        ELSE IF isText(r) THEN textAnswered(req[r], replies[r])
                        ELSE pageAnswered(req[r], replies[r])]
  <1>3. ASSUME NEW q \in Request
        PROVE  g[q] \in Req /\ Had(g[q]) /\ Asked(g[q]) /\ SameHad(g[q], req[q])
    <2>1. req[q] \in Req /\ Had(req[q]) /\ Asked(req[q])
      BY DEF IInv, Typed, Phases
    <2>2. CASE q \notin pending(c)
      BY <2>1, <2>2 DEF SameHad
    <2>3. CASE q \in pending(c)
      <3>1. req[q].pc \in Asking /\ replies[q] \in Reply
        BY <2>3 DEF pending
      <3>2. g[q] = textAnswered(req[q], replies[q]) \/ g[q] = pageAnswered(req[q], replies[q])
        BY <2>3
      <3> HIDE DEF g
      <3> QED BY <2>1, <3>1, <3>2, Replied
    <2> QED BY <2>2, <2>3
  <1>4. req' = [q \in Request |-> g[q]]
    BY <1>2
  <1> HIDE DEF g
  <1>5. req' \in [Request -> Req] /\ Phases' /\ MonthBooks' /\ WeekBooks'
    BY <1>1, <1>3, <1>4, AllMove DEF SameHad
  <1> QED BY <1>1, <1>5, IInvParts

LEMMA RememberStep ==
    ASSUME IInv, NEW c \in Request, Remember(c)
    PROVE  IInv'
  <1>1. troubles' \in 0..MaxTroubles
    BY Troubles, TypedParts DEF IInv, Remember
  <1>2. TypedRest' /\ UNCHANGED <<month, week>>
    BY <1>1 DEF IInv, Typed, TypedRest, Remember, month, week
  <1> DEFINE due == {r \in Request : req[r].call = c /\ req[r].word = "due"}
  <1>3. PICK w \in {"none", "kept"} :
            req' = [r \in Request |-> IF r \in due THEN [req[r] EXCEPT !.word = w] ELSE req[r]]
    BY DEF Remember
  <1> DEFINE g == [r \in Request |-> IF r \in due THEN [req[r] EXCEPT !.word = w] ELSE req[r]]
  <1>4. ASSUME NEW q \in Request
        PROVE  g[q] \in Req /\ Had(g[q]) /\ Asked(g[q]) /\ SameHad(g[q], req[q])
    <2> DEFINE f == [req[q] EXCEPT !.word = w]
    <2>1. req[q] \in Req /\ Had(req[q]) /\ Asked(req[q])
      BY DEF IInv, Typed, Phases
    <2>2. f \in Req
      BY <2>1, Setters
    <2>3. /\ f.pc = req[q].pc /\ f.cost = req[q].cost /\ f.repairing = req[q].repairing
          /\ SameHad(f, req[q])
      BY <2>1, SMT DEF Req, SameHad
    <2>4. g[q] = f \/ g[q] = req[q]
      OBVIOUS
    <2> HIDE DEF f, g
    <2>5. Had(f) /\ Asked(f)
      BY <2>1, <2>3 DEF Had, Asked, SameHad
    <2> QED BY <2>1, <2>2, <2>3, <2>4, <2>5 DEF SameHad
  <1>5. req' = [q \in Request |-> g[q]]
    BY <1>3
  <1> HIDE DEF g
  <1>6. req' \in [Request -> Req] /\ Phases' /\ MonthBooks' /\ WeekBooks'
    BY <1>2, <1>4, <1>5, AllMove DEF SameHad
  <1> QED BY <1>2, <1>6, IInvParts

LEMMA DieStep ==
    ASSUME IInv, NEW c \in Request, Die(c)
    PROVE  IInv'
  <1>1. troubles' \in 0..MaxTroubles
    BY Troubles, TypedParts DEF IInv, Die
  <1>2. TypedRest' /\ UNCHANGED <<month, week>>
    BY <1>1 DEF IInv, Typed, TypedRest, Die, store, month, week
  <1> DEFINE g == [r \in Request |-> IF live(r) /\ req[r].call = c
                                     THEN forgotten(req[r], "dead") ELSE req[r]]
  <1>3. ASSUME NEW q \in Request
        PROVE  g[q] \in Req /\ Had(g[q]) /\ Asked(g[q]) /\ SameHad(g[q], req[q])
    <2> DEFINE f == forgotten(req[q], "dead")
    <2>1. req[q] \in Req /\ Had(req[q]) /\ Asked(req[q])
      BY DEF IInv, Typed, Phases
    <2>2. f \in Req /\ f.pc = "dead" /\ SameHad(f, req[q])
      BY <2>1, Forgotten DEF PC, Ended
    <2>3. g[q] = f \/ g[q] = req[q]
      OBVIOUS
    <2> HIDE DEF f, g
    <2>4. Had(f) /\ Asked(f)
      BY <2>1, <2>2 DEF Had, Asked, SameHad, Untouched, Reserving, Asking
    <2> QED BY <2>1, <2>2, <2>3, <2>4 DEF SameHad
  <1>4. req' = [q \in Request |-> g[q]]
    BY DEF Die
  <1> HIDE DEF g
  <1>5. req' \in [Request -> Req] /\ Phases' /\ MonthBooks' /\ WeekBooks'
    BY <1>2, <1>3, <1>4, AllMove DEF SameHad
  <1> QED BY <1>2, <1>5, IInvParts

LEMMA ArriveStep ==
    ASSUME IInv, Arrive
    PROVE  IInv'
  <1>1. Head(todo) \in SUBSET Job /\ todo' \in Seq(SUBSET Job)
    <2>1. todo \in Seq(SUBSET Job) /\ todo # <<>> /\ todo' = Tail(todo)
      BY DEF IInv, Typed, Arrive
    <2> QED BY <2>1, SMT
  <1>2. TypedRest' /\ UNCHANGED <<month, week>>
    BY <1>1 DEF IInv, Typed, TypedRest, Arrive, store, month, week
  <1>3. PICK n \in Request :
          LET mine == n .. n + Cardinality(Head(todo)) - 1 IN
          /\ \A r \in Request : req[r].pc = "new" <=> r >= n
          /\ mine \subseteq Request
          /\ \E jobs \in [mine -> Head(todo)] :
                req' = [r \in Request |->
                            IF r \in mine
                            THEN [Unmade EXCEPT !.pc = "look", !.call = n, !.at = now,
                                                !.job = jobs[r], !.engine = jobs[r].kind]
                            ELSE req[r]]
    BY DEF Arrive
  <1> DEFINE mine == n .. n + Cardinality(Head(todo)) - 1
  <1>4. PICK jobs \in [mine -> Head(todo)] :
                req' = [r \in Request |->
                            IF r \in mine
                            THEN [Unmade EXCEPT !.pc = "look", !.call = n, !.at = now,
                                                !.job = jobs[r], !.engine = jobs[r].kind]
                            ELSE req[r]]
    BY <1>3
  <1>5. mine \subseteq Request /\ \A r \in mine : req[r].pc = "new"
    <2>1. mine \subseteq Request
      BY <1>3
    <2>2. \A r \in mine : r >= n
      OBVIOUS
    <2> QED BY <1>3, <2>1, <2>2
  <1> HIDE DEF mine
  <1> DEFINE g == [r \in Request |->
                            IF r \in mine
                            THEN [Unmade EXCEPT !.pc = "look", !.call = n, !.at = now,
                                                !.job = jobs[r], !.engine = jobs[r].kind]
                            ELSE req[r]]
  <1>6. ASSUME NEW q \in Request
        PROVE  /\ g[q] \in Req /\ Had(g[q]) /\ Asked(g[q])
               /\ g[q].holds = req[q].holds /\ g[q].counted = req[q].counted
               /\ g[q].opened = req[q].opened
               /\ req[q].counted \/ req[q].opened => g[q].job = req[q].job
    <2>1. req[q] \in Req /\ Had(req[q]) /\ Asked(req[q])
      BY DEF IInv, Typed, Phases
    <2>2. CASE q \notin mine
      BY <2>1, <2>2
    <2>3. CASE q \in mine
      <3> DEFINE f == [Unmade EXCEPT !.pc = "look", !.call = n, !.at = now,
                                     !.job = jobs[q], !.engine = jobs[q].kind]
      <3>1. g[q] = f
        BY <2>3
      <3>2. jobs[q] \in Job /\ jobs[q].kind \in Engine
        BY <1>1, <2>3 DEF Job, Engine
      <3>3. now \in Nat
        BY DEF IInv, Typed
      <3>4. Unmade \in Req /\ Unmade.cost = 0
            /\ Unmade.holds = FALSE /\ Unmade.counted = FALSE /\ Unmade.opened = FALSE
        <4>1. {Unmade.holds, Unmade.counted, Unmade.opened} \subseteq BOOLEAN
          BY UnmadeTyped DEF Req
        <4> QED BY <4>1, UnmadeTyped
      <3>5. /\ f \in Req /\ f.pc = "look" /\ f.cost = 0
            /\ f.holds = FALSE /\ f.counted = FALSE /\ f.opened = FALSE
        <4> DEFINE j == jobs[q]
                   k == jobs[q].kind
                   a == [Unmade EXCEPT !.pc = "look"]
                   b == [a EXCEPT !.call = n]
                   c == [b EXCEPT !.at = now]
                   d == [c EXCEPT !.job = j]
                   e == [d EXCEPT !.engine = k]
        <4>0. j \in Job /\ k \in Engine
          BY <3>2
        <4> HIDE DEF j, k
        <4>1. a \in Req
          BY <3>4, Setters DEF PC
        <4>2. b \in Req
          <5> HIDE DEF a
          <5> QED BY <4>1, Setters
        <4>3. c \in Req
          <5> HIDE DEF b
          <5> QED BY <4>2, <3>3, Setters
        <4>4. d \in Req
          <5> HIDE DEF c
          <5> QED BY <4>3, <4>0, Setters
        <4>5. e \in Req
          <5> HIDE DEF d
          <5> QED BY <4>4, <4>0, Setters
        <4>6. /\ e.pc = "look" /\ e.cost = Unmade.cost /\ e.holds = Unmade.holds
              /\ e.counted = Unmade.counted /\ e.opened = Unmade.opened
          BY <3>4, SMT DEF Req
        <4>7. f = e
          BY DEF f, j, k
        <4> HIDE DEF e
        <4> QED BY <3>4, <4>5, <4>6, <4>7
      <3>6. Had(f) /\ Asked(f)
        BY <3>5 DEF Had, Asked, Untouched, Reserving, Asking
      <3>7. req[q].holds = FALSE /\ req[q].counted = FALSE /\ req[q].opened = FALSE
        <4>1. req[q].pc = "new"
          BY <1>5, <2>3
        <4>2. {req[q].holds, req[q].counted, req[q].opened} \subseteq BOOLEAN
          BY <2>1 DEF Req
        <4> QED BY <2>1, <4>1, <4>2 DEF Had, Untouched
      <3> QED BY <3>1, <3>5, <3>6, <3>7
    <2> QED BY <2>2, <2>3
  <1>7. req' = [q \in Request |-> g[q]]
    BY <1>4
  <1> HIDE DEF g
  <1>8. req' \in [Request -> Req] /\ Phases' /\ MonthBooks' /\ WeekBooks'
    BY <1>2, <1>6, <1>7, AllMove
  <1> QED BY <1>2, <1>8, IInvParts

LEMMA IdleStep ==
    ASSUME IInv, Tick \/ UNCHANGED vars
    PROVE  IInv'
  <1>1. now' \in Nat
    BY SMT DEF IInv, Typed, Tick, vars
  <1>2. TypedRest' /\ UNCHANGED <<month, week, req>>
    BY <1>1 DEF IInv, Typed, TypedRest, Tick, vars, store, month, week
  <1>3. req' \in [Request -> Req] /\ Phases'
    BY <1>2 DEF IInv, Typed, Phases
  <1>4. MonthBooks' /\ WeekBooks'
    BY <1>2, MonthKept, WeekKept DEF IInv
  <1> QED BY <1>2, <1>3, <1>4, IInvParts

-------------------------------------------------------------------------------
(* The books *)

LEMMA BooksStep == ASSUME IInv, [Next]_vars PROVE IInv'
  <1>1. ASSUME Arrive PROVE IInv'
    BY <1>1, ArriveStep
  <1>2. ASSUME NEW r \in Request, Step(r) PROVE IInv'
    BY <1>2, LookStep, LookAgainStep, ClaimStep, WaitStep, AdmitStep, CountStep,
       UnreserveStep, CorrectStep, SaveStep, RefundStep, ReleaseStep DEF Step
  <1>3. ASSUME NEW c \in Request, Flush(c) \/ Remember(c) \/ Die(c) PROVE IInv'
    BY <1>3, FlushStep, RememberStep, DieStep
  <1>4. ASSUME Tick \/ UNCHANGED vars PROVE IInv'
    BY <1>4, IdleStep
  <1> QED BY <1>1, <1>2, <1>3, <1>4 DEF Next

LEMMA BooksHeld == Spec => []IInv
  <1>1. Init => IInv
    BY InitIInv
  <1>2. IInv /\ [Next]_vars => IInv'
    BY BooksStep
  <1> QED BY <1>1, <1>2, PTL DEF Spec

(* The types of the books, the claims, the saved answers and the requests.    *)
THEOREM TranslationTypes == Spec => []TypeOK
  <1>1. IInv => TypeOK
    BY DEF IInv, Typed, TypeOK
  <1> QED BY <1>1, BooksHeld, PTL

(* If no answer of D1 is lost and a reservation covers three questions, what   *)
(* is reserved is what the unsettled requests hold, and the month never       *)
(* passes its budget by a reservation.  Otherwise a batch that was saved and  *)
(* reported as failed is refunded after it has settled, or a request is       *)
(* billed more than it gives back.                                            *)
THEOREM MonthOfTranslation ==
    ASSUME ~AnswerLost, Ample
    PROVE  Spec => []BudgetHeld
  <1>1. IInv => BudgetHeld
    BY DEF IInv, MonthBooks
  <1> QED BY <1>1, BooksHeld, PTL

(* The pages and chapters of every account's week are those of the requests    *)
(* that keep them, within one limit or the other, even if answers of D1 are   *)
(* lost.                                                                      *)
THEOREM WeekOfTranslation == Spec => []QuotaHeld
  <1>1. IInv => QuotaHeld
    BY DEF IInv, WeekBooks, QuotaHeld
  <1> QED BY <1>1, BooksHeld, PTL

-------------------------------------------------------------------------------
(* Claims and answers *)

Seeing == {"claim", "admit", "count", "check", "save"} \cup Asking

textJob(q) == q.job.kind \in {"text", "fast"}
Alive(q) == q.pc \notin Ended \cup {"new"}
Paying(q) == textJob(q) /\ q.pc \in Claiming

(* What a request at work is, by where it is: where its answer will be saved  *)
(* and how complete the answer in its hands is.                               *)
Placed(q) ==
    /\ IF textJob(q) THEN q.engine \in {"text", "fast"} ELSE q.engine = q.job.kind
    /\ q.pc \in {"second", "claim", "wait", "check", "correct", "release"} => textJob(q)
    /\ textJob(q) /\ q.repairing /\ q.pc \in Seeing => q.got \in {"holes", "full"}
    /\ textJob(q) /\ ~q.repairing /\ q.pc \in {"again", "correct", "check", "save"}
            => q.got \in Answer
    /\ ~textJob(q) /\ q.pc = "save" => q.got = "full"
    /\ q.pc = "ask" => ~q.repairing

(* It has not outlasted its claim at t, its claim is in C, and the row it      *)
(* looked at is in R as it was.                                               *)
Fresh(q, t) == q.at <= t /\ (~Slow => t <= q.at + ClaimTTL)
Owns(q, C) == Paying(q) /\ ~Slow => C[q.job.target][q.engine] = q.at
Saw(q, R) ==
    textJob(q) /\ q.pc \in Seeing /\ ~Slow /\ ~Overtaken =>
        IF q.repairing THEN R[q.job.target][q.engine] = "holes"
        ELSE R[q.job.target][q.engine] \in {"none", "empty"}

Standing(q, t, R, C) ==
    Alive(q) => Placed(q) /\ Fresh(q, t) /\ Owns(q, C) /\ Saw(q, R)

Alone == ~Slow => OnePayer
OInv == (\A r \in Request : Standing(req[r], now, row, claim)) /\ Alone

(* Nobody begins to pay and every request stands: the invariant is kept. *)
LEMMA Stands ==
    ASSUME OInv,
           \A r \in Request : /\ Standing(req'[r], now', row', claim')
                              /\ Paying(req'[r]) => /\ Paying(req[r])
                                                    /\ req'[r].job = req[r].job
                                                    /\ req'[r].engine = req[r].engine
    PROVE  OInv'
  <1>1. \A r \in Request : Paying(req[r]) <=> isText(r) /\ req[r].pc \in Claiming
    BY DEF Paying, textJob, isText, kind
  <1>2. \A r \in Request : Paying(req'[r]) <=> isText(r)' /\ req'[r].pc \in Claiming
    BY DEF Paying, textJob, isText, kind
  <1>3. Alone'
    <2> SUFFICES ASSUME ~Slow, NEW r \in Request, NEW q \in Request, r # q,
                        isText(r)', isText(q)', {req'[r].pc, req'[q].pc} \subseteq Claiming,
                        target(r)' = target(q)', req'[r].engine = req'[q].engine
                 PROVE  FALSE
      BY DEF Alone, OnePayer
    <2>1. Paying(req'[r]) /\ Paying(req'[q])
      BY <1>2
    <2>2. /\ isText(r) /\ isText(q) /\ {req[r].pc, req[q].pc} \subseteq Claiming
          /\ req[r].engine = req[q].engine /\ req[r].job.target = req[q].job.target
      BY <1>1, <2>1 DEF target
    <2> QED BY <2>2 DEF OInv, Alone, OnePayer, target
  <1>4. (\A r \in Request : Standing(req[r], now, row, claim))'
    OBVIOUS
  <1> QED BY <1>3, <1>4 DEF OInv

(* One request changes; time, rows and claims do not. *)
LEMMA OneStands ==
    ASSUME IInv, OInv, NEW r \in Request, NEW f, req' = [req EXCEPT ![r] = f],
           UNCHANGED <<now, row, claim>>, Standing(f, now, row, claim),
           Paying(f) => Paying(req[r]) /\ f.job = req[r].job /\ f.engine = req[r].engine
    PROVE  OInv'
  <1>1. \A q \in Request : req'[q] = IF q = r THEN f ELSE req[q]
    BY DEF IInv, Typed
  <1>2. \A q \in Request : Standing(req'[q], now', row', claim')
    BY <1>1 DEF OInv
  <1>3. \A q \in Request : Paying(req'[q]) => /\ Paying(req[q]) /\ req'[q].job = req[q].job
                                              /\ req'[q].engine = req[q].engine
    BY <1>1
  <1> QED BY <1>2, <1>3, Stands

(* A request goes on as it is, or ends. *)
Same(f, q) ==
    /\ f.job = q.job /\ f.engine = q.engine /\ f.at = q.at
    /\ f.repairing = q.repairing

LEMMA SameStands ==
    ASSUME NEW f, NEW q, NEW t, NEW R, NEW C, Standing(q, t, R, C), Alive(q), Same(f, q),
           Placed(f), textJob(q) /\ f.pc \in Seeing => q.pc \in Seeing,
           textJob(q) /\ f.pc \in Claiming => q.pc \in Claiming
    PROVE  /\ Standing(f, t, R, C)
           /\ Paying(f) => Paying(q) /\ f.job = q.job /\ f.engine = q.engine
  <1>1. textJob(f) = textJob(q)
    BY DEF textJob, Same
  <1>2. Fresh(f, t)
    BY DEF Standing, Fresh, Same
  <1>3. Paying(f) => Paying(q) /\ f.job = q.job /\ f.engine = q.engine
    BY <1>1 DEF Paying, Same
  <1>4. Owns(f, C)
    BY <1>3 DEF Standing, Owns, Same
  <1>5. Saw(f, R)
    BY <1>1 DEF Standing, Saw, Same
  <1> QED BY <1>2, <1>3, <1>4, <1>5 DEF Standing

LEMMA GoesStands ==
    ASSUME IInv, OInv, NEW r \in Request, NEW p \in PC, to(r, p),
           UNCHANGED <<now, row, claim>>,
           LET q == req[r] IN
           \/ p \in Ended
           \/ /\ Alive(q)
              /\ p \in {"second", "wait", "release", "check", "correct"} => textJob(q)
              /\ p \in Seeing => q.pc \in Seeing \/ ~textJob(q)
              /\ p \in Claiming => q.pc \in Claiming \/ ~textJob(q)
              /\ p \in {"again", "correct", "save"}
                    => textJob(q) /\ q.pc \in {"again", "correct", "check", "save"}
              /\ p \notin {"claim", "ask", "check"}
    PROVE  OInv'
  <1> DEFINE q == req[r]
             f == at(q, p)
  <1>1. q \in Req /\ Standing(q, now, row, claim)
    BY DEF IInv, Typed, OInv
  <1>2. /\ f \in Req /\ f.pc = p /\ SameHad(f, q)
        /\ p \notin Ended => /\ f.engine = q.engine /\ f.at = q.at
                             /\ f.repairing = q.repairing /\ f.got = q.got
    BY <1>1, Onward
  <1>3. req' = [req EXCEPT ![r] = f]
    BY DEF to
  <1> HIDE DEF f
  <1>4. CASE p \in Ended
    <2>1. Standing(f, now, row, claim) /\ ~Paying(f)
      BY <1>2, <1>4 DEF Standing, Alive, Paying, Claiming, Ended, Asking
    <2> QED BY <1>3, <2>1, OneStands
  <1>5. CASE p \notin Ended
    <2>1. Same(f, q) /\ f.got = q.got
      BY <1>2, <1>5 DEF Same, SameHad
    <2>2. textJob(f) = textJob(q) /\ Alive(q)
      BY <2>1, <1>5 DEF Same, textJob
    <2>3. Placed(q)
      BY <1>1, <2>2 DEF Standing
    <2>4. Placed(f)
      BY <1>2, <2>1, <2>2, <2>3, <1>5 DEF Placed, Same
    <2>5. Standing(f, now, row, claim)
          /\ (Paying(f) => Paying(q) /\ f.job = q.job /\ f.engine = q.engine)
      BY <1>1, <1>2, <1>5, <2>1, <2>2, <2>4, SameStands
    <2> QED BY <1>3, <2>5, OneStands
  <1> QED BY <1>4, <1>5

LEMMA LookStands ==
    ASSUME IInv, OInv, NEW r \in Request, Look(r) \/ LookAgain(r)
    PROVE  OInv'
  <1>1. /\ UNCHANGED <<now, row, claim>> /\ req[r].pc \in {"look", "second"}
        /\ req[r] \in Req
    BY DEF Look, LookAgain, store, IInv, Typed
  <1>2. Alive(req[r]) /\ Placed(req[r]) /\ Standing(req[r], now, row, claim)
    BY <1>1 DEF OInv, Standing, Alive, Ended
  <1>3. isText(r) <=> textJob(req[r])
    BY DEF isText, textJob, kind
  <1>4. ASSUME NEW e \in {"text", "fast"}, textJob(req[r]), req' = [req EXCEPT ![r] = found(r, e)]
        PROVE  OInv'
    <2> DEFINE f == found(r, e)
               old == row[target(r)][e]
    <2>1. /\ SameHad(f, req[r]) /\ f.pc = IF old = "full" THEN "done" ELSE "claim"
          /\ old # "full" =>
                /\ f.engine = e /\ f.at = req[r].at /\ f.repairing = (old = "holes")
                /\ f.got = IF old = "holes" THEN "holes" ELSE "none"
      BY Found DEF IInv
    <2>2. old \in Stored
      <3>1. req[r].job \in Job
        BY <1>1 DEF Req
      <3>2. target(r) \in Target /\ e \in Engine
        BY <3>1 DEF Job, target, Engine, Kind
      <3> QED BY <3>2 DEF IInv, Typed
    <2>3. req' = [req EXCEPT ![r] = f]
      BY <1>4
    <2> HIDE DEF f
    <2>4. ~Paying(f)
      BY <2>1 DEF Paying, Claiming, Asking
    <2>5. Standing(f, now, row, claim)
      <3>1. CASE old = "full"
        BY <2>1, <3>1 DEF Standing, Alive, Ended
      <3>2. CASE old # "full"
        <4>1. textJob(f) /\ f.job = req[r].job /\ f.pc = "claim"
          BY <1>4, <2>1, <3>2 DEF textJob, SameHad
        <4>2. Fresh(f, now)
          BY <1>2, <2>1, <3>2 DEF Standing, Fresh
        <4>3. Placed(f)
          BY <2>1, <3>2, <4>1 DEF Placed
        <4>4. Saw(f, row)
          <5>1. row[f.job.target][f.engine] = old
            BY <2>1, <3>2, <4>1 DEF target
          <5>2. old \in {"none", "empty", "holes"}
            BY <2>2, <3>2 DEF Stored, Answer
          <5> QED BY <2>1, <3>2, <5>1, <5>2 DEF Saw
        <4> QED BY <2>4, <4>2, <4>3, <4>4 DEF Standing, Owns
      <3> QED BY <3>1, <3>2
    <2> QED BY <1>1, <2>3, <2>4, <2>5, OneStands
  <1>5. CASE \E e \in {"text", "fast"} : textJob(req[r]) /\ req' = [req EXCEPT ![r] = found(r, e)]
    BY <1>4, <1>5
  <1>6. CASE textJob(req[r]) /\ to(r, "second")
    BY <1>1, <1>2, <1>6, GoesStands DEF PC, Seeing, Claiming, Asking, Ended
  <1>7. CASE ~textJob(req[r]) /\ \E p \in {"admit", "done"} : to(r, p)
    <2>1. PICK p \in {"admit", "done"} : to(r, p)
      BY <1>7
    <2> QED BY <1>1, <1>2, <1>7, <2>1, GoesStands DEF PC, Ended
  <1>8. Placed(req[r]) /\ LookAgain(r) => textJob(req[r])
    BY DEF Placed, LookAgain
  <1>9. LookAgain(r) => textJob(req[r]) /\ req' = [req EXCEPT ![r] = found(r, "fast")]
    BY <1>2, <1>8 DEF LookAgain
  <1>10. Look(r) => \/ textJob(req[r]) /\ req' = [req EXCEPT ![r] = found(r, "text")]
                    \/ textJob(req[r]) /\ to(r, "second")
                    \/ ~textJob(req[r]) /\ \E p \in {"admit", "done"} : to(r, p)
    BY <1>3 DEF Look, isText
  <1> QED BY <1>5, <1>6, <1>7, <1>9, <1>10

(* What a step may do that only sends a request on: the tables it leaves. *)
LEMMA SendsOn ==
    ASSUME IInv, OInv, NEW r \in Request, Wait(r) \/ Correct(r)
    PROVE  OInv'
  <1>1. UNCHANGED <<now, row, claim>>
    BY DEF Wait, Correct, store
  <1>2. CASE Wait(r)
    BY <1>1, <1>2, GoesStands DEF Wait, PC, Ended
  <1>3. CASE Correct(r)
    <2>1. req[r].pc = "check" /\ to(r, "correct")
      BY <1>3 DEF Correct
    <2>2. Alive(req[r])
      BY <2>1 DEF Alive, Ended
    <2>3. textJob(req[r])
      BY <2>1, <2>2 DEF OInv, Standing, Placed
    <2> QED BY <1>1, <2>1, <2>2, <2>3, GoesStands DEF PC, Asking, Seeing, Claiming
  <1> QED BY <1>2, <1>3

(* Where a request goes that is over. *)
LEMMA LeavesStanding ==
    ASSUME IInv, OInv, NEW r \in Request, to(r, leaving(r)), req[r].pc \in Claiming,
           UNCHANGED <<now, row, claim>>
    PROVE  OInv'
  <1>1. Alive(req[r])
    BY DEF Alive, Claiming, Asking, Ended
  <1>2. \/ leaving(r) = "done"
        \/ leaving(r) = "release" /\ textJob(req[r])
    BY DEF leaving, textJob, isText, kind
  <1> QED BY <1>1, <1>2, GoesStands DEF PC, Ended, Seeing, Asking

LEMMA SettlesStanding ==
    ASSUME IInv, OInv, NEW r \in Request, NEW f, req' = [req EXCEPT ![r] = f],
           NEW d, f = at(d, leaving(r)), d \in Req, Same(d, req[r]),
           req[r].pc \in Claiming
    PROVE  /\ \A t, R, C : Standing(req[r], t, R, C) => Standing(f, t, R, C)
           /\ Paying(f) => Paying(req[r]) /\ f.job = req[r].job /\ f.engine = req[r].engine
  <1>1. Alive(req[r]) /\ Placed(req[r])
    BY DEF Alive, Claiming, Asking, Ended, OInv, Standing
  <1>2. f.pc = leaving(r) /\ (f.pc \notin Ended => Same(f, req[r]))
    BY LeavingTo, Onward DEF Same, SameHad
  <1>3. CASE leaving(r) = "done"
    BY <1>2, <1>3 DEF Standing, Alive, Ended, Paying, Claiming, Asking
  <1>4. CASE leaving(r) = "release" /\ textJob(req[r])
    <2>1. f.pc = "release" /\ Same(f, req[r])
      BY <1>2, <1>4 DEF Ended
    <2>2. Placed(f)
      BY <1>1, <1>4, <2>1 DEF Placed, Same, textJob, Seeing, Asking
    <2>3. f.pc \notin Seeing
      BY <2>1 DEF Seeing, Asking
    <2>4. "release" \in Claiming /\ f.pc \in Claiming
      BY <2>1 DEF Claiming
    <2>5. ASSUME NEW t, NEW R, NEW C, Standing(req[r], t, R, C)
          PROVE  Standing(f, t, R, C)
      BY <1>1, <2>1, <2>2, <2>3, <2>5, SameStands
    <2>6. Paying(f) => Paying(req[r]) /\ f.job = req[r].job /\ f.engine = req[r].engine
      BY <2>1 DEF Paying, Same, textJob
    <2> QED BY <2>5, <2>6
  <1> QED BY <1>3, <1>4 DEF leaving, textJob, isText, kind

LEMMA AdmitStands ==
    ASSUME IInv, OInv, NEW r \in Request, Admit(r)
    PROVE  OInv'
  <1>1. UNCHANGED <<now, row, claim>> /\ req[r].pc = "admit" /\ req[r] \in Req
    BY DEF Admit, store, IInv, Typed
  <1>2. CASE to(r, leaving(r))
    BY <1>1, <1>2, LeavesStanding DEF Claiming
  <1>3. CASE req' = [req EXCEPT ![r].holds = TRUE,
                                ![r].pc = IF req[r].repairing THEN "again" ELSE "count"]
    <2> DEFINE q == req[r]
               p == IF q.repairing THEN "again" ELSE "count"
               f == [q EXCEPT !.holds = TRUE, !.pc = p]
    <2>1. req' = [req EXCEPT ![r] = f]
      BY <1>3 DEF IInv, Typed
    <2>2. Same(f, q) /\ f.pc = p /\ f.got = q.got
      <3> HIDE DEF p
      <3> QED BY <1>1, SMT DEF Req, Same
    <2>3. Alive(q) /\ Standing(q, now, row, claim)
      BY <1>1 DEF OInv, Alive, Ended
    <2>4. Placed(f)
      <3> HIDE DEF f
      <3>1. Placed(q) /\ textJob(f) = textJob(q)
        BY <2>2, <2>3 DEF Standing, Same, textJob
      <3>2. CASE q.repairing
        BY <1>1, <2>2, <3>1, <3>2 DEF Placed, Same, Seeing, Asking
      <3>3. CASE ~q.repairing
        BY <1>1, <2>2, <3>1, <3>3 DEF Placed, Same, Seeing, Asking
      <3> QED BY <3>2, <3>3
    <2> HIDE DEF f
    <2>5. q.pc \in Seeing /\ q.pc \in Claiming
      BY <1>1 DEF Seeing, Claiming
    <2>6. Standing(f, now, row, claim)
          /\ (Paying(f) => Paying(q) /\ f.job = q.job /\ f.engine = q.engine)
      BY <2>2, <2>3, <2>4, <2>5, SameStands
    <2> QED BY <1>1, <2>1, <2>6, OneStands
  <1> QED BY <1>2, <1>3 DEF Admit

LEMMA CountStands ==
    ASSUME IInv, OInv, NEW r \in Request, Count(r)
    PROVE  OInv'
  <1>1. /\ UNCHANGED <<now, row, claim>> /\ req[r].pc = "count" /\ req[r] \in Req
        /\ ~req[r].repairing
    BY DEF Count, store, IInv, Typed, Phases, Had
  <1>2. CASE to(r, leaving(r))
    BY <1>1, <1>2, LeavesStanding DEF Claiming
  <1>3. CASE to(r, "unreserve")
    <2>1. Alive(req[r])
      BY <1>1 DEF Alive, Ended
    <2> QED BY <1>1, <1>3, <2>1, GoesStands DEF PC, Seeing, Claiming, Asking
  <1>4. CASE \E o : req' = [req EXCEPT ![r].counted = TRUE, ![r].opened = o, ![r].pc = "ask"]
    <2>0. PICK o : req' = [req EXCEPT ![r].counted = TRUE, ![r].opened = o, ![r].pc = "ask"]
      BY <1>4
    <2> DEFINE q == req[r]
               f == [q EXCEPT !.counted = TRUE, !.opened = o, !.pc = "ask"]
    <2>1. req' = [req EXCEPT ![r] = f]
      BY <2>0 DEF IInv, Typed
    <2>2. Same(f, q) /\ f.pc = "ask" /\ f.got = q.got
      BY <1>1, SMT DEF Req, Same
    <2>3. Alive(q) /\ Standing(q, now, row, claim)
      BY <1>1 DEF OInv, Alive, Ended
    <2> HIDE DEF f
    <2>4. Placed(f)
      <3>1. Placed(q) /\ textJob(f) = textJob(q)
        BY <2>2, <2>3 DEF Standing, Same, textJob
      <3> QED BY <1>1, <2>2, <3>1 DEF Placed, Same, Seeing, Asking
    <2>5. q.pc \in Seeing /\ q.pc \in Claiming
      BY <1>1 DEF Seeing, Claiming
    <2>6. Standing(f, now, row, claim)
          /\ (Paying(f) => Paying(q) /\ f.job = q.job /\ f.engine = q.engine)
      BY <2>2, <2>3, <2>4, <2>5, SameStands
    <2> QED BY <1>1, <2>1, <2>6, OneStands
  <1> QED BY <1>2, <1>3, <1>4 DEF Count

LEMMA UnreserveStands ==
    ASSUME IInv, OInv, NEW r \in Request, Unreserve(r)
    PROVE  OInv'
  <1>1. /\ UNCHANGED <<now, row, claim>> /\ req[r].pc \in Claiming /\ req[r] \in Req
    BY DEF Unreserve, store, IInv, Typed, Claiming
  <1>2. CASE to(r, leaving(r))
    BY <1>1, <1>2, LeavesStanding
  <1>3. CASE req' = [req EXCEPT ![r] = at([@ EXCEPT !.holds = FALSE], leaving(r))]
    <2> DEFINE d == [req[r] EXCEPT !.holds = FALSE]
               f == at(d, leaving(r))
    <2>1. d \in Req
      BY <1>1, Setters
    <2>2. Same(d, req[r])
      BY <1>1, SMT DEF Req, Same
    <2>3. req' = [req EXCEPT ![r] = f]
      BY <1>3
    <2>4. f = at(d, leaving(r))
      OBVIOUS
    <2> HIDE DEF d, f
    <2>5. /\ \A t, R, C : Standing(req[r], t, R, C) => Standing(f, t, R, C)
          /\ Paying(f) => Paying(req[r]) /\ f.job = req[r].job /\ f.engine = req[r].engine
      BY <1>1, <2>1, <2>2, <2>3, <2>4, SettlesStanding
    <2>6. Standing(f, now, row, claim)
      BY <2>5 DEF OInv
    <2> QED BY <1>1, <2>3, <2>5, <2>6, OneStands
  <1> QED BY <1>2, <1>3 DEF Unreserve

LEMMA RefundStands ==
    ASSUME IInv, OInv, NEW r \in Request, Refund(r)
    PROVE  OInv'
  <1>1. /\ UNCHANGED <<now, row, claim>> /\ req[r].pc \in Claiming /\ req[r] \in Req
    BY DEF Refund, store, IInv, Typed, Claiming
  <1>2. CASE to(r, leaving(r))
    BY <1>1, <1>2, LeavesStanding
  <1> DEFINE d == [req[r] EXCEPT !.holds = FALSE, !.counted = FALSE, !.opened = FALSE,
                                 !.billed = isText(r)]
             f == at(d, leaving(r))
  <1>3. CASE req' = [req EXCEPT ![r] = f]
    <2>1. d \in Req /\ Same(d, req[r])
      <3> DEFINE a == [req[r] EXCEPT !.holds = FALSE]
                 b == [a EXCEPT !.counted = FALSE]
                 c == [b EXCEPT !.opened = FALSE]
                 t == isText(r)
                 e == [c EXCEPT !.billed = t]
      <3>1. a \in Req
        BY <1>1, Setters
      <3>2. b \in Req
        <4> HIDE DEF a
        <4> QED BY <3>1, Setters
      <3>3. c \in Req
        <4> HIDE DEF b
        <4> QED BY <3>2, Setters
      <3>4. e \in Req
        <4>1. t \in BOOLEAN
          BY DEF isText
        <4> HIDE DEF c, t
        <4> QED BY <3>3, <4>1, Setters
      <3>5. Same(e, req[r])
        <4> HIDE DEF t
        <4> QED BY <1>1, SMT DEF Req, Same
      <3>6. e = d
        OBVIOUS
      <3> QED BY <3>4, <3>5, <3>6
    <2>4. f = at(d, leaving(r))
      OBVIOUS
    <2> HIDE DEF d, f
    <2>5. /\ \A t, R, C : Standing(req[r], t, R, C) => Standing(f, t, R, C)
          /\ Paying(f) => Paying(req[r]) /\ f.job = req[r].job /\ f.engine = req[r].engine
      BY <1>1, <1>3, <2>1, <2>4, SettlesStanding
    <2>6. Standing(f, now, row, claim)
      BY <2>5 DEF OInv
    <2> QED BY <1>1, <1>3, <2>5, <2>6, OneStands
  <1> QED BY <1>2, <1>3 DEF Refund

(* What a reply leaves in the hands of a request for text, and of another. *)
LEMMA TextReply ==
    ASSUME NEW q \in Req, q.pc \in Asking, NEW a \in Reply, NEW f, f = textAnswered(q, a),
           q.repairing => q.got \in {"holes", "full"} /\ q.pc # "ask",
           ~q.repairing /\ q.pc # "ask" => q.got \in Answer
    PROVE  /\ q.repairing /\ f.pc # "refund" => f.got \in {"holes", "full"}
           /\ ~q.repairing /\ f.pc # "refund" => f.got \in Answer
  <1> DEFINE paid == asked(q, a)
  <1>0. /\ \A g, p : LET h == [paid EXCEPT !.got = g, !.pc = p] IN h.got = g /\ h.pc = p
        /\ \A p : LET h == [paid EXCEPT !.pc = p] IN h.pc = p
        /\ paid.got = q.got
    BY SMT DEF Req, asked
  <1>1. CASE q.pc = "ask" /\ a \in Answer
    <2> DEFINE p == IF a = "full" THEN "check" ELSE "again"
    <2>2. f = [paid EXCEPT !.got = a, !.pc = p]
      BY <1>1 DEF textAnswered
    <2>1. f.got = a
      <3> HIDE DEF paid, p
      <3> QED BY <1>0, <2>2
    <2> QED BY <1>1, <2>1
  <1>2. CASE q.pc = "again" /\ (a \in Answer \/ ~q.repairing)
    <2>1. f.got = merged(q, a)
      BY <1>0, <1>2 DEF textAnswered
    <2> QED BY <1>2, <2>1 DEF merged, Answer
  <1>3. CASE q.pc = "correct"
    <2> DEFINE g == IF a = "full" THEN "full" ELSE q.got
    <2>2. f = [paid EXCEPT !.got = g, !.pc = "save"]
      <3>1. f = [paid EXCEPT !.got = IF a = "full" THEN "full" ELSE paid.got, !.pc = "save"]
        BY <1>3 DEF textAnswered
      <3> HIDE DEF paid
      <3> QED BY <1>0, <3>1
    <2>1. f.got = g
      <3> HIDE DEF paid, g
      <3> QED BY <1>0, <2>2
    <2> QED BY <1>3, <2>1 DEF Answer
  <1>4. CASE ~(\/ q.pc = "ask" /\ a \in Answer
               \/ q.pc = "again" /\ (a \in Answer \/ ~q.repairing)
               \/ q.pc = "correct")
    <2>1. f.pc = "refund"
      BY <1>0, <1>4 DEF textAnswered
    <2> QED BY <2>1
  <1> QED BY <1>1, <1>2, <1>3, <1>4

LEMMA PageReply ==
    ASSUME NEW q \in Req, NEW a, NEW f, f = pageAnswered(q, a)
    PROVE  f.pc = "refund" \/ (f.pc = "save" /\ f.got = "full")
  <1> DEFINE paid == asked(q, a)
  <1>2. CASE a \in Answer
    <2>1. f = [paid EXCEPT !.got = "full", !.pc = "save"]
      BY <1>2 DEF pageAnswered
    <2>2. f.pc = "save" /\ f.got = "full"
      BY <2>1, SMT DEF Req, asked
    <2> QED BY <2>2
  <1>3. CASE a \notin Answer
    <2>1. f = [paid EXCEPT !.pc = "refund"]
      BY <1>3 DEF pageAnswered
    <2>2. f.pc = "refund"
      BY <2>1, SMT DEF Req, asked
    <2> QED BY <2>2
  <1> QED BY <1>2, <1>3

LEMMA FlushStands ==
    ASSUME IInv, OInv, NEW c \in Request, Flush(c)
    PROVE  OInv'
  <1>1. UNCHANGED <<now, row, claim>>
    BY DEF Flush, store
  <1>2. PICK replies \in [pending(c) -> Reply] :
            req' = [r \in Request |->
                        IF r \notin pending(c) THEN req[r]
                        ELSE IF isText(r) THEN textAnswered(req[r], replies[r])
                        ELSE pageAnswered(req[r], replies[r])]
    BY DEF Flush
  <1>3. ASSUME NEW r \in Request
        PROVE  /\ Standing(req'[r], now, row, claim)
               /\ Paying(req'[r]) => /\ Paying(req[r]) /\ req'[r].job = req[r].job
                                     /\ req'[r].engine = req[r].engine
    <2> DEFINE q == req[r]
               a == replies[r]
               f == req'[r]
    <2>1. Standing(q, now, row, claim) /\ q \in Req /\ Had(q) /\ Asked(q)
      BY DEF OInv, IInv, Typed, Phases
    <2>2. CASE r \notin pending(c)
      BY <1>2, <2>1, <2>2
    <2>3. CASE r \in pending(c)
      <3>1. q.pc \in Asking /\ a \in Reply /\ Alive(q)
        BY <2>3 DEF pending, Asking, Alive, Ended
      <3>2. f = IF textJob(q) THEN textAnswered(q, a) ELSE pageAnswered(q, a)
        BY <1>2, <2>3 DEF isText, textJob, kind
      <3> HIDE DEF f, a, q
      <3>3. /\ f \in Req /\ SameHad(f, q) /\ f.at = q.at
            /\ f.engine = q.engine /\ f.repairing = q.repairing
            /\ f.pc \in {"again", "check", "save", "refund"}
        BY <2>1, <3>1, <3>2, Replied
      <3>4. Same(f, q) /\ textJob(f) = textJob(q) /\ Placed(q)
        BY <2>1, <3>1, <3>3 DEF Same, SameHad, textJob, Standing
      <3>5. Placed(f)
        <4>1. CASE textJob(q)
          <5>1. /\ q.repairing => q.got \in {"holes", "full"} /\ q.pc # "ask"
                /\ ~q.repairing /\ q.pc # "ask" => q.got \in Answer
            BY <3>1, <3>4, <4>1 DEF Placed, Seeing, Asking
          <5>2. /\ q.repairing /\ f.pc # "refund" => f.got \in {"holes", "full"}
                /\ ~q.repairing /\ f.pc # "refund" => f.got \in Answer
            BY <2>1, <3>1, <3>2, <4>1, <5>1, TextReply
          <5> QED BY <3>3, <3>4, <4>1, <5>2 DEF Placed, Same, Seeing, Asking
        <4>2. CASE ~textJob(q)
          <5>1. f.pc = "refund" \/ (f.pc = "save" /\ f.got = "full")
            BY <2>1, <3>2, <4>2, PageReply
          <5> QED BY <3>3, <3>4, <4>2, <5>1 DEF Placed, Same
        <4> QED BY <4>1, <4>2
      <3>6. q.pc \in Seeing /\ q.pc \in Claiming
        BY <3>1 DEF Seeing, Claiming
      <3>7. Standing(f, now, row, claim)
            /\ (Paying(f) => Paying(q) /\ f.job = q.job /\ f.engine = q.engine)
        BY <2>1, <3>1, <3>4, <3>5, <3>6, SameStands
      <3> QED BY <3>7 DEF f, q
    <2> QED BY <2>2, <2>3
  <1> QED BY <1>1, <1>3, Stands

LEMMA RememberStands ==
    ASSUME IInv, OInv, NEW c \in Request, Remember(c)
    PROVE  OInv'
  <1>1. UNCHANGED <<now, row, claim>>
    BY DEF Remember
  <1> DEFINE due == {r \in Request : req[r].call = c /\ req[r].word = "due"}
  <1>2. PICK w \in {"none", "kept"} :
            req' = [r \in Request |-> IF r \in due THEN [req[r] EXCEPT !.word = w] ELSE req[r]]
    BY DEF Remember
  <1>3. ASSUME NEW r \in Request
        PROVE  /\ Standing(req'[r], now, row, claim)
               /\ Paying(req'[r]) => /\ Paying(req[r]) /\ req'[r].job = req[r].job
                                     /\ req'[r].engine = req[r].engine
    <2> DEFINE q == req[r]
               f == [q EXCEPT !.word = w]
    <2>1. Standing(q, now, row, claim) /\ q \in Req
      BY DEF OInv, IInv, Typed
    <2>2. req'[r] = f \/ req'[r] = q
      BY <1>2
    <2>3. Same(f, q) /\ f.pc = q.pc /\ f.got = q.got
      BY <2>1, SMT DEF Req, Same
    <2> HIDE DEF f
    <2>4. Standing(f, now, row, claim)
          /\ (Paying(f) => Paying(q) /\ f.job = q.job /\ f.engine = q.engine)
      <3>1. textJob(f) = textJob(q) /\ (Alive(f) <=> Alive(q))
        BY <2>3 DEF Same, textJob, Alive
      <3>2. Paying(f) => Paying(q) /\ f.job = q.job /\ f.engine = q.engine
        BY <2>3, <3>1 DEF Same, Paying
      <3>3. Placed(q) => Placed(f)
        BY <2>3, <3>1 DEF Same, Placed
      <3>4. Fresh(q, now) => Fresh(f, now)
        BY <2>3 DEF Same, Fresh
      <3>5. Owns(q, claim) => Owns(f, claim)
        BY <2>3, <3>2 DEF Same, Owns
      <3>6. Saw(q, row) => Saw(f, row)
        BY <2>3, <3>1 DEF Same, Saw
      <3> QED BY <2>1, <3>1, <3>2, <3>3, <3>4, <3>5, <3>6 DEF Standing
    <2> QED BY <2>1, <2>2, <2>4
  <1> QED BY <1>1, <1>3, Stands

LEMMA DieStands ==
    ASSUME IInv, OInv, NEW c \in Request, Die(c)
    PROVE  OInv'
  <1>1. UNCHANGED <<now, row, claim>>
    BY DEF Die, store
  <1>2. ASSUME NEW r \in Request
        PROVE  /\ Standing(req'[r], now, row, claim)
               /\ Paying(req'[r]) => /\ Paying(req[r]) /\ req'[r].job = req[r].job
                                     /\ req'[r].engine = req[r].engine
    <2>1. req'[r] = forgotten(req[r], "dead") \/ req'[r] = req[r]
      BY DEF Die
    <2>2. CASE req'[r] = forgotten(req[r], "dead")
      <3>1. req[r] \in Req /\ "dead" \in PC
        BY DEF IInv, Typed, PC, Ended
      <3>2. req'[r].pc = "dead"
        BY <2>2, <3>1, Forgotten
      <3> QED BY <3>2 DEF Standing, Alive, Ended, Paying, Claiming, Asking
    <2>3. CASE req'[r] = req[r]
      BY <2>3 DEF OInv
    <2> QED BY <2>1, <2>2, <2>3
  <1> QED BY <1>1, <1>2, Stands

LEMMA TickStands ==
    ASSUME IInv, OInv, Tick
    PROVE  OInv'
  <1>1. UNCHANGED <<row, claim, req>> /\ now' = now + 1
    BY DEF Tick, store
  <1>2. ASSUME NEW r \in Request
        PROVE  Standing(req[r], now', row, claim)
    <2>1. CASE Alive(req[r])
      <3>1. live(r)
        BY <2>1 DEF Alive, live
      <3>2. Slow \/ now < req[r].at + ClaimTTL
        BY <3>1 DEF Tick
      <3>3. req[r].at \in Nat /\ now \in Nat /\ ClaimTTL \in Nat
        BY TranslationAssumption DEF IInv, Typed, Req
      <3>4. Fresh(req[r], now)
        BY <2>1 DEF OInv, Standing
      <3>5. Fresh(req[r], now')
        BY <1>1, <3>2, <3>3, <3>4, SMT DEF Fresh
      <3> QED BY <2>1, <3>5 DEF OInv, Standing
    <2>2. CASE ~Alive(req[r])
      BY <2>2 DEF Standing
    <2> QED BY <2>1, <2>2
  <1> QED BY <1>1, <1>2, Stands

LEMMA ArriveStands ==
    ASSUME IInv, OInv, Arrive
    PROVE  OInv'
  <1>1. UNCHANGED <<now, row, claim>>
    BY DEF Arrive, store
  <1>2. PICK n \in Request :
          LET mine == n .. n + Cardinality(Head(todo)) - 1 IN
          \E jobs \in [mine -> Head(todo)] :
                req' = [r \in Request |->
                            IF r \in mine
                            THEN [Unmade EXCEPT !.pc = "look", !.call = n, !.at = now,
                                                !.job = jobs[r], !.engine = jobs[r].kind]
                            ELSE req[r]]
    BY DEF Arrive
  <1>3. ASSUME NEW r \in Request
        PROVE  /\ Standing(req'[r], now, row, claim)
               /\ Paying(req'[r]) => /\ Paying(req[r]) /\ req'[r].job = req[r].job
                                     /\ req'[r].engine = req[r].engine
    <2>1. \/ req'[r] = req[r]
          \/ \E j : req'[r] = [Unmade EXCEPT !.pc = "look", !.call = n, !.at = now,
                                             !.job = j, !.engine = j.kind]
      BY <1>2
    <2>2. CASE req'[r] = req[r]
      BY <2>2 DEF OInv
    <2>3. ASSUME NEW j, req'[r] = [Unmade EXCEPT !.pc = "look", !.call = n, !.at = now,
                                                 !.job = j, !.engine = j.kind]
          PROVE  Standing(req'[r], now, row, claim) /\ ~Paying(req'[r])
      <3> DEFINE f == req'[r]
      <3>1. /\ f.pc = "look" /\ f.at = now /\ f.job = j /\ f.engine = j.kind
            /\ f.repairing = FALSE
        BY <2>3, SMT DEF Unmade
      <3> HIDE DEF f
      <3>2. Fresh(f, now)
        BY <3>1, TranslationAssumption, SMT DEF Fresh, IInv, Typed
      <3>3. Placed(f)
        BY <3>1 DEF Placed, textJob, Seeing, Asking
      <3>4. ~Paying(f) /\ f.pc \notin Seeing
        BY <3>1 DEF Paying, Claiming, Seeing, Asking
      <3> QED BY <3>2, <3>3, <3>4 DEF Standing, Owns, Saw, f
    <2> QED BY <2>1, <2>2, <2>3
  <1> QED BY <1>1, <1>3, Stands

(* A claim is taken only when nobody who has not outlasted his holds one. *)
LEMMA ClaimStands ==
    ASSUME IInv, OInv, NEW r \in Request, Claim(r)
    PROVE  OInv'
  <1>1. UNCHANGED <<now, row>> /\ req[r].pc = "claim" /\ req[r] \in Req
    BY DEF Claim, store, IInv, Typed
  <1>2. Alive(req[r]) /\ Placed(req[r]) /\ textJob(req[r])
        /\ Standing(req[r], now, row, claim)
    <2>1. Alive(req[r]) /\ Standing(req[r], now, row, claim)
      BY <1>1 DEF Alive, Ended, OInv
    <2> QED BY <1>1, <2>1 DEF Standing, Placed
  <1>3. CASE to(r, "wait") /\ UNCHANGED claim
    BY <1>1, <1>2, <1>3, GoesStands DEF PC, Seeing, Claiming, Asking, Ended
  <1> DEFINE t == req[r].job.target
             e == req[r].engine
             q == req[r]
             f == at(q, "admit")
  <1>4. CASE /\ claim[t][e] # None => claim[t][e] < q.at - ClaimTTL
             /\ claim' = [claim EXCEPT ![t][e] = q.at]
             /\ req' = [req EXCEPT ![r] = f]
    <2>1. Same(f, q) /\ f.pc = "admit" /\ f.got = q.got
      BY <1>1, Onward DEF PC, Ended, Same, SameHad
    <2>2. \A x \in Request : req'[x] = IF x = r THEN f ELSE req[x]
      BY <1>4 DEF IInv, Typed
    <2> HIDE DEF f
    <2>3. t \in Target /\ e \in Engine
      <3>1. q.job \in Job /\ e \in Engine
        BY <1>1 DEF Req
      <3> QED BY <3>1 DEF Job
    <2>4. /\ \A T, E : T # t \/ E # e => claim'[T][E] = claim[T][E]
          /\ claim'[t][e] = q.at
      BY <1>4, <2>3 DEF IInv, Typed
    <2>5. textJob(f) /\ f.job.target = t /\ f.engine = e
      BY <1>2, <2>1 DEF Same, textJob
    <2>6. Standing(f, now, row, claim')
      <3>1. Placed(f)
        BY <1>1, <1>2, <2>1, <2>5 DEF Placed, Same, Seeing, Asking
      <3>2. Fresh(f, now)
        BY <1>2, <2>1 DEF Standing, Fresh, Same
      <3>3. Owns(f, claim')
        BY <2>1, <2>4, <2>5 DEF Owns, Same
      <3>4. Saw(f, row)
        BY <1>1, <1>2, <2>1, <2>5 DEF Standing, Saw, Same, Seeing
      <3> QED BY <3>1, <3>2, <3>3, <3>4 DEF Standing
    <2>7. ASSUME ~Slow, NEW x \in Request, x # r, Paying(req[x])
          PROVE  req[x].job.target # t \/ req[x].engine # e
      <3>1. Standing(req[x], now, row, claim) /\ Alive(req[x])
        BY <2>7 DEF OInv, Paying, Claiming, Asking, Alive, Ended
      <3>2. Owns(req[x], claim) /\ Fresh(req[x], now)
        BY <3>1 DEF Standing
      <3>3. claim[req[x].job.target][req[x].engine] = req[x].at
        BY <2>7, <3>2 DEF Owns
      <3>4. /\ req[x].at \in Nat /\ q.at \in Nat /\ now \in Nat /\ ClaimTTL \in Nat
            /\ None \notin Nat
        BY <1>1, TranslationAssumption DEF IInv, Typed, Req
      <3>5. q.at <= now /\ now <= req[x].at + ClaimTTL
        BY <1>2, <2>7, <3>2 DEF Standing, Fresh
      <3>6. ~(req[x].at < q.at - ClaimTTL) /\ req[x].at # None
        BY <3>4, <3>5, SMT
      <3> QED BY <1>4, <3>3, <3>6
    <2>8. ASSUME NEW x \in Request, x # r
          PROVE  Standing(req[x], now, row, claim')
      <3>1. Standing(req[x], now, row, claim)
        BY DEF OInv
      <3>2. Owns(req[x], claim) => Owns(req[x], claim')
        BY <2>4, <2>7, <2>8 DEF Owns
      <3> QED BY <3>1, <3>2 DEF Standing
    <2>9. \A x \in Request : Standing(req'[x], now', row', claim')
      BY <1>1, <2>2, <2>6, <2>8
    <2>10. Alone'
      <3> SUFFICES ASSUME ~Slow, NEW x \in Request, NEW y \in Request, x # y,
                          isText(x)', isText(y)', {req'[x].pc, req'[y].pc} \subseteq Claiming,
                          target(x)' = target(y)', req'[x].engine = req'[y].engine
                   PROVE  FALSE
        BY DEF Alone, OnePayer
      <3>1. Paying(req'[x]) /\ Paying(req'[y])
            /\ req'[x].job.target = req'[y].job.target
        BY DEF Paying, textJob, isText, kind, target
      <3>2. CASE x = r
        <4>1. Paying(req[y]) /\ req[y].job.target = t /\ req[y].engine = e
          BY <2>2, <2>5, <3>1, <3>2
        <4> QED BY <2>7, <3>2, <4>1
      <3>3. CASE y = r
        <4>1. Paying(req[x]) /\ req[x].job.target = t /\ req[x].engine = e
          BY <2>2, <2>5, <3>1, <3>3
        <4> QED BY <2>7, <3>3, <4>1
      <3>4. CASE x # r /\ y # r
        <4>1. Paying(req[x]) /\ Paying(req[y]) /\ req[x].job.target = req[y].job.target
              /\ req[x].engine = req[y].engine
          BY <2>2, <3>1, <3>4
        <4> QED BY <4>1 DEF OInv, Alone, OnePayer, Paying, textJob, isText, kind, target
      <3> QED BY <3>2, <3>3, <3>4
    <2> QED BY <2>9, <2>10 DEF OInv
  <1> QED BY <1>3, <1>4 DEF Claim, to, target

LEMMA ReleaseStands ==
    ASSUME IInv, OInv, NEW r \in Request, Release(r)
    PROVE  OInv'
  <1>1. /\ UNCHANGED <<now, row>> /\ req[r].pc = "release" /\ req[r] \in Req
        /\ to(r, "done")
    BY DEF Release, store, IInv, Typed
  <1>2. Alive(req[r]) /\ textJob(req[r]) /\ Paying(req[r])
    <2>1. Alive(req[r])
      BY <1>1 DEF Alive, Ended
    <2>2. textJob(req[r])
      BY <1>1, <2>1 DEF OInv, Standing, Placed
    <2> QED BY <1>1, <2>1, <2>2 DEF Paying, Claiming
  <1> DEFINE t == req[r].job.target
             e == req[r].engine
  <1>3. CASE UNCHANGED claim
    BY <1>1, <1>3, GoesStands DEF PC, Ended
  <1>4. CASE claim' = [claim EXCEPT ![t][e] = None]
    <2>1. \A T, E : T # t \/ E # e => claim'[T][E] = claim[T][E]
      <3>1. req[r].job \in Job /\ e \in Engine
        BY <1>1 DEF Req
      <3>2. t \in Target
        BY <3>1 DEF Job
      <3> QED BY <1>4, <3>1, <3>2 DEF IInv, Typed
    <2>2. req'[r].pc = "done" /\ \A x \in Request : x # r => req'[x] = req[x]
      <3>1. req' = [req EXCEPT ![r] = at(req[r], "done")]
        BY <1>1 DEF to
      <3>2. at(req[r], "done").pc = "done"
        BY <1>1, Onward DEF PC, Ended
      <3> QED BY <3>1, <3>2 DEF IInv, Typed
    <2>3. ASSUME NEW x \in Request, x # r
          PROVE  Standing(req[x], now, row, claim')
      <3>1. Standing(req[x], now, row, claim)
        BY DEF OInv
      <3>2. Paying(req[x]) /\ ~Slow => req[x].job.target # t \/ req[x].engine # e
        BY <1>2, <2>3 DEF OInv, Alone, OnePayer, Paying, textJob, isText, kind, target
      <3>3. Owns(req[x], claim) => Owns(req[x], claim')
        BY <2>1, <3>2 DEF Owns
      <3> QED BY <3>1, <3>3 DEF Standing
    <2>4. ASSUME NEW x \in Request
          PROVE  /\ Standing(req'[x], now', row', claim')
                 /\ Paying(req'[x]) => /\ Paying(req[x]) /\ req'[x].job = req[x].job
                                       /\ req'[x].engine = req[x].engine
      <3>1. CASE x = r
        BY <2>2, <3>1 DEF Standing, Alive, Ended, Paying, Claiming, Asking
      <3>2. CASE x # r
        BY <1>1, <2>2, <2>3, <3>2
      <3> QED BY <3>1, <3>2
    <2> QED BY <2>4, Stands
  <1> QED BY <1>3, <1>4 DEF Release, target

(* Where a row is saved, nobody else relies on what it was. *)
LEMMA SavingStands ==
    ASSUME IInv, OInv, NEW r \in Request, saving(r), req[r].pc \in {"check", "save"},
           NEW x \in Request, x # r
    PROVE  Saw(req[x], row) /\ Alive(req[x]) => Saw(req[x], row')
  <1> DEFINE t == req[r].job.target
             e == req[r].engine
             n == IF kind(r) = "page" /\ row[t][e] # "none" THEN row[t][e] ELSE req[r].got
  <1>1. t \in Target /\ e \in Engine
    <2>1. req[r].job \in Job /\ e \in Engine
      BY DEF IInv, Typed, Req
    <2> QED BY <2>1 DEF Job
  <1>2. row \in [Target -> [Engine -> Stored]]
    BY DEF IInv, Typed
  <1>3. row' = [row EXCEPT ![t] = [row[t] EXCEPT ![e] = n]]
    BY <1>1, <1>2 DEF saving, target
  <1>4. \A T, E : T # t \/ E # e => row'[T][E] = row[T][E]
    <2> HIDE DEF n
    <2> QED BY <1>1, <1>2, <1>3
  <1>5. SUFFICES ASSUME Alive(req[x]), textJob(req[x]), req[x].pc \in Seeing, ~Slow, ~Overtaken,
                        req[x].job.target = t, req[x].engine = e
                 PROVE  FALSE
    BY <1>4 DEF Saw
  <1>6. Alive(req[r])
    BY DEF Alive, Ended
  <1>7. Placed(req[r]) /\ Placed(req[x])
    BY <1>5, <1>6 DEF OInv, Standing
  <1>8. textJob(req[r])
    <2>1. e \in {"text", "fast"}
      BY <1>5, <1>7 DEF Placed
    <2> QED BY <1>7, <2>1 DEF Placed, textJob
  <1>9. req[x].pc # "claim"
    BY <1>5 DEF saving, unwatched, target
  <1>10. req[x].pc \in Claiming /\ req[r].pc \in Claiming
    BY <1>5, <1>9 DEF Seeing, Claiming
  <1> QED BY <1>5, <1>8, <1>10 DEF OInv, Alone, OnePayer, textJob, isText, kind, target

LEMMA SaveStands ==
    ASSUME IInv, OInv, NEW r \in Request, Save(r)
    PROVE  OInv'
  <1>1. /\ UNCHANGED <<now, claim>> /\ req[r].pc \in {"check", "save"} /\ req[r] \in Req
        /\ req[r].pc \in Claiming
    BY DEF Save, IInv, Typed, Claiming
  <1>2. UNCHANGED row \/ saving(r)
    BY DEF Save
  <1>3. \E f : /\ req' = [req EXCEPT ![r] = f]
               /\ Alive(f) => Placed(f) /\ Fresh(f, now) /\ Owns(f, claim) /\ f.pc \notin Seeing
               /\ Paying(f) => Paying(req[r]) /\ f.job = req[r].job /\ f.engine = req[r].engine
    <2>1. Alive(req[r]) /\ Standing(req[r], now, row, claim) /\ Placed(req[r])
      BY <1>1 DEF Alive, Ended, OInv, Standing
    <2>2. CASE to(r, "refund")
      <3> DEFINE f == at(req[r], "refund")
      <3>1. f.pc = "refund" /\ Same(f, req[r])
        BY <1>1, Onward DEF PC, Ended, Same, SameHad
      <3>2. req' = [req EXCEPT ![r] = f]
        BY <2>2 DEF to
      <3> HIDE DEF f
      <3>3. Placed(f) /\ f.pc \notin Seeing
        BY <2>1, <3>1 DEF Placed, Same, textJob, Seeing, Asking
      <3>4. Standing(f, now, row, claim)
            /\ (Paying(f) => Paying(req[r]) /\ f.job = req[r].job /\ f.engine = req[r].engine)
        BY <1>1, <2>1, <3>1, <3>3, SameStands
      <3> QED BY <3>2, <3>3, <3>4 DEF Standing
    <2> DEFINE w == IF req[r].repairing THEN "none" ELSE IF deferMemory(r) THEN "due" ELSE "kept"
               d == [req[r] EXCEPT !.holds = FALSE, !.billed = TRUE, !.word = w]
               f == at(d, leaving(r))
    <2>3. CASE req' = [req EXCEPT ![r] = f]
      <3>1. d \in Req /\ Same(d, req[r])
        <4> DEFINE a == [req[r] EXCEPT !.holds = FALSE]
                   b == [a EXCEPT !.billed = TRUE]
                   c == [b EXCEPT !.word = w]
        <4>0. w \in {"none", "due", "kept"}
          OBVIOUS
        <4> HIDE DEF w
        <4>1. a \in Req
          BY <1>1, Setters
        <4>2. b \in Req
          <5> HIDE DEF a
          <5> QED BY <4>1, Setters
        <4>3. c \in Req
          <5> HIDE DEF b
          <5> QED BY <4>0, <4>2, Setters
        <4>4. Same(c, req[r])
          BY <1>1, SMT DEF Req, Same
        <4>5. c = d
          OBVIOUS
        <4> QED BY <4>3, <4>4, <4>5
      <3>2. f = at(d, leaving(r))
        OBVIOUS
      <3>3. f.pc \in {"release", "done"}
        BY <3>1, LeavingTo, Onward
      <3> HIDE DEF d, f
      <3>4. /\ \A t, R, C : Standing(req[r], t, R, C) => Standing(f, t, R, C)
            /\ Paying(f) => Paying(req[r]) /\ f.job = req[r].job /\ f.engine = req[r].engine
        BY <1>1, <2>3, <3>1, <3>2, SettlesStanding
      <3>5. Standing(f, now, row, claim) /\ f.pc \notin Seeing
        BY <2>1, <3>3, <3>4 DEF Seeing, Asking
      <3> QED BY <2>3, <3>4, <3>5 DEF Standing
    <2> QED BY <2>2, <2>3 DEF Save
  <1>4. PICK f : /\ req' = [req EXCEPT ![r] = f]
                 /\ Alive(f) => Placed(f) /\ Fresh(f, now) /\ Owns(f, claim) /\ f.pc \notin Seeing
                 /\ Paying(f) => Paying(req[r]) /\ f.job = req[r].job /\ f.engine = req[r].engine
    BY <1>3
  <1>5. \A x \in Request : req'[x] = IF x = r THEN f ELSE req[x]
    BY <1>4 DEF IInv, Typed
  <1>6. ASSUME NEW x \in Request
        PROVE  /\ Standing(req'[x], now', row', claim')
               /\ Paying(req'[x]) => /\ Paying(req[x]) /\ req'[x].job = req[x].job
                                     /\ req'[x].engine = req[x].engine
    <2>1. CASE x = r
      BY <1>1, <1>4, <1>5, <2>1 DEF Standing, Saw
    <2>2. CASE x # r
      <3>1. Standing(req[x], now, row, claim)
        BY DEF OInv
      <3>2. Alive(req[x]) => Saw(req[x], row')
        BY <1>1, <1>2, <2>2, <3>1, SavingStands DEF Standing
      <3>3. Standing(req[x], now, row', claim)
        BY <3>1, <3>2 DEF Standing
      <3> QED BY <1>1, <1>5, <2>2, <3>3
    <2> QED BY <2>1, <2>2
  <1> QED BY <1>6, Stands

LEMMA ClaimsStep ==
    ASSUME IInv, OInv, [Next]_vars
    PROVE  OInv'
  <1>1. ASSUME Arrive PROVE OInv'
    BY <1>1, ArriveStands
  <1>2. ASSUME NEW r \in Request, Step(r) PROVE OInv'
    BY <1>2, LookStands, SendsOn, ClaimStands, AdmitStands, CountStands,
       UnreserveStands, SaveStands, RefundStands, ReleaseStands DEF Step
  <1>3. ASSUME NEW c \in Request, Flush(c) \/ Remember(c) \/ Die(c) PROVE OInv'
    BY <1>3, FlushStands, RememberStands, DieStands
  <1>4. CASE Tick
    BY <1>4, TickStands
  <1>5. CASE UNCHANGED vars
    <2>1. UNCHANGED <<now, row, claim, req>>
      BY <1>5 DEF vars
    <2> QED BY <2>1, Stands DEF OInv
  <1> QED BY <1>1, <1>2, <1>3, <1>4, <1>5 DEF Next

LEMMA InitOInv == Init => OInv
  <1> SUFFICES ASSUME Init PROVE OInv
    OBVIOUS
  <1>1. \A r \in Request : req[r].pc = "new"
    BY DEF Init, Unmade
  <1>2. \A r \in Request : Standing(req[r], now, row, claim)
    BY <1>1 DEF Standing, Alive
  <1>3. Alone
    BY <1>1 DEF Alone, OnePayer, Claiming, Asking
  <1> QED BY <1>2, <1>3 DEF OInv

LEMMA ClaimsHeld == Spec => [](IInv /\ OInv)
  <1>1. Init => OInv
    BY InitOInv
  <1>2. IInv /\ OInv /\ [Next]_vars => OInv'
    BY ClaimsStep
  <1> QED BY <1>1, <1>2, BooksHeld, PTL DEF Spec

(* If no request outlasts the life of a claim, a page never has two payers.   *)
(* Without the condition a late releasePage takes the claim of a successor.   *)
THEOREM OneClaimant ==
    ASSUME ~Slow
    PROVE  Spec => []OnePayer
  <1>1. IInv /\ OInv => OnePayer
    BY DEF OInv, Alone
  <1> QED BY <1>1, ClaimsHeld, PTL

(* If besides no page is saved between another request's look at it and that  *)
(* request's claim, what is saved for a page is never replaced by less.       *)
THEOREM AnswersOnlyImprove ==
    ASSUME ~Slow, ~Overtaken
    PROVE  Spec => NeverWorse
  <1>1. ASSUME IInv, OInv, [Next]_vars
        PROVE  [\A t \in Target, e \in Engine : rank(row'[t][e]) >= rank(row[t][e])]_vars
    <2>1. UNCHANGED row => \A t \in Target, e \in Engine : rank(row'[t][e]) >= rank(row[t][e])
      <3>1. \A a \in Stored : rank(a) >= rank(a)
        BY SMT DEF rank, Stored, Answer
      <3>2. ASSUME UNCHANGED row, NEW t \in Target, NEW e \in Engine
            PROVE  rank(row'[t][e]) >= rank(row[t][e])
        <4>1. row'[t][e] = row[t][e] /\ row[t][e] \in Stored
          BY <1>1, <3>2 DEF IInv, Typed
        <4> QED BY <3>1, <4>1
      <3> QED BY <3>2
    <2>2. ASSUME NEW r \in Request, Save(r)
          PROVE  \A t \in Target, e \in Engine : rank(row'[t][e]) >= rank(row[t][e])
      <3>1. CASE UNCHANGED row
        BY <2>1, <3>1
      <3>2. CASE saving(r)
        <4> DEFINE t == req[r].job.target
                   e == req[r].engine
                   old == row[t][e]
                   n == IF kind(r) = "page" /\ old # "none" THEN old ELSE req[r].got
        <4>1. /\ req[r].pc \in {"check", "save"} /\ req[r] \in Req /\ t \in Target
              /\ e \in Engine /\ req[r].got \in Stored
          <5>1. req[r] \in Req
            BY <1>1 DEF IInv, Typed
          <5>2. req[r].job \in Job /\ e \in Engine /\ req[r].got \in Stored
            BY <5>1 DEF Req
          <5> QED BY <2>2, <5>1, <5>2 DEF Save, Job
        <4>2. Alive(req[r]) /\ Placed(req[r]) /\ Saw(req[r], row)
          BY <1>1, <4>1 DEF OInv, Standing, Alive, Ended
        <4>3. row \in [Target -> [Engine -> Stored]]
          BY <1>1 DEF IInv, Typed
        <4>4. row' = [row EXCEPT ![t] = [row[t] EXCEPT ![e] = n]]
          BY <3>2, <4>1, <4>3 DEF saving, target
        <4>5. old \in Stored
          BY <4>1, <4>3
        <4>6. rank(n) >= rank(old)
          <5>1. CASE textJob(req[r])
            <6>1. n = req[r].got
              BY <5>1 DEF textJob, kind
            <6>2. \/ old = "holes" /\ n \in {"holes", "full"}
                  \/ old \in {"none", "empty"} /\ n \in Answer
              <7>1. req[r].pc \in Seeing
                BY <4>1 DEF Seeing
              <7>2. CASE req[r].repairing
                BY <4>2, <5>1, <6>1, <7>1, <7>2 DEF Placed, Saw
              <7>3. CASE ~req[r].repairing
                <8>1. old \in {"none", "empty"}
                  BY <4>2, <5>1, <7>1, <7>3 DEF Saw
                <8>2. n \in Answer
                  BY <4>1, <4>2, <5>1, <6>1, <7>3 DEF Placed
                <8> QED BY <8>1, <8>2
              <7> QED BY <7>2, <7>3
            <6> HIDE DEF n, old
            <6> QED BY <6>2, SMT DEF rank, Answer
          <5>2. CASE ~textJob(req[r])
            <6>1. n = old \/ n = "full"
              BY <4>1, <4>2, <5>2 DEF Placed
            <6> HIDE DEF n, old
            <6> QED BY <4>5, <6>1, SMT DEF rank, Stored, Answer
          <5> QED BY <5>1, <5>2
        <4> HIDE DEF n
        <4>7. ASSUME NEW T \in Target, NEW E \in Engine
              PROVE  rank(row'[T][E]) >= rank(row[T][E])
          <5>1. CASE T = t /\ E = e
            <6>1. row'[T][E] = n
              BY <4>1, <4>3, <4>4, <5>1
            <6> QED BY <4>6, <5>1, <6>1
          <5>2. CASE ~(T = t /\ E = e)
            <6>1. row'[T][E] = row[T][E] /\ row[T][E] \in Stored
              BY <4>1, <4>3, <4>4, <5>2
            <6>2. \A a \in Stored : rank(a) >= rank(a)
              BY SMT DEF rank, Stored, Answer
            <6> QED BY <6>1, <6>2
          <5> QED BY <5>1, <5>2
        <4> QED BY <4>7
      <3> QED BY <2>2, <3>1, <3>2 DEF Save
    <2>3. (\A r \in Request : ~Save(r)) => UNCHANGED row
      BY <1>1, ZenonT(30) DEF Next, Step, Arrive, Look, LookAgain, Claim, Wait, Admit, Count, Unreserve,
         Correct, Refund, Release, Flush, Remember, Die, Tick, store, vars
    <2> QED BY <2>1, <2>2, <2>3
  <1> QED BY <1>1, ClaimsHeld, PTL DEF Spec, NeverWorse

-------------------------------------------------------------------------------
(* What the provider has been paid *)

(* What the requests of a set have cost: a question of each that asked once,  *)
(* another of each that asked twice, and a third.                             *)
due(k, S) == {r \in S : req[r].cost >= k}
paidFor(S) == Cardinality(due(1, S)) + Cardinality(due(2, S)) + Cardinality(due(3, S))

LEMMA PaidNat ==
    ASSUME NEW S \in SUBSET Request
    PROVE  paidFor(S) \in Nat
  <1>1. \A k : due(k, S) \in SUBSET Request
    BY DEF due
  <1>2. \A k : Cardinality(due(k, S)) \in Nat
    BY <1>1, RequestFinite
  <1> QED BY <1>2 DEF paidFor

LEMMA PaidNone == paidFor({}) = 0
  <1>1. \A k : due(k, {}) = {}
    BY DEF due
  <1> QED BY <1>1, FS_EmptySet DEF paidFor

LEMMA DueWith ==
    ASSUME NEW S \in SUBSET Request, NEW r \in S, NEW k
    PROVE  Cardinality(due(k, S)) = Cardinality(due(k, S \ {r}))
                                      + (IF req[r].cost >= k THEN 1 ELSE 0)
  <1>1. due(k, S \ {r}) \in SUBSET Request /\ r \notin due(k, S \ {r})
    BY DEF due
  <1>2. Cardinality(due(k, S \ {r})) \in Nat
    BY <1>1, RequestFinite
  <1>3. CASE req[r].cost >= k
    <2>1. due(k, S) = due(k, S \ {r}) \cup {r}
      BY <1>3 DEF due
    <2> QED BY <1>1, <1>3, <2>1, OneMore
  <1>4. CASE ~(req[r].cost >= k)
    <2>1. due(k, S) = due(k, S \ {r})
      BY <1>4 DEF due
    <2> QED BY <1>2, <1>4, <2>1
  <1> QED BY <1>3, <1>4

LEMMA PaidWith ==
    ASSUME NEW S \in SUBSET Request, NEW r \in S, req[r].cost \in 0..3
    PROVE  paidFor(S) = req[r].cost + paidFor(S \ {r})
  <1> DEFINE c == req[r].cost
             n == [k \in 1..3 |-> Cardinality(due(k, S \ {r}))]
  <1>1. \A k \in 1..3 : n[k] \in Nat
    <2>1. \A k : due(k, S \ {r}) \in SUBSET Request
      BY DEF due
    <2> QED BY <2>1, RequestFinite
  <1>2. \A k \in 1..3 : Cardinality(due(k, S)) = n[k] + (IF c >= k THEN 1 ELSE 0)
    BY DueWith
  <1>3. paidFor(S \ {r}) = n[1] + n[2] + n[3]
    BY DEF paidFor
  <1>4. paidFor(S) = (n[1] + (IF c >= 1 THEN 1 ELSE 0)) + (n[2] + (IF c >= 2 THEN 1 ELSE 0))
                        + (n[3] + (IF c >= 3 THEN 1 ELSE 0))
    BY <1>2 DEF paidFor
  <1>5. c \in 0..3
    OBVIOUS
  <1> HIDE DEF n, c
  <1> QED BY <1>1, <1>3, <1>4, <1>5, SMT DEF c

(* The bill of BillCovered is this sum. *)
LEMMA BillIsPaid ==
    ASSUME Typed, NEW P \in SUBSET Request,
           NEW sum, sum = CHOOSE s : s = [S \in SUBSET P |-> IF S = {} THEN 0
                        ELSE req[CHOOSE r \in S : TRUE].cost + s[S \ {CHOOSE r \in S : TRUE}]]
    PROVE  sum[P] = paidFor(P)
  <1> DEFINE some(S) == CHOOSE r \in S : TRUE
             w == [S \in SUBSET P |-> paidFor(S)]
  <1>1. \A S \in SUBSET P : S # {} =>
            /\ some(S) \in S /\ some(S) \in Request /\ req[some(S)].cost \in 0..3
            /\ S \ {some(S)} \in SUBSET P
    <2> SUFFICES ASSUME NEW S \in SUBSET P, S # {}
                 PROVE  /\ some(S) \in S /\ some(S) \in Request
                        /\ req[some(S)].cost \in 0..3 /\ S \ {some(S)} \in SUBSET P
      OBVIOUS
    <2>1. some(S) \in S /\ some(S) \in Request
      OBVIOUS
    <2>2. req[some(S)] \in Req
      BY <2>1 DEF Typed
    <2> HIDE DEF some
    <2> QED BY <2>1, <2>2 DEF Req
  <1> HIDE DEF some
  <1>2. \A S \in SUBSET P : w[S] = IF S = {} THEN 0
                                   ELSE req[some(S)].cost + w[S \ {some(S)}]
    <2> SUFFICES ASSUME NEW S \in SUBSET P
                 PROVE  w[S] = IF S = {} THEN 0 ELSE req[some(S)].cost + w[S \ {some(S)}]
      OBVIOUS
    <2>1. CASE S = {}
      BY <2>1, PaidNone
    <2>2. CASE S # {}
      BY <1>1, <2>2, PaidWith
    <2> QED BY <2>1, <2>2
  <1>3. w = [S \in SUBSET P |-> IF S = {} THEN 0
                                ELSE req[some(S)].cost + w[S \ {some(S)}]]
    BY <1>2
  <1>4. sum = [S \in SUBSET P |-> IF S = {} THEN 0
                                  ELSE req[some(S)].cost + sum[S \ {some(S)}]]
    <2> DEFINE fits(s) == s = [S \in SUBSET P |-> IF S = {} THEN 0
                                    ELSE req[some(S)].cost + s[S \ {some(S)}]]
    <2>1. sum = CHOOSE s : fits(s)
      BY DEF some
    <2>2. fits(w)
      BY <1>3
    <2> HIDE DEF w
    <2>3. fits(sum)
      <3> HIDE DEF fits
      <3> QED BY <2>1, <2>2, Zenon
    <2> QED BY <2>3
  <1>5. \A S \in SUBSET P : sum[S] = IF S = {} THEN 0
                                     ELSE req[some(S)].cost + sum[S \ {some(S)}]
    BY <1>4
  <1>6. ASSUME NEW bad \in SUBSET SUBSET P, bad # {},
               \A S \in SUBSET P : S \in bad <=> sum[S] # paidFor(S)
        PROVE  FALSE
    <2>1. \A S \in SUBSET P : Cardinality(S) \in Nat
      BY RequestFinite
    <2> DEFINE sizes == {Cardinality(S) : S \in bad}
    <2>2. sizes \subseteq Nat /\ sizes # {}
      BY <1>6, <2>1
    <2>3. PICK m \in sizes : \A n \in sizes : m <= n
      BY <2>2, Least
    <2>4. PICK S \in bad : Cardinality(S) = m /\ \A T \in bad : Cardinality(S) <= Cardinality(T)
      BY <2>3
    <2>5. S # {}
      BY <1>5, <1>6, <2>4, PaidNone
    <2>6. some(S) \in S /\ S \ {some(S)} \in SUBSET P /\ req[some(S)].cost \in 0..3
      BY <1>1, <2>5
    <2>7. Cardinality(S \ {some(S)}) < Cardinality(S)
      BY <2>1, <2>6, OneLess
    <2>8. S \ {some(S)} \notin bad
      BY <2>1, <2>4, <2>6, <2>7
    <2>9. sum[S] = req[some(S)].cost + paidFor(S \ {some(S)})
      BY <1>5, <1>6, <2>5, <2>6, <2>8
    <2>10. paidFor(S) = req[some(S)].cost + paidFor(S \ {some(S)})
      BY <2>4, <2>6, PaidWith
    <2>11. sum[S] # paidFor(S)
      BY <1>6, <2>4
    <2> QED BY <2>9, <2>10, <2>11
  <1> DEFINE wrong == {S \in SUBSET P : sum[S] # paidFor(S)}
  <1>7. wrong = {}
    BY <1>6
  <1> QED BY <1>7

Billed == {r \in Request : req[r].billed}

(* A request that has been billed is over and holds nothing; one for text     *)
(* that has asked holds its reservation until it is billed.                   *)
Bills(q) ==
    /\ q.billed => ~q.holds /\ q.pc \in Ended \cup {"release"}
    /\ textJob(q) /\ ~q.holds /\ ~q.billed => q.cost = 0

BillInv == /\ \A r \in Request : Bills(req[r])
           /\ ~AnswerLost => paidFor(Billed) <= usd

LEMMA BillInit == Init => BillInv
  <1> SUFFICES ASSUME Init PROVE BillInv
    OBVIOUS
  <1>1. \A r \in Request : ~req[r].billed /\ req[r].cost = 0
    BY DEF Init, Unmade
  <1>2. Billed = {}
    BY <1>1 DEF Billed
  <1>3. usd = 0
    BY DEF Init
  <1> QED BY <1>1, <1>2, <1>3, PaidNone, SMT DEF BillInv, Bills

(* What is covered: the billed by what is spent, the others by what they hold. *)
LEMMA BillsCovered ==
    ASSUME IInv, BillInv, ~AnswerLost, Ample
    PROVE  BillCovered
  <1> DEFINE P == {r \in Request : isText(r) \/ req[r].billed}
  <1>1. ASSUME NEW S \in SUBSET P
        PROVE  Cardinality(S) \in Nat
    BY RequestFinite
  <1>2. ASSUME NEW k \in 1..3
        PROVE  Cardinality(due(k, P)) <= Cardinality(due(k, Billed)) + Cardinality(Holders)
    <2> DEFINE B == due(k, Billed)  H == Holders
    <2>1. B \in SUBSET Request /\ H \in SUBSET Request
      BY DEF due, Billed, Holders
    <2>2. due(k, P) \subseteq B \cup H
      <3> SUFFICES ASSUME NEW r \in due(k, P), ~req[r].billed, ~req[r].holds
                   PROVE  FALSE
        BY DEF due, Billed, Holders
      <3>1. textJob(req[r]) /\ r \in Request /\ req[r].cost >= k
        BY DEF due, textJob, isText, kind
      <3>2. req[r].cost = 0
        BY <3>1 DEF BillInv, Bills
      <3> QED BY <3>1, <3>2
    <2> HIDE DEF B, H
    <2>3. IsFiniteSet(B) /\ IsFiniteSet(H) /\ IsFiniteSet(B \cup H)
      BY <2>1, RequestFinite
    <2>4. Cardinality(due(k, P)) <= Cardinality(B \cup H)
      BY <2>2, <2>3, FS_Subset
    <2>5. Cardinality(B \cup H) = Cardinality(B) + Cardinality(H) - Cardinality(B \cap H)
      BY <2>3, FS_Union
    <2>6. {Cardinality(B), Cardinality(H), Cardinality(B \cap H), Cardinality(due(k, P))} \subseteq Nat
      <3>1. B \cap H \in SUBSET Request /\ due(k, P) \in SUBSET Request
        BY <2>1 DEF due
      <3> QED BY <2>1, <3>1, RequestFinite
    <2> QED BY <2>4, <2>5, <2>6 DEF B, H
  <1>3. paidFor(P) <= paidFor(Billed) + 3 * Cardinality(Holders)
    <2> DEFINE a == [k \in 1..3 |-> Cardinality(due(k, P))]
               b == [k \in 1..3 |-> Cardinality(due(k, Billed))]
               h == Cardinality(Holders)
    <2>1. \A k \in 1..3 : a[k] \in Nat /\ b[k] \in Nat /\ a[k] <= b[k] + h
      <3>1. \A k : due(k, P) \in SUBSET Request /\ due(k, Billed) \in SUBSET Request
        BY DEF due, Billed
      <3> QED BY <1>2, <3>1, RequestFinite
    <2>2. h \in Nat
      BY RequestFinite DEF Holders
    <2>3. paidFor(P) = a[1] + a[2] + a[3] /\ paidFor(Billed) = b[1] + b[2] + b[3]
      BY DEF paidFor
    <2> HIDE DEF a, b, h
    <2> QED BY <2>1, <2>2, <2>3, SMT DEF h
  <1>4. 3 * Cardinality(Holders) <= reserved
    <2>1. reserved = Reserve * Cardinality(Holders)
      BY DEF IInv, MonthBooks, BudgetHeld
    <2>2. Cardinality(Holders) \in Nat
      BY RequestFinite DEF Holders
    <2>3. \A n, a \in Nat : a >= 3 => 3 * n <= a * n
      BY SMTT(30)
    <2> QED BY <2>1, <2>2, <2>3, TranslationAssumption DEF Ample
  <1>5. paidFor(P) <= usd + reserved
    <2>1. {paidFor(P), paidFor(Billed), usd, reserved, Cardinality(Holders)} \subseteq Nat
      BY PaidNat, RequestFinite DEF Billed, IInv, Typed, Holders
    <2>2. paidFor(Billed) <= usd
      BY DEF BillInv
    <2> QED BY <1>3, <1>4, <2>1, <2>2
  <1> HIDE DEF P
  <1>6. P \in SUBSET Request
    BY DEF P
  <1>7. Typed
    BY DEF IInv
  <1> QED BY <1>5, <1>6, <1>7, BillIsPaid DEF BillCovered, P

(* Nobody is billed, and who was keeps the bill. *)
LEMMA BillNext ==
    ASSUME BillInv, AnswerLost \/ UNCHANGED usd,
           \A r \in Request : /\ Bills(req'[r]) /\ req'[r].billed = req[r].billed
                              /\ req[r].billed => req'[r].cost = req[r].cost
    PROVE  BillInv'
  <1>1. \A k : due(k, Billed)' = due(k, Billed)
    BY DEF due, Billed
  <1>2. paidFor(Billed)' = paidFor(Billed)
    BY <1>1 DEF paidFor
  <1> QED BY <1>2 DEF BillInv

(* One request is billed what it has cost. *)
LEMMA BillOne ==
    ASSUME IInv, BillInv, NEW r \in Request, ~req[r].billed, req'[r].billed,
           req'[r].cost = req[r].cost, Bills(req'[r]),
           \A q \in Request \ {r} : req'[q] = req[q],
           usd' = usd + req[r].cost
    PROVE  BillInv'
  <1>1. Billed' = Billed \cup {r} /\ r \notin Billed /\ Billed \in SUBSET Request
    BY DEF Billed
  <1>2. \A q \in Request : req'[q].cost = req[q].cost
    OBVIOUS
  <1>3. \A k : due(k, Billed)' = due(k, Billed \cup {r})
    BY <1>1, <1>2 DEF due
  <1>4. paidFor(Billed)' = paidFor(Billed \cup {r})
    BY <1>3 DEF paidFor
  <1>5. req[r].cost \in 0..3
    BY DEF IInv, Typed, Req
  <1>6. paidFor(Billed \cup {r}) = req[r].cost + paidFor(Billed)
    <2> DEFINE S == Billed \cup {r}
    <2>1. S \in SUBSET Request /\ r \in S /\ S \ {r} = Billed
      BY <1>1
    <2> HIDE DEF S
    <2> QED BY <1>5, <2>1, PaidWith DEF S
  <1>7. ~AnswerLost => paidFor(Billed)' <= usd'
    <2>1. paidFor(Billed) \in Nat /\ usd \in Nat
      BY <1>1, PaidNat DEF IInv, Typed
    <2> QED BY <1>4, <1>5, <1>6, <2>1 DEF BillInv
  <1> QED BY <1>7 DEF BillInv

LEMMA BillMoves ==
    ASSUME IInv, BillInv, NEW r \in Request, NEW f, req' = [req EXCEPT ![r] = f],
           f.billed = req[r].billed, f.cost = req[r].cost, Bills(f),
           AnswerLost \/ UNCHANGED usd
    PROVE  BillInv'
  <1>1. \A q \in Request : req'[q] = IF q = r THEN f ELSE req[q]
    BY DEF IInv, Typed
  <1>2. \A q \in Request : /\ Bills(req'[q]) /\ req'[q].billed = req[q].billed
                           /\ req[q].billed => req'[q].cost = req[q].cost
    BY <1>1 DEF BillInv
  <1> QED BY <1>2, BillNext

LEMMA BillGoes ==
    ASSUME IInv, BillInv, NEW r \in Request, NEW p \in PC, to(r, p),
           p \in Ended \/ req[r].pc \notin Ended \cup {"release"},
           AnswerLost \/ UNCHANGED usd
    PROVE  BillInv'
  <1> DEFINE q == req[r]  f == at(q, p)
  <1>1. q \in Req /\ Bills(q)
    BY DEF IInv, Typed, BillInv
  <1>2. f.pc = p /\ f.cost = q.cost /\ SameHad(f, q)
    BY <1>1, Onward
  <1>3. req' = [req EXCEPT ![r] = f]
    BY DEF to
  <1> HIDE DEF f
  <1>4. Bills(f)
    BY <1>1, <1>2 DEF Bills, SameHad, textJob
  <1> QED BY <1>2, <1>3, <1>4, BillMoves DEF SameHad

LEMMA BillLook ==
    ASSUME IInv, BillInv, NEW r \in Request, Look(r) \/ LookAgain(r)
    PROVE  BillInv'
  <1>1. UNCHANGED usd /\ req[r].pc \in {"look", "second"}
    BY DEF Look, LookAgain, month
  <1>2. ASSUME NEW e \in {"text", "fast"}, req' = [req EXCEPT ![r] = found(r, e)]
        PROVE  BillInv'
    <2> DEFINE f == found(r, e)
    <2>1. SameHad(f, req[r]) /\ f.cost = req[r].cost
      BY Found DEF IInv
    <2> HIDE DEF f
    <2>2. Bills(req[r])
      BY DEF BillInv
    <2>3. Bills(f)
      BY <1>1, <2>1, <2>2 DEF Bills, SameHad, textJob, Ended
    <2> QED BY <1>1, <1>2, <2>1, <2>3, BillMoves DEF SameHad, f
  <1>3. ASSUME NEW p \in PC, to(r, p) PROVE BillInv'
    BY <1>1, <1>3, BillGoes DEF Ended
  <1> QED BY <1>2, <1>3 DEF Look, LookAgain, PC, Ended

LEMMA BillWalks ==
    ASSUME IInv, BillInv, NEW r \in Request, Claim(r) \/ Wait(r) \/ Correct(r) \/ Release(r)
    PROVE  BillInv'
  <1>1. UNCHANGED usd
    BY DEF Claim, Wait, Correct, Release, month
  <1>2. CASE Release(r) \/ Wait(r)
    BY <1>1, <1>2, BillGoes DEF Release, Wait, PC, Ended
  <1>3. CASE Claim(r) \/ Correct(r)
    BY <1>1, <1>3, BillGoes DEF Claim, Correct, PC, Ended, Asking
  <1> QED BY <1>2, <1>3

LEMMA BillAdmit ==
    ASSUME IInv, BillInv, NEW r \in Request, Admit(r)
    PROVE  BillInv'
  <1>1. req[r] \in Req /\ req[r].pc = "admit" /\ Bills(req[r]) /\ UNCHANGED usd
    BY DEF IInv, Typed, BillInv, Admit, month
  <1>2. ~req[r].billed
    BY <1>1 DEF Bills, Ended
  <1>3. CASE to(r, leaving(r))
    BY <1>1, <1>3, LeavingTo, BillGoes DEF Ended
  <1>4. CASE req' = [req EXCEPT ![r].holds = TRUE,
                                ![r].pc = IF req[r].repairing THEN "again" ELSE "count"]
    <2> DEFINE p == IF req[r].repairing THEN "again" ELSE "count"
               f == [req[r] EXCEPT !.holds = TRUE, !.pc = p]
    <2>1. req' = [req EXCEPT ![r] = f]
      BY <1>4 DEF IInv, Typed
    <2> HIDE DEF p
    <2>2. f.billed = req[r].billed /\ f.cost = req[r].cost /\ f.holds
      BY <1>1, SMT DEF Req
    <2> HIDE DEF f
    <2>3. Bills(f)
      BY <1>2, <2>2 DEF Bills
    <2> QED BY <1>1, <2>1, <2>2, <2>3, BillMoves
  <1> QED BY <1>3, <1>4 DEF Admit

LEMMA BillCount ==
    ASSUME IInv, BillInv, NEW r \in Request, Count(r)
    PROVE  BillInv'
  <1>1. req[r] \in Req /\ req[r].pc = "count" /\ Bills(req[r]) /\ UNCHANGED usd
    BY DEF IInv, Typed, BillInv, Count, month
  <1>2. ~req[r].billed
    BY <1>1 DEF Bills, Ended
  <1>3. ASSUME NEW p \in {"unreserve", "release", "done"}, to(r, p) PROVE BillInv'
    BY <1>1, <1>3, BillGoes DEF Ended, PC
  <1>4. ASSUME NEW opens, req' = [req EXCEPT ![r].counted = TRUE, ![r].opened = opens, ![r].pc = "ask"]
        PROVE  BillInv'
    <2> DEFINE f == [req[r] EXCEPT !.counted = TRUE, !.opened = opens, !.pc = "ask"]
    <2>1. req' = [req EXCEPT ![r] = f]
      BY <1>4 DEF IInv, Typed
    <2>2. /\ f.billed = req[r].billed /\ f.cost = req[r].cost /\ f.holds = req[r].holds
          /\ f.job = req[r].job
      BY <1>1, SMT DEF Req
    <2> HIDE DEF f
    <2>3. Bills(f)
      BY <1>1, <1>2, <2>2 DEF Bills, textJob
    <2> QED BY <1>1, <2>1, <2>2, <2>3, BillMoves
  <1> QED BY <1>3, <1>4, LeavingTo DEF Count

LEMMA BillUnreserve ==
    ASSUME IInv, BillInv, NEW r \in Request, Unreserve(r)
    PROVE  BillInv'
  <1>1. /\ req[r] \in Req /\ req[r].pc = "unreserve" /\ Bills(req[r]) /\ UNCHANGED usd
        /\ req[r].cost = 0
    BY DEF IInv, Typed, Phases, Asked, BillInv, Unreserve, month
  <1>3. CASE to(r, leaving(r))
    BY <1>1, <1>3, LeavingTo, BillGoes DEF Ended
  <1>4. CASE req' = [req EXCEPT ![r] = at([@ EXCEPT !.holds = FALSE], leaving(r))]
    <2> DEFINE a == [req[r] EXCEPT !.holds = FALSE]
               f == at(a, leaving(r))
    <2>1. req' = [req EXCEPT ![r] = f]
      BY <1>4
    <2>2. a \in Req
      BY <1>1, Setters
    <2>3. a.billed = req[r].billed /\ a.cost = req[r].cost /\ a.job = req[r].job /\ ~a.holds
      BY <1>1, SMT DEF Req
    <2> HIDE DEF a
    <2>4. /\ f.billed = req[r].billed /\ f.cost = req[r].cost /\ ~f.holds
          /\ f.pc \in {"release", "done"}
      BY <2>2, <2>3, LeavingTo, Onward DEF SameHad
    <2> HIDE DEF f
    <2>5. Bills(f)
      BY <1>1, <2>4 DEF Bills, Ended
    <2> QED BY <1>1, <2>1, <2>4, <2>5, BillMoves
  <1> QED BY <1>3, <1>4 DEF Unreserve

LEMMA BillSave ==
    ASSUME IInv, BillInv, NEW r \in Request, Save(r)
    PROVE  BillInv'
  <1>1. /\ req[r] \in Req /\ req[r].pc \in {"check", "save"} /\ Bills(req[r])
        /\ req[r].holds /\ req \in [Request -> Req]
    BY DEF IInv, Typed, Phases, Had, Reserving, BillInv, Save
  <1>2. ~req[r].billed
    BY <1>1 DEF Bills, Ended
  <1>3. CASE to(r, "refund") /\ (AnswerLost \/ UNCHANGED month)
    BY <1>1, <1>3, BillGoes DEF Ended, PC, month
  <1>4. ASSUME NEW w \in {"none", "due", "kept"}, saving(r),
               req' = [req EXCEPT ![r] = settledTo(req[r], w, leaving(r))]
        PROVE  BillInv'
    <2> DEFINE f == settledTo(req[r], w, leaving(r))
    <2>1. /\ f.pc \in {"release", "done"} /\ ~f.holds /\ f.billed /\ f.cost = req[r].cost
      BY <1>1, LeavingTo, Settles
    <2>2. \A q \in Request : req'[q] = IF q = r THEN f ELSE req[q]
      BY <1>1, <1>4
    <2> HIDE DEF f
    <2>3. Bills(req'[r])
      BY <2>1, <2>2 DEF Bills, Ended
    <2>4. usd' = usd + req[r].cost
      BY <1>4 DEF saving
    <2> QED BY <1>2, <2>1, <2>2, <2>3, <2>4, BillOne
  <1>5. ASSUME saving(r), req' = [req EXCEPT ![r] = at([@ EXCEPT
                        !.holds = FALSE, !.billed = TRUE,
                        !.word = IF req[r].repairing THEN "none"
                                 ELSE IF deferMemory(r) THEN "due" ELSE "kept"], leaving(r))]
        PROVE  BillInv'
    <2> DEFINE w == IF req[r].repairing THEN "none"
                    ELSE IF deferMemory(r) THEN "due" ELSE "kept"
    <2>1. req' = [req EXCEPT ![r] = settledTo(req[r], w, leaving(r))]
      BY <1>5 DEF settledTo
    <2>2. w \in {"none", "due", "kept"}
      OBVIOUS
    <2> HIDE DEF w
    <2> QED BY <1>4, <1>5, <2>1, <2>2
  <1>6. CASE Trouble /\ to(r, "refund") /\ \E done \in {FALSE, AnswerLost} :
                IF done THEN saving(r) ELSE UNCHANGED <<row, month>>
    <2>1. AnswerLost \/ UNCHANGED month
      <3>1. PICK done \in {FALSE, AnswerLost} :
                IF done THEN saving(r) ELSE UNCHANGED <<row, month>>
        BY <1>6
      <3>2. ASSUME ~AnswerLost PROVE UNCHANGED month
        <4>1. ~done
          BY <3>2
        <4> QED BY <3>1, <4>1
      <3> QED BY <3>2
    <2> QED BY <1>3, <1>6, <2>1
  <1> QED BY <1>5, <1>6 DEF Save

LEMMA BillRefund ==
    ASSUME IInv, BillInv, NEW r \in Request, Refund(r)
    PROVE  BillInv'
  <1>1. /\ req[r] \in Req /\ req[r].pc = "refund" /\ Bills(req[r])
        /\ req[r].holds /\ req \in [Request -> Req]
    BY DEF IInv, Typed, Phases, Had, Reserving, BillInv, Refund
  <1>2. ~req[r].billed
    BY <1>1 DEF Bills, Ended
  <1>3. CASE to(r, leaving(r)) /\ UNCHANGED month
    BY <1>1, <1>3, LeavingTo, BillGoes DEF Ended, month
  <1>4. CASE /\ usd' = usd + incurred(r)
             /\ req' = [req EXCEPT ![r] = at([@ EXCEPT
                        !.holds = FALSE, !.counted = FALSE, !.opened = FALSE,
                        !.billed = isText(r)], leaving(r))]
    <2> DEFINE t == isText(r)
               a == [req[r] EXCEPT !.holds = FALSE]
               b == [a EXCEPT !.counted = FALSE]
               c == [b EXCEPT !.opened = FALSE]
               d == [c EXCEPT !.billed = t]
               f == at(d, leaving(r))
    <2>1. d \in Req
      <3>1. a \in Req
        BY <1>1, Setters
      <3>2. b \in Req
        <4> HIDE DEF a
        <4> QED BY <3>1, Setters
      <3>3. c \in Req
        <4> HIDE DEF b
        <4> QED BY <3>2, Setters
      <3>4. t \in BOOLEAN
        BY DEF isText
      <3> HIDE DEF c, t
      <3> QED BY <3>3, <3>4, Setters
    <2>2. /\ ~d.holds /\ d.billed = t /\ d.cost = req[r].cost /\ d.job = req[r].job
      <3> HIDE DEF t
      <3> QED BY <1>1, SMT DEF Req
    <2>3. req' = [req EXCEPT ![r] = f]
      BY <1>4
    <2>4. t = textJob(req[r])
      BY DEF isText, textJob, kind
    <2> HIDE DEF d, t
    <2>5. /\ f.pc \in {"release", "done"} /\ ~f.holds /\ f.billed = t
          /\ f.cost = req[r].cost /\ f.job = req[r].job
      BY <2>1, <2>2, LeavingTo, Onward DEF SameHad
    <2> HIDE DEF f
    <2>6. Bills(f)
      BY <2>4, <2>5 DEF Bills, Ended, textJob
    <2>7. \A q \in Request : req'[q] = IF q = r THEN f ELSE req[q]
      BY <1>1, <2>3
    <2>8. CASE t
      <3>1. usd' = usd + req[r].cost
        BY <1>4, <2>8 DEF incurred, t
      <3>2. req'[r].billed
        BY <2>5, <2>7, <2>8
      <3> QED BY <1>2, <2>5, <2>6, <2>7, <3>1, <3>2, BillOne
    <2>9. CASE ~t
      <3>1. usd' = usd
        BY <1>4, <2>9, SMT DEF incurred, t, IInv, Typed
      <3>2. f.billed = req[r].billed
        <4>1. req[r].billed \in BOOLEAN /\ f.billed \in BOOLEAN
          BY <1>1, <2>4, <2>5 DEF Req, textJob
        <4> QED BY <1>2, <2>5, <2>9, <4>1
      <3> QED BY <2>3, <2>5, <2>6, <3>1, <3>2, BillMoves
    <2> QED BY <2>8, <2>9
  <1> QED BY <1>3, <1>4 DEF Refund

LEMMA BillFlush ==
    ASSUME IInv, BillInv, NEW c \in Request, Flush(c)
    PROVE  BillInv'
  <1>1. UNCHANGED usd
    BY DEF Flush, month
  <1>2. PICK replies \in [pending(c) -> Reply] :
            req' = [r \in Request |->
                        IF r \notin pending(c) THEN req[r]
                        ELSE IF isText(r) THEN textAnswered(req[r], replies[r])
                        ELSE pageAnswered(req[r], replies[r])]
    BY DEF Flush
  <1>3. ASSUME NEW q \in Request
        PROVE  /\ Bills(req'[q]) /\ req'[q].billed = req[q].billed
               /\ req[q].billed => req'[q].cost = req[q].cost
    <2>1. req[q] \in Req /\ Had(req[q]) /\ Asked(req[q]) /\ Bills(req[q])
      BY DEF IInv, Typed, Phases, BillInv
    <2>2. CASE q \notin pending(c)
      BY <1>2, <2>1, <2>2
    <2>3. CASE q \in pending(c)
      <3>1. req[q].pc \in Asking /\ replies[q] \in Reply
        BY <2>3 DEF pending
      <3>2. req'[q] = textAnswered(req[q], replies[q]) \/ req'[q] = pageAnswered(req[q], replies[q])
        BY <1>2, <2>3
      <3>3. SameHad(req'[q], req[q])
        BY <2>1, <3>1, <3>2, Replied
      <3>4. req[q].holds /\ ~req[q].billed
        BY <2>1, <3>1 DEF Had, Reserving, Bills
      <3> QED BY <3>3, <3>4 DEF Bills, SameHad
    <2> QED BY <2>2, <2>3
  <1> QED BY <1>1, <1>3, BillNext

LEMMA BillTogether ==
    ASSUME IInv, BillInv, NEW c \in Request, Remember(c) \/ Die(c)
    PROVE  BillInv'
  <1>1. UNCHANGED usd
    BY DEF Remember, Die, month
  <1>2. ASSUME NEW q \in Request
        PROVE  /\ Bills(req'[q]) /\ req'[q].billed = req[q].billed
               /\ req[q].billed => req'[q].cost = req[q].cost
    <2>1. req[q] \in Req /\ Bills(req[q])
      BY DEF IInv, Typed, BillInv
    <2>2. CASE \E w : req'[q] = [req[q] EXCEPT !.word = w]
      <3>1. PICK w : req'[q] = [req[q] EXCEPT !.word = w]
        BY <2>2
      <3> DEFINE f == [req[q] EXCEPT !.word = w]
      <3>2. /\ f.billed = req[q].billed /\ f.cost = req[q].cost /\ f.holds = req[q].holds
            /\ f.job = req[q].job /\ f.pc = req[q].pc
        BY <2>1, SMT DEF Req
      <3> HIDE DEF f
      <3>3. Bills(f)
        BY <2>1, <3>2 DEF Bills, textJob
      <3> QED BY <3>1, <3>2, <3>3 DEF f
    <2>3. CASE req'[q] = forgotten(req[q], "dead")
      <3>1. /\ req'[q].pc = "dead" /\ req'[q].cost = req[q].cost /\ SameHad(req'[q], req[q])
        BY <2>1, <2>3, Forgotten DEF PC, Ended
      <3> QED BY <2>1, <3>1 DEF Bills, SameHad, textJob, Ended
    <2>4. CASE req'[q] = req[q]
      BY <2>1, <2>4
    <2>5. (\E w : req'[q] = [req[q] EXCEPT !.word = w])
            \/ req'[q] = forgotten(req[q], "dead") \/ req'[q] = req[q]
      <3>1. CASE Remember(c)
        BY <3>1, Zenon DEF Remember
      <3>2. CASE Die(c)
        BY <3>2 DEF Die
      <3> QED BY <3>1, <3>2
    <2> QED BY <2>2, <2>3, <2>4, <2>5
  <1> QED BY <1>1, <1>2, BillNext

LEMMA BillArrive ==
    ASSUME IInv, BillInv, Arrive
    PROVE  BillInv'
  <1>1. UNCHANGED usd
    BY DEF Arrive, month
  <1>2. PICK n \in Request :
          LET mine == n .. n + Cardinality(Head(todo)) - 1 IN
          /\ \A r \in Request : req[r].pc = "new" <=> r >= n
          /\ \E jobs \in [mine -> Head(todo)] :
                req' = [r \in Request |->
                            IF r \in mine
                            THEN [Unmade EXCEPT !.pc = "look", !.call = n, !.at = now,
                                                !.job = jobs[r], !.engine = jobs[r].kind]
                            ELSE req[r]]
    BY DEF Arrive
  <1> DEFINE mine == n .. n + Cardinality(Head(todo)) - 1
  <1>3. PICK jobs \in [mine -> Head(todo)] :
                req' = [r \in Request |->
                            IF r \in mine
                            THEN [Unmade EXCEPT !.pc = "look", !.call = n, !.at = now,
                                                !.job = jobs[r], !.engine = jobs[r].kind]
                            ELSE req[r]]
    BY <1>2
  <1>4. \A q \in mine : q >= n
    OBVIOUS
  <1> HIDE DEF mine
  <1>5. ASSUME NEW q \in Request
        PROVE  /\ Bills(req'[q]) /\ req'[q].billed = req[q].billed
               /\ req[q].billed => req'[q].cost = req[q].cost
    <2>1. req[q] \in Req /\ Bills(req[q])
      BY DEF IInv, Typed, BillInv
    <2>2. CASE q \notin mine
      BY <1>3, <2>1, <2>2
    <2>3. CASE q \in mine
      <3>1. req[q].billed = FALSE
        <4>1. req[q].pc = "new"
          BY <1>2, <1>4, <2>3
        <4>2. ~req[q].billed
          BY <2>1, <4>1 DEF Bills, Ended
        <4>3. req[q].billed \in BOOLEAN
          BY <2>1 DEF Req
        <4> QED BY <4>2, <4>3
      <3> DEFINE j == jobs[q]
                 k == jobs[q].kind
                 f == [Unmade EXCEPT !.pc = "look", !.call = n, !.at = now,
                                     !.job = j, !.engine = k]
      <3>2. req'[q] = f
        BY <1>3, <2>3
      <3> HIDE DEF j, k
      <3>3. f.billed = FALSE /\ f.cost = 0
        BY DEF Unmade
      <3> HIDE DEF f
      <3>4. Bills(f)
        BY <3>3 DEF Bills
      <3> QED BY <3>1, <3>2, <3>3, <3>4
    <2> QED BY <2>2, <2>3
  <1> QED BY <1>1, <1>5, BillNext

LEMMA BillStep == ASSUME IInv, BillInv, [Next]_vars PROVE BillInv'
  <1>1. ASSUME NEW r \in Request, Step(r) PROVE BillInv'
    BY <1>1, BillLook, BillWalks, BillAdmit, BillCount, BillUnreserve, BillSave,
       BillRefund DEF Step
  <1>2. ASSUME NEW c \in Request, Flush(c) \/ Remember(c) \/ Die(c) PROVE BillInv'
    BY <1>2, BillFlush, BillTogether
  <1>3. ASSUME Tick \/ UNCHANGED vars PROVE BillInv'
    <2>1. UNCHANGED <<req, usd>>
      BY <1>3 DEF Tick, month, vars
    <2>2. \A q \in Request : Bills(req'[q]) /\ req'[q] = req[q]
      BY <2>1 DEF BillInv
    <2> QED BY <2>1, <2>2, BillNext
  <1> QED BY <1>1, <1>2, <1>3, BillArrive DEF Next

(* If no answer of D1 is lost and a reservation covers three questions, what   *)
(* the Worker was told the provider has been paid for text, by requests that  *)
(* ended, failed, died or could not give their reservation back, is covered   *)
(* by what is spent and reserved (admit, settle, refund).                     *)
THEOREM BillOfTranslation ==
    ASSUME ~AnswerLost, Ample
    PROVE  Spec => []BillCovered
  <1>1. Init => IInv /\ BillInv
    BY InitIInv, BillInit
  <1>2. IInv /\ BillInv /\ [Next]_vars => IInv' /\ BillInv'
    BY BooksStep, BillStep
  <1>3. IInv /\ BillInv => BillCovered
    BY BillsCovered
  <1> QED BY <1>1, <1>2, <1>3, PTL DEF Spec

-------------------------------------------------------------------------------
(* The word the pages agree on *)

(* Of some requests one is the last by its place. *)
place(r) == IndexOf[target(r)]
lastOf(T) == CHOOSE r \in T : \A q \in T : IndexOf[target(q)] <= IndexOf[target(r)]

LEMMA Last ==
    ASSUME NEW T \in SUBSET Request, T # {}, \A r \in T : place(r) \in Nat
    PROVE  lastOf(T) \in T
  <1> DEFINE upTo(r) == {q \in T : place(q) <= place(r)}
             left == {Cardinality(T) - Cardinality(upTo(r)) : r \in T}
  <1>1. \A r : upTo(r) \in SUBSET Request /\ upTo(r) \in SUBSET T
    OBVIOUS
  <1>2. \A r : IsFiniteSet(upTo(r)) /\ Cardinality(upTo(r)) \in Nat
               /\ Cardinality(upTo(r)) <= Cardinality(T)
    <2> SUFFICES ASSUME NEW r PROVE IsFiniteSet(upTo(r)) /\ Cardinality(upTo(r)) \in Nat
                                    /\ Cardinality(upTo(r)) <= Cardinality(T)
      OBVIOUS
    <2> HIDE DEF upTo
    <2> QED BY <1>1, RequestFinite, FS_Subset
  <1>3. IsFiniteSet(T) /\ Cardinality(T) \in Nat
    BY RequestFinite
  <1> HIDE DEF upTo
  <1>4. left \subseteq Nat /\ left # {}
    BY <1>2, <1>3
  <1>5. PICK r \in T : \A q \in T : Cardinality(T) - Cardinality(upTo(r))
                                      <= Cardinality(T) - Cardinality(upTo(q))
    <2>1. PICK n \in left : \A m \in left : n <= m
      BY <1>4, Least
    <2>2. PICK r \in T : n = Cardinality(T) - Cardinality(upTo(r))
      OBVIOUS
    <2> QED BY <2>1, <2>2
  <1>6. ASSUME NEW q \in T, ~(place(q) <= place(r)) PROVE FALSE
    <2>1. upTo(r) \subseteq upTo(q) /\ q \in upTo(q) /\ q \notin upTo(r)
      <3>1. place(r) < place(q)
        BY <1>6
      <3>2. \A p \in T : place(p) <= place(r) => place(p) <= place(q)
        BY <3>1
      <3> QED BY <1>6, <3>2 DEF upTo
    <2>2. Cardinality(upTo(r)) <= Cardinality(upTo(q)) /\ Cardinality(upTo(r)) # Cardinality(upTo(q))
      BY <1>2, <2>1, FS_Subset
    <2>3. Cardinality(upTo(q)) <= Cardinality(upTo(r))
      BY <1>2, <1>3, <1>5, <1>6
    <2> QED BY <1>2, <2>2, <2>3
  <1>7. \A q \in T : IndexOf[target(q)] <= IndexOf[target(r)]
    BY <1>6 DEF place
  <1> QED BY <1>7 DEF lastOf

(* The fold over a set of requests is what it says of itself. *)
LEMMA InOrder ==
    ASSUME NEW S \in SUBSET Request, \A r \in S : place(r) \in Nat,
           NEW after, after = CHOOSE f : f = [T \in SUBSET S |->
                IF T = {} THEN term ELSE remembered(f[T \ {lastOf(T)}], lastOf(T))]
    PROVE  \A T \in SUBSET S : after[T] =
                IF T = {} THEN term ELSE remembered(after[T \ {lastOf(T)}], lastOf(T))
  <1> DEFINE step(f, T) == IF T = {} THEN term
                           ELSE remembered(f[T \ {lastOf(T)}], lastOf(T))
             upTo(n) == \E f : \A T \in SUBSET S : Cardinality(T) <= n => f[T] = step(f, T)
  <1>1. \A T \in SUBSET S : /\ Cardinality(T) \in Nat
                            /\ T # {} => /\ T \ {lastOf(T)} \in SUBSET S
                                         /\ Cardinality(T \ {lastOf(T)}) = Cardinality(T) - 1
    <2> SUFFICES ASSUME NEW T \in SUBSET S
                 PROVE  /\ Cardinality(T) \in Nat
                        /\ T # {} => /\ T \ {lastOf(T)} \in SUBSET S
                                     /\ Cardinality(T \ {lastOf(T)}) = Cardinality(T) - 1
      OBVIOUS
    <2>1. Cardinality(T) \in Nat
      BY RequestFinite
    <2>2. CASE T # {}
      <3>1. lastOf(T) \in T
        BY <2>2, Last
      <3>2. Cardinality(T \ {lastOf(T)}) = Cardinality(T) - 1
        BY <3>1, OneLess
      <3> QED BY <2>1, <3>2
    <2> QED BY <2>1, <2>2
  <1>2. upTo(0)
    <2> DEFINE f == [T \in SUBSET S |-> term]
    <2>1. \A T \in SUBSET S : Cardinality(T) <= 0 => T = {}
      <3> SUFFICES ASSUME NEW T \in SUBSET S, Cardinality(T) <= 0, T # {} PROVE FALSE
        OBVIOUS
      <3>1. Cardinality(T \ {lastOf(T)}) \in Nat /\ Cardinality(T \ {lastOf(T)}) = Cardinality(T) - 1
        BY <1>1
      <3> QED BY <1>1, <3>1
    <2>2. \A T \in SUBSET S : Cardinality(T) <= 0 => f[T] = step(f, T)
      BY <2>1
    <2> HIDE DEF f, step
    <2> QED BY <2>2
  <1>3. ASSUME NEW n \in Nat, upTo(n) PROVE upTo(n + 1)
    <2>1. PICK f : \A T \in SUBSET S : Cardinality(T) <= n => f[T] = step(f, T)
      BY <1>3
    <2> DEFINE g == [T \in SUBSET S |-> IF Cardinality(T) <= n THEN f[T] ELSE step(f, T)]
    <2>2. \A T \in SUBSET S : Cardinality(T) <= n => g[T] = f[T]
      OBVIOUS
    <2>3. ASSUME NEW T \in SUBSET S, Cardinality(T) <= n + 1
          PROVE  g[T] = step(g, T)
      <3>1. g[T] = step(f, T)
        BY <2>1
      <3>2. T # {} => g[T \ {lastOf(T)}] = f[T \ {lastOf(T)}]
        <4> SUFFICES ASSUME T # {} PROVE g[T \ {lastOf(T)}] = f[T \ {lastOf(T)}]
          OBVIOUS
        <4>1. /\ T \ {lastOf(T)} \in SUBSET S
              /\ Cardinality(T \ {lastOf(T)}) = Cardinality(T) - 1 /\ Cardinality(T) \in Nat
          BY <1>1
        <4> HIDE DEF g
        <4> QED BY <2>2, <2>3, <4>1
      <3> HIDE DEF g
      <3> QED BY <3>1, <3>2
    <2> HIDE DEF g, step
    <2> QED BY <2>3
  <1> HIDE DEF upTo
  <1>4. \A n \in Nat : upTo(n)
    <2> DEFINE none == {n \in Nat : ~upTo(n)}
    <2> SUFFICES ASSUME none # {} PROVE FALSE
      OBVIOUS
    <2>1. PICK n \in none : \A m \in none : n <= m
      BY Least
    <2>2. n # 0
      BY <1>2
    <2>3. n - 1 \in Nat /\ n - 1 \notin none /\ (n - 1) + 1 = n
      BY <2>1, <2>2
    <2>4. upTo(n - 1)
      BY <2>3
    <2> QED BY <1>3, <2>3, <2>4
  <1>5. PICK f : \A T \in SUBSET S : f[T] = step(f, T)
    <2>1. Cardinality(S) \in Nat /\ \A T \in SUBSET S : Cardinality(T) <= Cardinality(S)
      BY RequestFinite, FS_Subset
    <2> HIDE DEF step
    <2> QED BY <1>4, <2>1 DEF upTo
  <1> DEFINE w == [T \in SUBSET S |-> f[T]]
             fits(g) == g = [T \in SUBSET S |-> step(g, T)]
  <1>6. fits(w)
    <2>1. \A T \in SUBSET S : w[T] = step(w, T)
      <3> SUFFICES ASSUME NEW T \in SUBSET S PROVE w[T] = step(w, T)
        OBVIOUS
      <3>1. T # {} => w[T \ {lastOf(T)}] = f[T \ {lastOf(T)}]
        BY <1>1
      <3> QED BY <1>5, <3>1
    <2>2. w = [T \in SUBSET S |-> w[T]]
      OBVIOUS
    <2> HIDE DEF w, step
    <2> QED BY <2>1, <2>2
  <1>7. after = CHOOSE g : fits(g)
    OBVIOUS
  <1>8. fits(after)
    <2> HIDE DEF fits, w
    <2> QED BY <1>6, <1>7, Zenon
  <1>9. \A T \in SUBSET S : after[T] = step(after, T)
    <2> HIDE DEF step
    <2> QED BY <1>8
  <1> QED BY <1>9

(* A request's word is due only of text.                                      *)
Worded(q) == /\ q.pc = "new" => q.word = "none"
             /\ q.word = "due" => textJob(q)

(* The word is one of these requests' or was there before them, and none of   *)
(* its chapter comes before it.                                               *)
Kept == {r \in Request : req[r].word = "kept"}
First(t, K) ==
    /\ t \in Wording
    /\ t.origin = "none" => K = {}
    /\ t.origin = "model" /\ t.chapter # None => t.index \in Nat
    /\ \A r \in K : isText(r) /\ t.origin = "model" /\ t.chapter = chapterKey(r)
            => t.index <= place(r)

WordInv == (\A r \in Request : Worded(req[r])) /\ First(term, Kept)

LEMMA TextPlace ==
    ASSUME Typed, NEW r \in Request, isText(r)
    PROVE  place(r) \in Nat /\ chapterKey(r) \in Chapter
  <1>1. req[r].job \in Job
    BY DEF Typed, Req
  <1>2. target(r) \in Page /\ kind(r) # "learn"
    BY <1>1 DEF Job, Target, target, isText, kind
  <1> QED BY <1>2, TranslationAssumption DEF place, chapterKey

LEMMA Remembers ==
    ASSUME Typed, NEW K \in SUBSET Request, NEW r \in Request, NEW t, First(t, K)
    PROVE  First(remembered(t, r), K \cup {r})
  <1> DEFINE u == remembered(t, r)
  <1> SUFFICES First(u, K \cup {r})
    OBVIOUS
  <1>0. t \in Wording /\ None \notin Chapter \cup Nat
    BY TranslationAssumption DEF First
  <1>1. ASSUME NEW q \in Request, isText(q) PROVE place(q) \in Nat /\ chapterKey(q) \in Chapter
    BY <1>1, TextPlace
  <1>2. CASE kind(r) = "learn"
    <2>1. u = [t EXCEPT !.origin = "learned"]
      BY <1>2 DEF remembered, isText
    <2>2. u \in Wording /\ u.origin = "learned"
      BY <1>0, <2>1, SMT DEF Wording
    <2> HIDE DEF u
    <2> QED BY <2>2 DEF First
  <1>3. CASE kind(r) # "learn" /\ t.origin = "none"
    <2> DEFINE c == IF isText(r) THEN chapterKey(r) ELSE None
               i == IF isText(r) THEN IndexOf[target(r)] ELSE None
    <2>1. u = [origin |-> "model", chapter |-> c, index |-> i]
      BY <1>3 DEF remembered
    <2>2. isText(r) => c \in Chapter /\ i \in Nat /\ i = place(r)
      BY <1>1 DEF place
    <2>3. ~isText(r) => c = None /\ i = None
      OBVIOUS
    <2> HIDE DEF c, i
    <2>4. u \in Wording /\ u.origin = "model" /\ u.chapter = c /\ u.index = i
      BY <2>1, <2>2, <2>3, SMT DEF Wording
    <2>5. K = {}
      BY <1>3 DEF First
    <2> HIDE DEF u
    <2> QED BY <1>0, <2>2, <2>3, <2>4, <2>5 DEF First
  <1>4. CASE /\ kind(r) # "learn" /\ t.origin # "none"
             /\ isText(r) /\ t.origin = "model" /\ t.chapter = chapterKey(r)
             /\ IndexOf[target(r)] < t.index
    <2> DEFINE i == place(r)
    <2>1. u = [t EXCEPT !.index = i]
      BY <1>4 DEF remembered, place
    <2>2. i \in Nat /\ i < t.index
      BY <1>1, <1>4 DEF place
    <2> HIDE DEF i
    <2>3. u \in Wording /\ u.origin = t.origin /\ u.chapter = t.chapter /\ u.index = i
      BY <1>0, <2>1, <2>2, SMT DEF Wording
    <2> HIDE DEF u
    <2>4. ASSUME NEW q \in K, isText(q), t.chapter = chapterKey(q) PROVE i <= place(q)
      <3>1. t.index <= place(q) /\ place(q) \in Nat /\ t.index \in Nat
        BY <1>0, <1>1, <1>4, <2>4 DEF First
      <3> QED BY <2>2, <3>1
    <2>5. i <= place(r)
      BY <2>2 DEF i
    <2> QED BY <1>4, <2>2, <2>3, <2>4, <2>5 DEF First
  <1>5. CASE /\ kind(r) # "learn" /\ t.origin # "none"
             /\ ~(/\ isText(r) /\ t.origin = "model" /\ t.chapter = chapterKey(r)
                  /\ IndexOf[target(r)] < t.index)
    <2>1. u = t
      BY <1>5 DEF remembered
    <2>2. isText(r) /\ t.origin = "model" /\ t.chapter = chapterKey(r) => t.index <= place(r)
      <3> SUFFICES ASSUME isText(r), t.origin = "model", t.chapter = chapterKey(r)
                   PROVE  t.index <= place(r)
        OBVIOUS
      <3>1. t.index \in Nat /\ place(r) \in Nat /\ ~(place(r) < t.index)
        BY <1>0, <1>1, <1>5 DEF First, place
      <3> QED BY <3>1
    <2> HIDE DEF u
    <2> QED BY <1>5, <2>1, <2>2 DEF First
  <1> QED BY <1>2, <1>3, <1>4, <1>5

LEMMA RemembersAll ==
    ASSUME Typed, NEW K \in SUBSET Request, NEW S \in SUBSET Request,
           \A r \in S : isText(r), First(term, K)
    PROVE  First(inOrder(S), K \cup S)
  <1> DEFINE after == CHOOSE f : f = [T \in SUBSET S |->
                IF T = {} THEN term ELSE remembered(f[T \ {lastOf(T)}], lastOf(T))]
  <1>1. \A r \in S : place(r) \in Nat
    BY TextPlace
  <1>2. \A T \in SUBSET S : after[T] =
                IF T = {} THEN term ELSE remembered(after[T \ {lastOf(T)}], lastOf(T))
    BY <1>1, InOrder
  <1>3. inOrder(S) = after[S]
    BY DEF inOrder, lastOf
  <1> HIDE DEF after
  <1> DEFINE bad == {T \in SUBSET S : ~First(after[T], K \cup T)}
             sizes == {Cardinality(T) : T \in bad}
  <1>4. SUFFICES ASSUME bad # {} PROVE FALSE
    BY <1>3
  <1>5. \A T \in SUBSET S : Cardinality(T) \in Nat
    BY RequestFinite
  <1>6. sizes \subseteq Nat /\ sizes # {}
    BY <1>4, <1>5
  <1>7. PICK T \in bad : \A U \in bad : Cardinality(T) <= Cardinality(U)
    <2>1. PICK n \in sizes : \A m \in sizes : n <= m
      BY <1>6, Least
    <2>2. PICK T \in bad : n = Cardinality(T)
      OBVIOUS
    <2>3. \A U \in bad : Cardinality(T) <= Cardinality(U)
      BY <2>1, <2>2
    <2> QED BY <2>3
  <1>8. T # {}
    BY <1>2, <1>7
  <1>9. lastOf(T) \in T /\ T \ {lastOf(T)} \in SUBSET S /\ lastOf(T) \in Request
    BY <1>1, <1>7, <1>8, Last
  <1>10. Cardinality(T \ {lastOf(T)}) < Cardinality(T)
    BY <1>5, <1>7, <1>9, OneLess
  <1>11. First(after[T \ {lastOf(T)}], K \cup (T \ {lastOf(T)}))
    BY <1>5, <1>7, <1>9, <1>10
  <1>12. First(remembered(after[T \ {lastOf(T)}], lastOf(T)),
               (K \cup (T \ {lastOf(T)})) \cup {lastOf(T)})
    <2> DEFINE L == K \cup (T \ {lastOf(T)})  t == after[T \ {lastOf(T)}]  r == lastOf(T)
    <2>1. L \in SUBSET Request /\ r \in Request /\ First(t, L)
      BY <1>9, <1>11
    <2> HIDE DEF L, t, r
    <2> QED BY <2>1, Remembers DEF L, t, r
  <1>13. (K \cup (T \ {lastOf(T)})) \cup {lastOf(T)} = K \cup T
    BY <1>9
  <1> QED BY <1>2, <1>7, <1>8, <1>12, <1>13

(* Of a request, what the word and the calls see of it is in q as in o. *)
SameWord(q, o) ==
    /\ q.word = o.word /\ q.call = o.call /\ q.job = o.job /\ (q.pc = "new" <=> o.pc = "new")

(* The word and what the kept requests want of it. *)
LEMMA FirstNext ==
    ASSUME NEW K \in SUBSET Request, First(term', K), Kept' \subseteq K,
           \A r \in K : req'[r].job = req[r].job
    PROVE  First(term, Kept)'
  <1>1. \A r \in K : isText(r)' = isText(r) /\ place(r)' = place(r) /\ chapterKey(r)' = chapterKey(r)
    BY DEF isText, kind, place, chapterKey, target
  <1>2. ASSUME NEW r \in Kept', isText(r)', term'.origin = "model", term'.chapter = chapterKey(r)'
        PROVE  term'.index <= place(r)'
    BY <1>1, <1>2 DEF First
  <1>3. term' \in Wording /\ (term'.origin = "none" => Kept' = {})
        /\ (term'.origin = "model" /\ term'.chapter # None => term'.index \in Nat)
    BY DEF First
  <1> QED BY <1>2, <1>3 DEF First

LEMMA WordNext ==
    ASSUME WordInv, UNCHANGED term, \A r \in Request : SameWord(req'[r], req[r])
    PROVE  WordInv'
  <1>3. \A r \in Request : Worded(req'[r])
    BY DEF WordInv, Worded, SameWord, textJob
  <1>4. First(term, Kept)'
    <2>1. Kept' = Kept /\ Kept \in SUBSET Request /\ \A r \in Kept : req'[r].job = req[r].job
      BY DEF Kept, SameWord
    <2> QED BY <2>1, FirstNext DEF WordInv
  <1> QED BY <1>3, <1>4 DEF WordInv

LEMMA WordMoves ==
    ASSUME IInv, WordInv, NEW r \in Request, NEW f, req' = [req EXCEPT ![r] = f],
           SameWord(f, req[r]), UNCHANGED term
    PROVE  WordInv'
  <1>1. \A q \in Request : req'[q] = IF q = r THEN f ELSE req[q]
    BY DEF IInv, Typed
  <1>2. \A q \in Request : SameWord(req'[q], req[q])
    BY <1>1 DEF SameWord
  <1> QED BY <1>2, WordNext

LEMMA WordGoes ==
    ASSUME IInv, WordInv, NEW r \in Request, NEW p \in PC \ {"new"}, to(r, p),
           req[r].pc # "new", UNCHANGED term
    PROVE  WordInv'
  <1> DEFINE f == at(req[r], p)
  <1>1. SameWord(f, req[r])
    BY Onward DEF IInv, Typed, SameHad, SameWord
  <1>2. req' = [req EXCEPT ![r] = f]
    BY DEF to
  <1> QED BY <1>1, <1>2, WordMoves

LEMMA WordWalks ==
    ASSUME IInv, WordInv, NEW r \in Request,
           \/ Look(r) \/ LookAgain(r) \/ Claim(r) \/ Wait(r) \/ Correct(r) \/ Release(r)
    PROVE  WordInv'
  <1>1. UNCHANGED term /\ req[r].pc # "new"
    BY DEF Look, LookAgain, Claim, Wait, Correct, Release, store
  <1>2. ASSUME NEW e \in {"text", "fast"}, req' = [req EXCEPT ![r] = found(r, e)]
        PROVE  WordInv'
    <2>1. SameWord(found(r, e), req[r])
      BY <1>1, Found DEF IInv, SameHad, SameWord
    <2> QED BY <1>1, <1>2, <2>1, WordMoves
  <1>3. ASSUME NEW p \in PC \ {"new"}, to(r, p) PROVE WordInv'
    BY <1>1, <1>3, WordGoes
  <1>4. CASE Look(r) \/ LookAgain(r)
    BY <1>2, <1>3, <1>4 DEF Look, LookAgain, PC, Ended
  <1>5. CASE Claim(r) \/ Wait(r) \/ Correct(r) \/ Release(r)
    BY <1>3, <1>5 DEF Claim, Wait, Correct, Release, PC, Ended, Asking
  <1> QED BY <1>4, <1>5

LEMMA WordAdmits ==
    ASSUME IInv, WordInv, NEW r \in Request, Admit(r) \/ Count(r) \/ Unreserve(r) \/ Refund(r)
    PROVE  WordInv'
  <1>1. /\ UNCHANGED term /\ req[r].pc # "new" /\ req[r] \in Req
        /\ req \in [Request -> Req]
    BY DEF Admit, Count, Unreserve, Refund, store, IInv, Typed
  <1>2. ASSUME NEW p \in PC \ {"new"}, to(r, p) PROVE WordInv'
    BY <1>1, <1>2, WordGoes
  <1>3. leaving(r) \in PC \ {"new"} /\ "unreserve" \in PC \ {"new"}
    BY LeavingTo DEF PC
  <1>4. ASSUME NEW p, p # "new", req' = [req EXCEPT ![r].holds = TRUE, ![r].pc = p]
        PROVE  WordInv'
    <2> DEFINE f == [req[r] EXCEPT !.holds = TRUE, !.pc = p]
    <2>1. f.word = req[r].word /\ f.call = req[r].call /\ f.job = req[r].job /\ f.pc = p
      BY <1>1, SMT DEF Req
    <2>2. req' = [req EXCEPT ![r] = f]
      BY <1>1, <1>4
    <2> HIDE DEF f
    <2> QED BY <1>1, <1>4, <2>1, <2>2, WordMoves DEF SameWord
  <1>5. ASSUME NEW opens,
               req' = [req EXCEPT ![r].counted = TRUE, ![r].opened = opens, ![r].pc = "ask"]
        PROVE  WordInv'
    <2> DEFINE f == [req[r] EXCEPT !.counted = TRUE, !.opened = opens, !.pc = "ask"]
    <2>1. f.word = req[r].word /\ f.call = req[r].call /\ f.job = req[r].job /\ f.pc = "ask"
      BY <1>1, SMT DEF Req
    <2>2. req' = [req EXCEPT ![r] = f]
      BY <1>1, <1>5
    <2> HIDE DEF f
    <2> QED BY <1>1, <2>1, <2>2, WordMoves DEF SameWord
  <1>6. ASSUME NEW d \in Req, d.word = req[r].word, d.call = req[r].call, d.job = req[r].job,
               req' = [req EXCEPT ![r] = at(d, leaving(r))]
        PROVE  WordInv'
    <2> DEFINE f == at(d, leaving(r))
    <2>1. /\ f.word = d.word /\ f.call = d.call /\ f.job = d.job /\ f.pc = leaving(r)
      BY <1>3, <1>6, Onward DEF SameHad
    <2>2. SameWord(f, req[r])
      BY <1>1, <1>3, <1>6, <2>1 DEF SameWord
    <2> QED BY <1>1, <1>6, <2>2, WordMoves
  <1>7. CASE req' = [req EXCEPT ![r] = at([@ EXCEPT !.holds = FALSE], leaving(r))]
    <2> DEFINE d == [req[r] EXCEPT !.holds = FALSE]
    <2>1. d \in Req
      BY <1>1, Setters
    <2>2. d.word = req[r].word /\ d.call = req[r].call /\ d.job = req[r].job
      BY <1>1, SMT DEF Req
    <2>3. req' = [req EXCEPT ![r] = at(d, leaving(r))]
      BY <1>7
    <2> HIDE DEF d
    <2> QED BY <1>6, <2>1, <2>2, <2>3
  <1>8. CASE req' = [req EXCEPT ![r] = at([@ EXCEPT
                        !.holds = FALSE, !.counted = FALSE, !.opened = FALSE,
                        !.billed = isText(r)], leaving(r))]
    <2> DEFINE t == isText(r)
               a == [req[r] EXCEPT !.holds = FALSE]
               b == [a EXCEPT !.counted = FALSE]
               c == [b EXCEPT !.opened = FALSE]
               d == [c EXCEPT !.billed = t]
    <2>1. d \in Req
      <3>1. a \in Req
        BY <1>1, Setters
      <3>2. b \in Req
        <4> HIDE DEF a
        <4> QED BY <3>1, Setters
      <3>3. c \in Req
        <4> HIDE DEF b
        <4> QED BY <3>2, Setters
      <3>4. t \in BOOLEAN
        BY DEF isText
      <3> HIDE DEF c, t
      <3> QED BY <3>3, <3>4, Setters
    <2>2. d.word = req[r].word /\ d.call = req[r].call /\ d.job = req[r].job
      <3> HIDE DEF t
      <3> QED BY <1>1, SMT DEF Req
    <2>3. req' = [req EXCEPT ![r] = at(d, leaving(r))]
      BY <1>8
    <2> HIDE DEF d
    <2> QED BY <1>6, <2>1, <2>2, <2>3
  <1>9. CASE Admit(r)
    <2>1. CASE req' = [req EXCEPT ![r].holds = TRUE,
                                  ![r].pc = IF req[r].repairing THEN "again" ELSE "count"]
      <3> DEFINE p == IF req[r].repairing THEN "again" ELSE "count"
      <3>1. p # "new" /\ req' = [req EXCEPT ![r].holds = TRUE, ![r].pc = p]
        BY <2>1
      <3> HIDE DEF p
      <3> QED BY <1>4, <3>1
    <2> QED BY <1>2, <1>3, <1>9, <2>1 DEF Admit
  <1>10. CASE Count(r)
    BY <1>2, <1>3, <1>5, <1>10 DEF Count
  <1>11. CASE Unreserve(r)
    BY <1>2, <1>3, <1>7, <1>11 DEF Unreserve
  <1>12. CASE Refund(r)
    BY <1>2, <1>3, <1>8, <1>12 DEF Refund
  <1> QED BY <1>9, <1>10, <1>11, <1>12

LEMMA WordSave ==
    ASSUME IInv, WordInv, NEW r \in Request, Save(r)
    PROVE  WordInv'
  <1>1. /\ req[r].pc \in {"check", "save"} /\ req[r] \in Req
        /\ req \in [Request -> Req]
    BY DEF Save, IInv, Typed
  <1>2. CASE to(r, "refund") /\ UNCHANGED term
    BY <1>1, <1>2, WordGoes DEF PC
  <1> DEFINE w == IF req[r].repairing THEN "none" ELSE IF deferMemory(r) THEN "due" ELSE "kept"
             f == settledTo(req[r], w, leaving(r))
  <1>3. CASE /\ term' = IF req[r].repairing \/ deferMemory(r) THEN term ELSE remembered(term, r)
             /\ req' = [req EXCEPT ![r] = f]
    <2>1. w \in {"none", "due", "kept"}
      OBVIOUS
    <2>2. term' = IF w = "kept" THEN remembered(term, r) ELSE term
      BY <1>3
    <2>3. w = "due" => deferMemory(r)
      OBVIOUS
    <2> HIDE DEF w
    <2>4. f.word = w /\ f.call = req[r].call /\ f.job = req[r].job /\ f.pc # "new"
      BY <1>1, <2>1, LeavingTo, Settles
    <2>5. \A q \in Request : req'[q] = IF q = r THEN f ELSE req[q]
      BY <1>1, <1>3
    <2> HIDE DEF f
    <2>6. \A q \in Request : /\ req'[q].call = req[q].call /\ req'[q].job = req[q].job
                             /\ req'[q].pc = "new" <=> req[q].pc = "new"
      BY <1>1, <2>4, <2>5
    <2>9. \A q \in Request : Worded(req'[q])
      <3>1. ASSUME w = "due" PROVE textJob(req[r])
        <4>1. req[r].job.batch /\ req[r].job \in Job
          BY <1>1, <2>3, <3>1 DEF deferMemory, Req
        <4> QED BY <4>1 DEF Job, textJob
      <3> QED BY <2>4, <2>5, <3>1 DEF WordInv, Worded, textJob
    <2>10. Kept \in SUBSET Request /\ Kept \cup {r} \in SUBSET Request
      BY DEF Kept
    <2>11. First(term, Kept)'
      <3>1. CASE w = "kept"
        <4>1. First(term', Kept \cup {r})
          BY <2>2, <2>10, <3>1, Remembers DEF IInv, WordInv
        <4>2. Kept' \subseteq Kept \cup {r}
          BY <2>5 DEF Kept
        <4> QED BY <2>6, <2>10, <4>1, <4>2, FirstNext
      <3>2. CASE w # "kept"
        <4>1. First(term', Kept)
          BY <2>2, <3>2 DEF WordInv
        <4>2. Kept' \subseteq Kept
          BY <2>4, <2>5, <3>2 DEF Kept
        <4> QED BY <2>6, <2>10, <4>1, <4>2, FirstNext
      <3> QED BY <3>1, <3>2
    <2> QED BY <2>9, <2>11 DEF WordInv
  <1> QED BY <1>2, <1>3 DEF Save, settledTo

LEMMA WordFlush ==
    ASSUME IInv, WordInv, NEW c \in Request, Flush(c)
    PROVE  WordInv'
  <1>1. UNCHANGED term
    BY DEF Flush, store
  <1>2. PICK replies \in [pending(c) -> Reply] :
            req' = [r \in Request |->
                        IF r \notin pending(c) THEN req[r]
                        ELSE IF isText(r) THEN textAnswered(req[r], replies[r])
                        ELSE pageAnswered(req[r], replies[r])]
    BY DEF Flush
  <1>3. ASSUME NEW q \in Request PROVE SameWord(req'[q], req[q])
    <2>1. req[q] \in Req /\ Had(req[q]) /\ Asked(req[q])
      BY DEF IInv, Typed, Phases
    <2>2. CASE q \notin pending(c)
      BY <1>2, <2>2 DEF SameWord
    <2>3. CASE q \in pending(c)
      <3>1. req[q].pc \in Asking /\ replies[q] \in Reply
        BY <2>3 DEF pending
      <3>2. req'[q] = textAnswered(req[q], replies[q]) \/ req'[q] = pageAnswered(req[q], replies[q])
        BY <1>2, <2>3
      <3>3. /\ SameHad(req'[q], req[q]) /\ req'[q].call = req[q].call
            /\ req'[q].word = req[q].word /\ req'[q].pc # "new"
        BY <2>1, <3>1, <3>2, Replied
      <3> QED BY <3>1, <3>3 DEF SameWord, SameHad, Asking
    <2> QED BY <2>2, <2>3
  <1> QED BY <1>1, <1>3, WordNext

LEMMA WordDie ==
    ASSUME IInv, WordInv, NEW c \in Request, Die(c)
    PROVE  WordInv'
  <1>1. UNCHANGED term
    BY DEF Die, store
  <1>2. ASSUME NEW q \in Request PROVE SameWord(req'[q], req[q])
    <2>1. req[q] \in Req
      BY DEF IInv, Typed
    <2>2. \/ req'[q] = req[q]
          \/ req[q].pc # "new" /\ req'[q] = forgotten(req[q], "dead")
      BY DEF Die, live
    <2> QED BY <2>1, <2>2, Forgotten DEF SameWord, SameHad, PC, Ended
  <1> QED BY <1>1, <1>2, WordNext

LEMMA WordRemember ==
    ASSUME IInv, WordInv, NEW c \in Request, Remember(c)
    PROVE  WordInv'
  <1> DEFINE owed == {r \in Request : req[r].call = c /\ req[r].word = "due"}
  <1>1. PICK w \in {"kept", "none"} :
          /\ term' = IF w = "kept" THEN inOrder(owed) ELSE term
          /\ req' = [r \in Request |-> IF r \in owed THEN [req[r] EXCEPT !.word = w] ELSE req[r]]
    BY DEF Remember
  <1>2. owed \in SUBSET Request /\ \A r \in owed : isText(r)
    BY DEF WordInv, Worded, isText, kind, textJob
  <1>3. ASSUME NEW q \in Request
        PROVE  /\ req'[q].call = req[q].call /\ req'[q].job = req[q].job
               /\ req'[q].pc = req[q].pc
               /\ req'[q].word = IF q \in owed THEN w ELSE req[q].word
    <2>1. req[q] \in Req
      BY DEF IInv, Typed
    <2> DEFINE f == [req[q] EXCEPT !.word = w]
    <2>2. f.word = w /\ f.call = req[q].call /\ f.job = req[q].job /\ f.pc = req[q].pc
      BY <2>1, SMT DEF Req
    <2>3. req'[q] = IF q \in owed THEN f ELSE req[q]
      BY <1>1
    <2> HIDE DEF f, owed
    <2> QED BY <2>2, <2>3
  <1>4. \A r \in owed : req[r].pc # "new" /\ textJob(req[r])
    BY DEF WordInv, Worded
  <1>7. \A q \in Request : Worded(req'[q])
    BY <1>3, <1>4 DEF WordInv, Worded, textJob
  <1> HIDE DEF owed
  <1>8. Kept \in SUBSET Request /\ Kept \cup owed \in SUBSET Request
    BY <1>2 DEF Kept
  <1>9. First(term, Kept)'
    <2>1. CASE w = "kept"
      <3>1. First(term', Kept \cup owed)
        BY <1>1, <1>2, <1>8, <2>1, RemembersAll DEF IInv, WordInv
      <3>2. Kept' \subseteq Kept \cup owed
        BY <1>3 DEF Kept
      <3> QED BY <1>3, <1>8, <3>1, <3>2, FirstNext
    <2>2. CASE w = "none"
      <3>1. First(term', Kept)
        BY <1>1, <2>2 DEF WordInv
      <3>2. Kept' \subseteq Kept
        BY <1>3, <2>2 DEF Kept
      <3> QED BY <1>3, <1>8, <3>1, <3>2, FirstNext
    <2> QED BY <2>1, <2>2
  <1> QED BY <1>7, <1>9 DEF WordInv

LEMMA WordArrive ==
    ASSUME IInv, WordInv, Arrive
    PROVE  WordInv'
  <1>1. UNCHANGED term
    BY DEF Arrive, store
  <1>3. PICK n \in Request :
          LET mine == n .. n + Cardinality(Head(todo)) - 1 IN
          /\ \A r \in Request : req[r].pc = "new" <=> r >= n
          /\ \E jobs \in [mine -> Head(todo)] :
                req' = [r \in Request |->
                            IF r \in mine
                            THEN [Unmade EXCEPT !.pc = "look", !.call = n, !.at = now,
                                                !.job = jobs[r], !.engine = jobs[r].kind]
                            ELSE req[r]]
    BY DEF Arrive
  <1> DEFINE mine == n .. n + Cardinality(Head(todo)) - 1
  <1>4. PICK jobs \in [mine -> Head(todo)] :
                req' = [r \in Request |->
                            IF r \in mine
                            THEN [Unmade EXCEPT !.pc = "look", !.call = n, !.at = now,
                                                !.job = jobs[r], !.engine = jobs[r].kind]
                            ELSE req[r]]
    BY <1>3
  <1>5. n \in Nat /\ (\A q \in mine : q \in Int /\ q >= n) /\ \A q \in Request : q \in Nat
    BY TranslationAssumption, SMT DEF Request
  <1> HIDE DEF mine
  <1>6. ASSUME NEW r \in Request, r \in mine
        PROVE  /\ req[r].pc = "new"
               /\ req'[r].pc = "look" /\ req'[r].call = n /\ req'[r].job = jobs[r]
               /\ req'[r].word = "none"
    <2>1. req[r].pc = "new"
      BY <1>3, <1>5, <1>6
    <2> DEFINE j == jobs[r]
               k == jobs[r].kind
               f == [Unmade EXCEPT !.pc = "look", !.call = n, !.at = now, !.job = j, !.engine = k]
    <2>2. req'[r] = f
      BY <1>4, <1>6
    <2> HIDE DEF j, k
    <2>3. f.pc = "look" /\ f.call = n /\ f.job = j /\ f.word = "none"
      BY DEF Unmade
    <2> HIDE DEF f
    <2> QED BY <2>1, <2>2, <2>3 DEF j
  <1>7. \A r \in Request : r \notin mine => req'[r] = req[r]
    BY <1>4
  <1>11. \A r \in Request : Worded(req'[r])
    BY <1>6, <1>7 DEF WordInv, Worded
  <1>12. First(term, Kept)'
    <2>1. Kept \in SUBSET Request /\ Kept' \subseteq Kept
      BY <1>6, <1>7 DEF Kept
    <2>2. \A r \in Kept : r \notin mine
      BY <1>6 DEF Kept, WordInv, Worded
    <2> QED BY <1>1, <1>7, <2>1, <2>2, FirstNext DEF WordInv
  <1> QED BY <1>11, <1>12 DEF WordInv

LEMMA WordInit == Init => WordInv
  <1> SUFFICES ASSUME Init PROVE WordInv
    OBVIOUS
  <1>1. \A r \in Request : req[r].pc = "new" /\ req[r].word = "none"
    BY DEF Init, Unmade
  <1>3. First(term, Kept)
    <2>1. Kept = {}
      BY <1>1 DEF Kept
    <2>2. term = [origin |-> "none", chapter |-> None, index |-> None]
      BY DEF Init
    <2>3. term \in Wording /\ term.origin = "none"
      BY <2>2, SMT DEF Wording
    <2> QED BY <2>1, <2>3 DEF First
  <1> QED BY <1>1, <1>3 DEF WordInv, Worded

LEMMA WordStep == ASSUME IInv, WordInv, [Next]_vars PROVE WordInv'
  <1>1. ASSUME NEW r \in Request, Step(r) PROVE WordInv'
    BY <1>1, WordWalks, WordAdmits, WordSave DEF Step
  <1>2. ASSUME NEW c \in Request, Flush(c) \/ Remember(c) \/ Die(c) PROVE WordInv'
    BY <1>2, WordFlush, WordRemember, WordDie
  <1>3. ASSUME Tick \/ UNCHANGED vars PROVE WordInv'
    <2>1. UNCHANGED <<req, term>>
      BY <1>3 DEF Tick, store, vars
    <2> QED BY <2>1, WordNext DEF SameWord
  <1> QED BY <1>1, <1>2, <1>3, WordArrive DEF Next

(* In whatever order the pages of a chapter are answered and saved, alone or  *)
(* in batches, the word they agree on is that of the earliest (remember).     *)
THEOREM EarliestPageNames == Spec => []EarliestWins
  <1>1. Init => IInv /\ WordInv
    BY InitIInv, WordInit
  <1>2. IInv /\ WordInv /\ [Next]_vars => IInv' /\ WordInv'
    BY BooksStep, WordStep
  <1>3. WordInv => EarliestWins
    BY DEF WordInv, First, Kept, EarliestWins, place
  <1> QED BY <1>1, <1>2, <1>3, PTL DEF Spec

===============================================================================
