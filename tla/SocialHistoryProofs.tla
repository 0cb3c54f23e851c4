------------------------- MODULE SocialHistoryProofs -------------------------
(***************************************************************************)
(* Proofs about SocialHistory: for any works, devices and bounds nothing is  *)
(* seen before its hour, when no view is older than a removal it meets and   *)
(* no push opens what its own views were made behind; a device at the        *)
(* server's revision holds what friends may have and nothing else, and what  *)
(* friends are shown is in the account's own history.                        *)
(***************************************************************************)
EXTENDS SocialHistory, TLAPS

(* What record m lets friends learn by instant t. *)
out(m, t, v) == \E i \in m.view[v] : i <= t
outWork(m, t, w) == \E v \in View : m.work[v] = w /\ out(m, t, v)
outDone(m, t, w) == \E i \in m.done[w] : i <= t
outName(m, t, w) == w \in m.open \/ outWork(m, t, w) \/ outDone(m, t, w)

(* A row of work w keeps its view back until the hour: what is public is     *)
(* out, what will be public will be out by then.                             *)
RowKeeps(row, m, t, w) ==
    /\ row.social = Public => row.published
    /\ row.published => outWork(m, t, w)
    /\ row.social = Never => row.chapter = NoChapter
    /\ row.chapter # NoChapter => m.work[row.chapter] = w
    /\ row.social = Public /\ row.chapter # NoChapter => out(m, t, row.chapter)
    /\ row.social > 0 => /\ row.chapter # NoChapter
                         /\ \E i \in m.view[row.chapter] : i <= row.social

EventKeeps(event, m, t, w) ==
    /\ event.social = Public => outDone(m, t, w)
    /\ event.social > 0 => \E i \in m.done[w] : i <= event.social

(* The database keeps what it must until the hour. *)
Keeps(d, m, t) ==
    \A w \in Work :
        /\ d.shown[w] # NoRow => RowKeeps(d.shown[w], m, t, w)
        /\ d.done[w] # NoRow => EventKeeps(d.done[w], m, t, w)
        /\ d.works[w] > 0 => outName(m, t, w)

(* What a device holds is out. *)
Holds(held, m, t) ==
    /\ \A w \in Work : held.shown[w] # NoRow =>
           /\ outWork(m, t, w)
           /\ held.shown[w].chapter # NoChapter => out(m, t, held.shown[w].chapter)
    /\ \A w \in held.done : outDone(m, t, w)
    /\ \A w \in held.works : outName(m, t, w)

(* No view is out before it is made. *)
Unmade(m, n) == \A v \in View : v > n => m.view[v] = {} /\ m.work[v] = NoRow

IInv ==
    /\ TypeOK
    /\ Unmade(may, views)
    /\ Keeps(db, may, now)
    /\ \A f \in Device : Holds(mirror[f], may, now)

-------------------------------------------------------------------------------
(* A database with one part replaced by another of its type: the other parts *)
(* stay.                                                                     *)

(* A new revision. *)
LEMMA SetRev ==
    ASSUME NEW d \in DB, NEW part \in Nat
    PROVE  LET e == [d EXCEPT !.rev = part] IN
           /\ e \in DB /\ e.rev = part
           /\ e.settings = d.settings /\ e.own = d.own /\ e.shown = d.shown
           /\ e.privacy = d.privacy /\ e.done = d.done /\ e.works = d.works
  BY SMT DEF DB

(* New switches. *)
LEMMA SetSettings ==
    ASSUME NEW d \in DB, NEW part \in Settings
    PROVE  LET e == [d EXCEPT !.settings = part] IN
           /\ e \in DB /\ e.settings = part
           /\ e.rev = d.rev /\ e.own = d.own /\ e.shown = d.shown
           /\ e.privacy = d.privacy /\ e.done = d.done /\ e.works = d.works
  BY SMT DEF DB

(* New rows of the account itself. *)
LEMMA SetOwn ==
    ASSUME NEW d \in DB, NEW part \in [Work -> Own \cup {NoRow}]
    PROVE  LET e == [d EXCEPT !.own = part] IN
           /\ e \in DB /\ e.own = part
           /\ e.rev = d.rev /\ e.settings = d.settings /\ e.shown = d.shown
           /\ e.privacy = d.privacy /\ e.done = d.done /\ e.works = d.works
  BY SMT DEF DB

(* New rows for friends. *)
LEMMA SetShown ==
    ASSUME NEW d \in DB, NEW part \in [Work -> Row \cup {NoRow}]
    PROVE  LET e == [d EXCEPT !.shown = part] IN
           /\ e \in DB /\ e.shown = part
           /\ e.rev = d.rev /\ e.settings = d.settings /\ e.own = d.own
           /\ e.privacy = d.privacy /\ e.done = d.done /\ e.works = d.works
  BY SMT DEF DB

(* A new privacy row. *)
LEMMA SetPrivacy ==
    ASSUME NEW d \in DB, NEW part \in Privacy \cup {NoRow}
    PROVE  LET e == [d EXCEPT !.privacy = part] IN
           /\ e \in DB /\ e.privacy = part
           /\ e.rev = d.rev /\ e.settings = d.settings /\ e.own = d.own
           /\ e.shown = d.shown /\ e.done = d.done /\ e.works = d.works
  BY SMT DEF DB

(* New completions. *)
LEMMA SetDone ==
    ASSUME NEW d \in DB, NEW part \in [Work -> Event \cup {NoRow}]
    PROVE  LET e == [d EXCEPT !.done = part] IN
           /\ e \in DB /\ e.done = part
           /\ e.rev = d.rev /\ e.settings = d.settings /\ e.own = d.own
           /\ e.shown = d.shown /\ e.privacy = d.privacy /\ e.works = d.works
  BY SMT DEF DB

(* New names of works. *)
LEMMA SetWorks ==
    ASSUME NEW d \in DB, NEW part \in [Work -> Nat]
    PROVE  LET e == [d EXCEPT !.works = part] IN
           /\ e \in DB /\ e.works = part
           /\ e.rev = d.rev /\ e.settings = d.settings /\ e.own = d.own
           /\ e.shown = d.shown /\ e.privacy = d.privacy /\ e.done = d.done
  BY SMT DEF DB

(* The operations keep the types of the database. *)

(* A view leaves a row of the type of each table. *)
LEMMA ViewedTypes ==
    ASSUME NEW d \in DB, NEW w \in Work, NEW v \in View, NEW at \in Nat, NEW t \in Nat,
           NEW r \in Nat
    PROVE  /\ ownView(d, w, at) \in Own
           /\ publication(d, t) \in Nat
           /\ shownView(d, w, v, at, t, r) \in Row
  <1>1. d.own[w] \in Own \cup {NoRow} /\ d.shown[w] \in Row \cup {NoRow}
    BY DEF DB
  <1>2. ownView(d, w, at) \in Own
    BY <1>1, SMT DEF ownView, max, Own
  <1>3. publication(d, t) \in Nat
    BY SocialAssumption, SMT DEF publication, Public
  <1>4. ASSUME d.shown[w] # NoRow
        PROVE  shownView(d, w, v, at, t, r) \in Row
    BY <1>1, <1>3, <1>4, SMT DEF shownView, Row, max
  <1>5. ASSUME d.shown[w] = NoRow
        PROVE  shownView(d, w, v, at, t, r) \in Row
    BY <1>3, <1>5, SMT DEF shownView, Row
  <1>6. QED
    BY <1>2, <1>3, <1>4, <1>5

(* Naming a work changes the names only, and not while the account hides. *)
LEMMA DescribedParts ==
    ASSUME NEW d \in DB, NEW w \in Work, NEW r \in Nat
    PROVE  LET e == described(d, w, r) IN
           /\ e \in DB
           /\ e.works = IF hides(d) THEN d.works ELSE [d.works EXCEPT ![w] = r]
           /\ e.own = d.own /\ e.shown = d.shown /\ e.done = d.done
           /\ e.settings = d.settings /\ e.privacy = d.privacy
  <1>1. CASE hides(d)
    BY <1>1 DEF described
  <1>2. CASE ~hides(d)
    <2> DEFINE works == [d.works EXCEPT ![w] = r]
    <2>1. works \in [Work -> Nat]
      BY DEF DB
    <2>2. described(d, w, r) = [d EXCEPT !.works = works]
      BY <1>2 DEF described
    <2> HIDE DEF works
    <2>3. LET e == [d EXCEPT !.works = works] IN
          /\ e \in DB /\ e.works = works
          /\ e.own = d.own /\ e.shown = d.shown /\ e.done = d.done
          /\ e.settings = d.settings /\ e.privacy = d.privacy
      BY <2>1, SetWorks
    <2>4. QED
      BY <1>2, <2>2, <2>3 DEF works
  <1>3. QED
    BY <1>1, <1>2

(* What a view leaves of each table. *)
LEMMA AddViewParts ==
    ASSUME NEW d \in DB, NEW w \in Work, NEW v \in View, NEW at \in Nat, NEW t \in Nat,
           NEW r \in Nat
    PROVE  LET e == addView(d, w, v, at, t, r) IN
           /\ e \in DB
           /\ e.done = d.done
           /\ e.shown = [d.shown EXCEPT ![w] = IF d.settings.showRecentViews
                                               THEN shownView(d, w, v, at, t, r) ELSE @]
           /\ e.works = IF hides(d) THEN d.works ELSE [d.works EXCEPT ![w] = r]
  <1> DEFINE works == IF hides(d) THEN d.works ELSE [d.works EXCEPT ![w] = r]
             own == [d.own EXCEPT ![w] = ownView(d, w, at)]
             shown == [d.shown EXCEPT ![w] = IF d.settings.showRecentViews
                                             THEN shownView(d, w, v, at, t, r) ELSE @]
             named == described(d, w, r)
             d1 == [named EXCEPT !.own = own]
             d2 == [d1 EXCEPT !.shown = shown]
             e == addView(d, w, v, at, t, r)
  <1>1. works \in [Work -> Nat] /\ own \in [Work -> Own \cup {NoRow}]
        /\ shown \in [Work -> Row \cup {NoRow}]
    BY ViewedTypes DEF DB
  <1>2. /\ named \in DB /\ named.works = works
        /\ named.own = d.own /\ named.shown = d.shown /\ named.done = d.done
    BY DescribedParts
  <1>4. e = [d2 EXCEPT !.rev = r]
    BY <1>2 DEF addView
  <1> HIDE DEF works, own, shown, named, e
  <1>5. d1 \in DB /\ d1.works = works /\ d1.shown = d.shown /\ d1.done = d.done
    BY <1>1, <1>2, SetOwn
  <1> HIDE DEF d1
  <1>6. d2 \in DB /\ d2.works = works /\ d2.shown = shown /\ d2.done = d.done
    BY <1>1, <1>5, SetShown
  <1> HIDE DEF d2
  <1>7. e \in DB /\ e.works = works /\ e.shown = shown /\ e.done = d.done
    BY <1>4, <1>6, SetRev
  <1>8. QED
    BY <1>7 DEF works, shown, e

(* What a removal leaves of a row friends may have. *)
LEMMA WithdrawnParts ==
    ASSUME NEW row \in Row, NEW t \in Nat, NEW r \in Nat
    PROVE  LET e == withdrawnRow(row, t, r) IN
           /\ e \in Row
           /\ e.published = row.published
           /\ e.social = IF row.published THEN Public ELSE Never
           /\ e.chapter = IF row.social # Public THEN NoChapter ELSE row.chapter
           /\ e.removed /\ e.rev = r
  <1> DEFINE yes == TRUE
             at == max(row.at, t)
             chapter == IF row.social # Public THEN NoChapter ELSE row.chapter
             social == IF row.published THEN Public ELSE Never
             r1 == [row EXCEPT !.removed = yes]
             r2 == [r1 EXCEPT !.at = at]
             r3 == [r2 EXCEPT !.chapter = chapter]
             r4 == [r3 EXCEPT !.social = social]
             e == withdrawnRow(row, t, r)
  <1>0. yes \in BOOLEAN
    OBVIOUS
  <1>9. yes
    OBVIOUS
  <1>1. at \in Nat /\ chapter \in View \cup {NoChapter} /\ social \in {Never} \cup Nat
    BY SMT DEF Row, max, Public, Never, NoChapter
  <1>2. e = [r4 EXCEPT !.rev = r]
    BY DEF withdrawnRow
  <1> HIDE DEF yes, at, chapter, social, e
  <1>3. r1 \in Row /\ r1.published = row.published /\ r1.removed = yes
    BY <1>0, SMT DEF Row
  <1> HIDE DEF r1
  <1>4. r2 \in Row /\ r2.published = row.published /\ r2.removed = yes
    BY <1>1, <1>3, SMT DEF Row
  <1> HIDE DEF r2
  <1>5. /\ r3 \in Row /\ r3.published = row.published /\ r3.chapter = chapter
        /\ r3.removed = yes
    BY <1>1, <1>4, SMT DEF Row
  <1> HIDE DEF r3
  <1>6. /\ r4 \in Row /\ r4.published = row.published /\ r4.chapter = chapter /\ r4.social = social
        /\ r4.removed = yes
    BY <1>1, <1>5, SMT DEF Row
  <1> HIDE DEF r4
  <1>7. /\ e \in Row /\ e.published = row.published /\ e.chapter = chapter /\ e.social = social
        /\ e.removed = yes /\ e.rev = r
    BY <1>2, <1>6, SMT DEF Row
  <1>8. QED
    BY <1>7, <1>9 DEF chapter, social, e

(* What a removal leaves of each table. *)
LEMMA RemoveViewParts ==
    ASSUME NEW d \in DB, NEW w \in Work, NEW t \in Nat, NEW r \in Nat
    PROVE  LET e == removeView(d, w, t, r) IN
           /\ e \in DB
           /\ e.works = d.works
           /\ e.shown = [d.shown EXCEPT ![w] = IF @ = NoRow THEN @ ELSE withdrawnRow(@, t, r)]
           /\ e.done = [d.done EXCEPT ![w] = IF @ # NoRow /\ @.social > 0
                                             THEN [social |-> Never, rev |-> r] ELSE @]
           /\ \A x \in Work : x # w => e.own[x] = d.own[x]
           /\ e.rev = r /\ e.settings = d.settings /\ e.privacy = d.privacy
  <1> DEFINE own == [d.own EXCEPT ![w] = [removed |-> TRUE,
                                          at |-> IF @ = NoRow THEN t ELSE max(@.at, t)]]
             shown == [d.shown EXCEPT ![w] = IF @ = NoRow THEN @ ELSE withdrawnRow(@, t, r)]
             done == [d.done EXCEPT ![w] = IF @ # NoRow /\ @.social > 0
                                           THEN [social |-> Never, rev |-> r] ELSE @]
             d1 == [d EXCEPT !.own = own]
             d2 == [d1 EXCEPT !.shown = shown]
             d3 == [d2 EXCEPT !.done = done]
             e == removeView(d, w, t, r)
  <1>1. /\ d.own[w] \in Own \cup {NoRow} /\ d.shown[w] \in Row \cup {NoRow}
        /\ d.done[w] \in Event \cup {NoRow}
    BY DEF DB
  <1>2. [removed |-> TRUE, at |-> IF d.own[w] = NoRow THEN t ELSE max(d.own[w].at, t)] \in Own
    BY <1>1, SMT DEF Own, max
  <1>3. ASSUME d.shown[w] # NoRow PROVE withdrawnRow(d.shown[w], t, r) \in Row
    BY <1>1, <1>3, WithdrawnParts
  <1>4. [social |-> Never, rev |-> r] \in Event
    BY SMT DEF Event, Never
  <1>5. /\ own \in [Work -> Own \cup {NoRow}]
        /\ shown \in [Work -> Row \cup {NoRow}]
        /\ done \in [Work -> Event \cup {NoRow}]
    BY <1>1, <1>2, <1>3, <1>4 DEF DB
  <1>6. e = [d3 EXCEPT !.rev = r]
    BY DEF removeView
  <1> HIDE DEF own, shown, done, e
  <1>7. /\ d1 \in DB /\ d1.works = d.works /\ d1.own = own /\ d1.shown = d.shown
        /\ d1.done = d.done /\ d1.settings = d.settings /\ d1.privacy = d.privacy
    BY <1>5, SetOwn
  <1> HIDE DEF d1
  <1>8. /\ d2 \in DB /\ d2.works = d.works /\ d2.own = own /\ d2.shown = shown
        /\ d2.done = d.done /\ d2.settings = d.settings /\ d2.privacy = d.privacy
    BY <1>5, <1>7, SetShown
  <1> HIDE DEF d2
  <1>9. /\ d3 \in DB /\ d3.works = d.works /\ d3.own = own /\ d3.shown = shown
        /\ d3.done = done /\ d3.settings = d.settings /\ d3.privacy = d.privacy
    BY <1>5, <1>8, SetDone
  <1> HIDE DEF d3
  <1>10. /\ e \in DB /\ e.works = d.works /\ e.own = own /\ e.shown = shown
         /\ e.done = done /\ e.rev = r /\ e.settings = d.settings /\ e.privacy = d.privacy
    BY <1>6, <1>9, SetRev
  <1>11. \A x \in Work : x # w => own[x] = d.own[x]
    BY DEF own, DB
  <1>12. QED
    BY <1>10, <1>11 DEF shown, done, e

(* What a completion leaves of each table. *)
LEMMA CompleteParts ==
    ASSUME NEW d \in DB, NEW w \in Work, NEW t \in Nat, NEW r \in Nat
    PROVE  LET e == complete(d, w, t, r) IN
           /\ e \in DB
           /\ e.shown = d.shown
           /\ e.works = IF hides(d) THEN d.works ELSE [d.works EXCEPT ![w] = r]
           /\ e.done = [d.done EXCEPT ![w] = IF @ = NoRow /\ d.settings.shareCompletions
                                             THEN [social |-> publication(d, t), rev |-> r] ELSE @]
           /\ e.own = d.own
           /\ e.rev = r /\ e.settings = d.settings /\ e.privacy = d.privacy
  <1> DEFINE works == IF hides(d) THEN d.works ELSE [d.works EXCEPT ![w] = r]
             done == [d.done EXCEPT ![w] = IF @ = NoRow /\ d.settings.shareCompletions
                                           THEN [social |-> publication(d, t), rev |-> r] ELSE @]
             named == described(d, w, r)
             d1 == [named EXCEPT !.done = done]
             e == complete(d, w, t, r)
  <1>1. publication(d, t) \in Nat
    BY SocialAssumption, SMT DEF publication, Public
  <1>2. [social |-> publication(d, t), rev |-> r] \in Event
    BY <1>1, SMT DEF Event
  <1>3. works \in [Work -> Nat] /\ done \in [Work -> Event \cup {NoRow}]
    BY <1>2 DEF DB
  <1>5. /\ named \in DB /\ named.works = works
        /\ named.own = d.own /\ named.shown = d.shown /\ named.done = d.done
        /\ named.settings = d.settings /\ named.privacy = d.privacy
    BY DescribedParts
  <1>6. e = [d1 EXCEPT !.rev = r]
    BY <1>5 DEF complete
  <1> HIDE DEF works, done, named, e
  <1>7. /\ d1 \in DB /\ d1.works = works /\ d1.own = d.own /\ d1.shown = d.shown
        /\ d1.done = done /\ d1.settings = d.settings /\ d1.privacy = d.privacy
    BY <1>3, <1>5, SetDone
  <1> HIDE DEF d1
  <1>8. /\ e \in DB /\ e.works = works /\ e.own = d.own /\ e.shown = d.shown
        /\ e.done = done /\ e.rev = r /\ e.settings = d.settings /\ e.privacy = d.privacy
    BY <1>6, <1>7, SetRev
  <1>9. QED
    BY <1>8 DEF works, done, e

Switch == {"shareCurrent", "shareCompletions", "showRecentViews"}

(* What a switch leaves of each table. *)
LEMMA PatchParts ==
    ASSUME NEW d \in DB, NEW field \in Switch, NEW on \in BOOLEAN, NEW r \in Nat
    PROVE  /\ patch(d, field, on, r) \in DB
           /\ patch(d, field, on, r).works = d.works
           /\ patch(d, field, on, r).done = d.done
           /\ patch(d, field, on, r).shown = IF field = "showRecentViews" /\ ~on
                                            THEN [w \in Work |-> NoRow] ELSE d.shown
           /\ \A switch \in Switch : patch(d, field, on, r).settings[switch] =
                                     IF switch = field THEN on ELSE d.settings[switch]
           /\ patch(d, field, on, r).rev = r
  <1> DEFINE settings == [d.settings EXCEPT ![field] = on]
             d1 == [d EXCEPT !.settings = settings]
             set == [d1 EXCEPT !.rev = r]
             privacy == [visible |-> on, rev |-> r]
             shown == IF on THEN d.shown ELSE [w \in Work |-> NoRow]
             d2 == [set EXCEPT !.privacy = privacy]
             e == patch(d, field, on, r)
  <1>1. settings \in Settings
    BY SMT DEF DB, Settings, Switch
  <1>2. privacy \in Privacy \cup {NoRow} /\ shown \in [Work -> Row \cup {NoRow}]
    BY SMT DEF Privacy, DB
  <1>3. set = [d EXCEPT !.settings[field] = on, !.rev = r]
    OBVIOUS
  <1> HIDE DEF settings
  <1>4. /\ d1 \in DB /\ d1.works = d.works /\ d1.done = d.done /\ d1.shown = d.shown
        /\ d1.settings = settings
    BY <1>1, SetSettings
  <1> HIDE DEF d1
  <1>5. /\ set \in DB /\ set.works = d.works /\ set.done = d.done /\ set.shown = d.shown
        /\ set.settings = settings /\ set.rev = r
    BY <1>4, SetRev
  <1>6. e = IF field # "showRecentViews" THEN set ELSE [d2 EXCEPT !.shown = shown]
    BY <1>3, <1>5 DEF patch
  <1> HIDE DEF set, privacy, shown, e
  <1>7. /\ d2 \in DB /\ d2.works = d.works /\ d2.done = d.done /\ d2.settings = settings
        /\ d2.rev = r
    BY <1>2, <1>5, SetPrivacy
  <1> HIDE DEF d2
  <1>8. LET s == [d2 EXCEPT !.shown = shown] IN
        /\ s \in DB /\ s.works = d.works /\ s.done = d.done /\ s.settings = settings
        /\ s.rev = r /\ s.shown = shown
    BY <1>2, <1>7, SetShown
  <1>9. \A switch \in Switch : settings[switch] =
                               IF switch = field THEN on ELSE d.settings[switch]
    BY SMT DEF settings, DB, Settings, Switch
  <1>10. QED
    BY <1>5, <1>6, <1>8, <1>9 DEF shown, e

(* A row that comes out keeps its chapter. *)
LEMMA OutParts ==
    ASSUME NEW row \in Row, NEW r \in Nat
    PROVE  LET e == [row EXCEPT !.social = Public, !.published = TRUE, !.rev = r] IN
           /\ e \in Row
           /\ e.published
           /\ e.social = Public
           /\ e.chapter = row.chapter
           /\ e.removed = row.removed /\ e.rev = r
  <1> DEFINE yes == TRUE
             r1 == [row EXCEPT !.social = Public]
             r2 == [r1 EXCEPT !.published = yes]
             e == [row EXCEPT !.social = Public, !.published = yes, !.rev = r]
  <1>0. yes
    OBVIOUS
  <1>1. yes \in BOOLEAN
    OBVIOUS
  <1>2. e = [r2 EXCEPT !.rev = r]
    OBVIOUS
  <1>3. e = [row EXCEPT !.social = Public, !.published = TRUE, !.rev = r]
    OBVIOUS
  <1> HIDE DEF yes, e
  <1>4. /\ r1 \in Row /\ r1.chapter = row.chapter /\ r1.social = Public
        /\ r1.removed = row.removed
    BY SMT DEF Row, Public
  <1> HIDE DEF r1
  <1>5. /\ r2 \in Row /\ r2.chapter = row.chapter /\ r2.social = Public /\ r2.published = yes
        /\ r2.removed = row.removed
    BY <1>1, <1>4, SMT DEF Row
  <1> HIDE DEF r2
  <1>6. /\ e \in Row /\ e.chapter = row.chapter /\ e.social = Public /\ e.published = yes
        /\ e.removed = row.removed /\ e.rev = r
    BY <1>2, <1>5, SMT DEF Row
  <1>7. QED
    BY <1>0, <1>3, <1>6

(* A publication changes the rows that are due and no other. *)
LEMMA PublishDueParts ==
    ASSUME NEW d \in DB, NEW t \in Nat
    PROVE  LET e == publishDue(d, t)
               r == d.rev + 1 IN
           /\ e \in DB
           /\ e.privacy = d.privacy /\ e.settings = d.settings /\ e.own = d.own
           /\ e = d \/ e.rev = r
           /\ \A w \in Work :
                 /\ e.shown[w] = d.shown[w] \/
                        /\ isDue(d.shown[w], t)
                        /\ e.shown[w] = [d.shown[w] EXCEPT !.social = Public, !.published = TRUE,
                                                           !.rev = r]
                 /\ e.done[w] = d.done[w] \/
                        /\ isDue(d.done[w], t)
                        /\ e.done[w] = [social |-> Public, rev |-> r]
                 /\ e.works[w] = d.works[w] \/ (isDue(d.shown[w], t) /\ e.works[w] = r)
  <1>1. CASE ~anyDue(d, t)
    BY <1>1 DEF publishDue
  <1>2. CASE anyDue(d, t)
    <2> DEFINE r == d.rev + 1
               works == [w \in Work |-> IF isDue(d.shown[w], t) /\ ~d.shown[w].removed
                                        THEN r ELSE d.works[w]]
               outRow(w) == [d.shown[w] EXCEPT !.social = Public, !.published = TRUE, !.rev = r]
               shown == [w \in Work |-> IF isDue(d.shown[w], t) THEN outRow(w) ELSE d.shown[w]]
               done == [w \in Work |-> IF isDue(d.done[w], t)
                                       THEN [social |-> Public, rev |-> r] ELSE d.done[w]]
               d1 == [d EXCEPT !.works = works]
               d2 == [d1 EXCEPT !.shown = shown]
               d3 == [d2 EXCEPT !.done = done]
               e == publishDue(d, t)
    <2>1. r \in Nat
      BY SMT DEF DB
    <2>2. ASSUME NEW w \in Work, isDue(d.shown[w], t) PROVE outRow(w) \in Row
      <3>1. d.shown[w] \in Row
        BY <2>2 DEF isDue, DB
      <3>2. QED
        BY <2>1, <3>1, OutParts
    <2>3. [social |-> Public, rev |-> r] \in Event
      BY <2>1, SMT DEF Event, Public
    <2>4. /\ works \in [Work -> Nat]
          /\ shown \in [Work -> Row \cup {NoRow}]
          /\ done \in [Work -> Event \cup {NoRow}]
      BY <2>1, <2>2, <2>3 DEF DB
    <2>5. e = [d3 EXCEPT !.rev = r]
      BY <1>2 DEF publishDue
    <2>6. \A w \in Work :
             /\ shown[w] = d.shown[w] \/ (isDue(d.shown[w], t) /\ shown[w] = outRow(w))
             /\ done[w] = d.done[w] \/
                    (isDue(d.done[w], t) /\ done[w] = [social |-> Public, rev |-> r])
             /\ works[w] = d.works[w] \/ (isDue(d.shown[w], t) /\ works[w] = r)
      <3> TAKE w \in Work
      <3>1. shown[w] = IF isDue(d.shown[w], t) THEN outRow(w) ELSE d.shown[w]
        OBVIOUS
      <3>2. done[w] = IF isDue(d.done[w], t) THEN [social |-> Public, rev |-> r] ELSE d.done[w]
        OBVIOUS
      <3>3. works[w] = IF isDue(d.shown[w], t) /\ ~d.shown[w].removed THEN r ELSE d.works[w]
        OBVIOUS
      <3> HIDE DEF shown, done, works, outRow
      <3>4. QED
        BY <3>1, <3>2, <3>3
    <2> HIDE DEF works, shown, done, e
    <2>7. /\ d1 \in DB /\ d1.works = works /\ d1.privacy = d.privacy
          /\ d1.settings = d.settings /\ d1.own = d.own
      BY <2>4, SetWorks
    <2> HIDE DEF d1
    <2>8. /\ d2 \in DB /\ d2.works = works /\ d2.shown = shown /\ d2.privacy = d.privacy
          /\ d2.settings = d.settings /\ d2.own = d.own
      BY <2>4, <2>7, SetShown
    <2> HIDE DEF d2
    <2>9. /\ d3 \in DB /\ d3.works = works /\ d3.shown = shown /\ d3.done = done
          /\ d3.privacy = d.privacy /\ d3.settings = d.settings /\ d3.own = d.own
      BY <2>4, <2>8, SetDone
    <2> HIDE DEF d3
    <2>10. /\ e \in DB /\ e.works = works /\ e.shown = shown /\ e.done = done
           /\ e.privacy = d.privacy /\ e.settings = d.settings /\ e.own = d.own /\ e.rev = r
      BY <2>1, <2>5, <2>9, SetRev
    <2>11. QED
      BY <2>6, <2>10 DEF e
  <1>3. QED
    BY <1>1, <1>2

(* What a device receives and purges keeps the type of a mirror.             *)
LEMMA ReceivedType ==
    ASSUME NEW d \in DB, NEW m \in Mirror, NEW since \in Nat
    PROVE  received(d, m, since) \in Mirror /\ purged(received(d, m, since)) \in Mirror
  <1> DEFINE shown == [w \in Work |-> IF mayCarry(d, w) /\ d.shown[w].rev > since
                                      THEN carried(d.shown[w]) ELSE m.shown[w]]
             withdrawn == IF d.privacy # NoRow /\ d.privacy.rev > since
                          THEN ~d.privacy.visible ELSE m.withdrawn
             done == m.done \cup {w \in Work : /\ d.done[w] # NoRow
                                               /\ d.done[w].social = Public
                                               /\ d.done[w].rev > since}
             works == m.works \cup {w \in Work : d.works[w] > since}
             e == received(d, m, since)
  <1>1. ASSUME NEW w \in Work, mayCarry(d, w) PROVE carried(d.shown[w]) \in Seen
    BY <1>1, SMT DEF mayCarry, carried, Seen, DB, Row
  <1>2. shown \in [Work -> Seen \cup {NoRow}]
    BY <1>1 DEF Mirror
  <1>3. withdrawn \in BOOLEAN
    BY DEF Mirror, DB, Privacy
  <1>4. done \in SUBSET Work /\ works \in SUBSET Work /\ d.rev \in Nat
    BY DEF Mirror, DB
  <1>5. e = [cursor |-> d.rev, shown |-> shown, withdrawn |-> withdrawn, done |-> done,
             works |-> works]
    BY DEF received
  <1> HIDE DEF shown, withdrawn, done, works, e
  <1>6. e \in Mirror
    BY <1>2, <1>3, <1>4, <1>5 DEF Mirror
  <1>7. [w \in Work |-> NoRow] \in [Work -> Seen \cup {NoRow}]
    OBVIOUS
  <1>8. purged(e) \in Mirror
    BY <1>6, <1>7, SMT DEF purged, Mirror
  <1>9. QED
    BY <1>6, <1>8 DEF e

-------------------------------------------------------------------------------
(* The record of what may be seen only grows.                                *)

Grows(m, t, n, u) ==
    /\ \A v \in View : out(m, t, v) => out(n, u, v) /\ n.work[v] = m.work[v]
    /\ \A w \in Work : outDone(m, t, w) => outDone(n, u, w)
    /\ m.open \subseteq n.open

(* What is out of a work stays out. *)
LEMMA GrownNames ==
    ASSUME NEW m, NEW t, NEW n, NEW u, Grows(m, t, n, u), NEW w \in Work
    PROVE  /\ outWork(m, t, w) => outWork(n, u, w)
           /\ outDone(m, t, w) => outDone(n, u, w)
           /\ outName(m, t, w) => outName(n, u, w)
  BY DEF Grows, outWork, outName

(* What a device holds stays out. *)
LEMMA HoldsGrown ==
    ASSUME NEW m, NEW t, NEW n, NEW u, Grows(m, t, n, u),
           NEW held \in Mirror, Holds(held, m, t)
    PROVE  Holds(held, n, u)
  <1>1. ASSUME NEW w \in Work, held.shown[w] # NoRow
        PROVE  /\ outWork(n, u, w)
               /\ held.shown[w].chapter # NoChapter => out(n, u, held.shown[w].chapter)
    <2>1. held.shown[w].chapter \in View \cup {NoChapter}
      BY <1>1 DEF Mirror, Seen
    <2>2. QED
      BY <1>1, <2>1, GrownNames DEF Holds, Grows
  <1>2. held.done \subseteq Work /\ held.works \subseteq Work
    BY DEF Mirror
  <1>3. QED
    BY <1>1, <1>2, GrownNames DEF Holds

(* Time passes. *)
LEMMA LaterGrows ==
    ASSUME NEW m \in May, NEW t \in Nat
    PROVE  Grows(m, t, m, t + 1)
  <1>1. ASSUME NEW I \in SUBSET Nat, NEW i \in I, i <= t PROVE i <= t + 1
    BY <1>1, SMT
  <1>2. (\A v \in View : m.view[v] \in SUBSET Nat) /\ (\A w \in Work : m.done[w] \in SUBSET Nat)
    BY DEF May
  <1>3. QED
    BY <1>1, <1>2 DEF Grows, out, outDone

(* What is kept now is kept an instant later. *)
LEMMA LaterKeeps ==
    ASSUME NEW m \in May, NEW t \in Nat, NEW d \in DB, Keeps(d, m, t)
    PROVE  Keeps(d, m, t + 1)
  <1> SUFFICES ASSUME NEW w \in Work
               PROVE  /\ d.shown[w] # NoRow => RowKeeps(d.shown[w], m, t + 1, w)
                      /\ d.done[w] # NoRow => EventKeeps(d.done[w], m, t + 1, w)
                      /\ d.works[w] > 0 => outName(m, t + 1, w)
    BY DEF Keeps
  <1>1. Grows(m, t, m, t + 1)
    BY LaterGrows
  <1>2. ASSUME d.shown[w] # NoRow PROVE d.shown[w].chapter \in View \cup {NoChapter}
    BY <1>2 DEF DB, Row
  <1>3. QED
    BY <1>1, <1>2, GrownNames DEF Keeps, RowKeeps, EventKeeps, Grows

(* What comes due is out. *)
LEMMA PublishedKeeps ==
    ASSUME NEW m \in May, NEW t \in Nat, NEW d \in DB, Keeps(d, m, t)
    PROVE  publishDue(d, t) \in DB /\ Keeps(publishDue(d, t), m, t)
  <1> DEFINE e == publishDue(d, t)
  <1>1. ASSUME NEW I \in SUBSET Nat, NEW i \in I, NEW s \in Nat, i <= s, s <= t PROVE i <= t
    BY <1>1, SMT
  <1>2. ASSUME NEW w \in Work, isDue(d.shown[w], t)
        PROVE  /\ d.shown[w] \in Row /\ d.shown[w].chapter \in View
               /\ m.work[d.shown[w].chapter] = w
               /\ out(m, t, d.shown[w].chapter) /\ outWork(m, t, w)
    <2> DEFINE row == d.shown[w]
    <2>1. row \in Row /\ row # NoRow /\ row.social > 0 /\ row.social <= t
      BY <1>2 DEF isDue, DB
    <2>2. row.social \in Nat
      BY <2>1, SMT DEF Row, Never
    <2>3. RowKeeps(row, m, t, w)
      BY <2>1 DEF Keeps
    <2>4. row.chapter \in View /\ m.work[row.chapter] = w
      BY <2>1, <2>3 DEF RowKeeps, Row
    <2>5. m.view[row.chapter] \in SUBSET Nat
      BY <2>4 DEF May
    <2>6. out(m, t, row.chapter)
      BY <1>1, <2>1, <2>2, <2>3, <2>5 DEF RowKeeps, out
    <2>7. QED
      BY <2>1, <2>4, <2>6 DEF outWork
  <1>3. ASSUME NEW w \in Work, isDue(d.done[w], t) PROVE outDone(m, t, w)
    <2> DEFINE event == d.done[w]
    <2>1. event \in Event /\ event # NoRow /\ event.social > 0 /\ event.social <= t
      BY <1>3 DEF isDue, DB
    <2>2. event.social \in Nat
      BY <2>1, SMT DEF Event, Never
    <2>3. EventKeeps(event, m, t, w) /\ m.done[w] \in SUBSET Nat
      BY <2>1 DEF Keeps, May
    <2>4. QED
      BY <1>1, <2>1, <2>2, <2>3 DEF EventKeeps, outDone
  <1>4. e \in DB
    BY PublishDueParts
  <1>5. ASSUME NEW w \in Work PROVE e.shown[w] # NoRow => RowKeeps(e.shown[w], m, t, w)
    <2>1. CASE e.shown[w] = d.shown[w]
      BY <2>1 DEF Keeps
    <2>2. CASE /\ isDue(d.shown[w], t)
               /\ e.shown[w] = [d.shown[w] EXCEPT !.social = Public, !.published = TRUE,
                                                  !.rev = d.rev + 1]
      <3>1. d.rev + 1 \in Nat
        BY SMT DEF DB
      <3> DEFINE row == d.shown[w]
                 new == [row EXCEPT !.social = Public, !.published = TRUE, !.rev = d.rev + 1]
      <3> HIDE DEF e
      <3>2. /\ e.shown[w].social = Public /\ e.shown[w].published
            /\ e.shown[w].chapter = d.shown[w].chapter
        <4>1. row \in Row
          BY <1>2, <2>2
        <4>2. e.shown[w] = new
          BY <2>2
        <4> HIDE DEF row
        <4>3. new.social = Public /\ new.published /\ new.chapter = row.chapter
          BY <3>1, <4>1, OutParts
        <4> HIDE DEF new
        <4>4. QED
          BY <4>2, <4>3 DEF row
      <3>3. Public # Never /\ ~(Public > 0) /\ NoChapter \notin View
        BY SMT DEF Public, Never, View, NoChapter
      <3>4. QED
        BY <1>2, <2>2, <3>2, <3>3 DEF RowKeeps
    <2>3. QED
      BY <2>1, <2>2, PublishDueParts
  <1>6. ASSUME NEW w \in Work PROVE e.done[w] # NoRow => EventKeeps(e.done[w], m, t, w)
    <2>1. CASE e.done[w] = d.done[w]
      BY <2>1 DEF Keeps
    <2>2. CASE isDue(d.done[w], t) /\ e.done[w] = [social |-> Public, rev |-> d.rev + 1]
      <3>1. e.done[w].social = Public /\ ~(Public > 0)
        BY <2>2, SMT DEF Public
      <3>2. QED
        BY <1>3, <2>2, <3>1 DEF EventKeeps
    <2>3. QED
      BY <2>1, <2>2, PublishDueParts
  <1>7. ASSUME NEW w \in Work PROVE e.works[w] > 0 => outName(m, t, w)
    BY <1>2, PublishDueParts DEF Keeps, outName
  <1>8. QED
    BY <1>4, <1>5, <1>6, <1>7 DEF Keeps

(* What a device is sent is out. *)
LEMMA ReceivedHolds ==
    ASSUME NEW m \in May, NEW t \in Nat, NEW d \in DB, Keeps(d, m, t),
           NEW held \in Mirror, Holds(held, m, t), NEW since \in Nat
    PROVE  Holds(received(d, held, since), m, t) /\ Holds(purged(received(d, held, since)), m, t)
  <1> DEFINE e == received(d, held, since)
  <1>1. ASSUME NEW w \in Work, mayCarry(d, w)
        PROVE  /\ outWork(m, t, w)
               /\ carried(d.shown[w]).chapter # NoChapter => out(m, t, carried(d.shown[w]).chapter)
    <2>1. RowKeeps(d.shown[w], m, t, w) /\ d.shown[w].social = Public
      BY <1>1 DEF mayCarry, Keeps
    <2>2. carried(d.shown[w]).chapter = d.shown[w].chapter
      BY DEF carried
    <2>3. QED
      BY <2>1, <2>2 DEF RowKeeps
  <1>2. ASSUME NEW w \in Work
        PROVE  e.shown[w] = IF mayCarry(d, w) /\ d.shown[w].rev > since
                            THEN carried(d.shown[w]) ELSE held.shown[w]
    BY DEF received
  <1>3. \A w \in Work : e.shown[w] # NoRow =>
           /\ outWork(m, t, w)
           /\ e.shown[w].chapter # NoChapter => out(m, t, e.shown[w].chapter)
    <2> HIDE DEF e
    <2>1. QED
      BY <1>1, <1>2 DEF Holds
  <1>4. \A w \in e.done : outDone(m, t, w)
    <2>1. ASSUME NEW w \in e.done
          PROVE  w \in held.done \/ (w \in Work /\ d.done[w] # NoRow /\ d.done[w].social = Public)
      BY DEF received
    <2> HIDE DEF e
    <2>2. QED
      BY <2>1 DEF Holds, Keeps, EventKeeps
  <1>5. \A w \in e.works : outName(m, t, w)
    <2>1. ASSUME NEW w \in e.works
          PROVE  w \in held.works \/ (w \in Work /\ d.works[w] > since)
      BY DEF received
    <2>2. ASSUME NEW w \in Work, d.works[w] > since PROVE d.works[w] > 0
      BY <2>2, SMT DEF DB
    <2> HIDE DEF e
    <2>3. QED
      BY <2>1, <2>2 DEF Holds, Keeps
  <1> HIDE DEF e
  <1>6. Holds(e, m, t)
    BY <1>3, <1>4, <1>5 DEF Holds
  <1>7. purged(e).done = e.done /\ purged(e).works = e.works
        /\ \A w \in Work : purged(e).shown[w] \in {e.shown[w], NoRow}
    <2>1. e \in Mirror
      BY ReceivedType DEF e
    <2>2. QED
      BY <2>1, SMT DEF purged, Mirror
  <1>8. Holds(purged(e), m, t)
    BY <1>6, <1>7 DEF Holds
  <1>9. QED
    BY <1>6, <1>8 DEF e

-------------------------------------------------------------------------------
(* What the operations make of what is kept.                                 *)

(* A view drawn back to the instants that have passed is out as before.      *)
LEMMA PastParts ==
    ASSUME NEW I \in SUBSET Nat
    PROVE  past(I) \in SUBSET Nat /\ past(I) \subseteq I
           /\ ((\E i \in past(I) : i <= now) <=> (\E i \in I : i <= now))
  BY DEF past

(* The view v of work w is made: record n follows m.                         *)
Makes(m, n, d, w, v, t) ==
    /\ \A x \in View : x # v => n.view[x] = m.view[x] /\ n.work[x] = m.work[x]
    /\ m.view[v] = {} /\ m.work[v] = NoRow /\ n.work[v] = w
    /\ n.done = m.done
    /\ m.open \subseteq n.open
    /\ ~hides(d) => w \in n.open
    /\ d.settings.showRecentViews =>
           \E i \in n.view[v] : i <= IF hides(d) THEN t + Grace ELSE t

(* Nothing that was out is lost by it.                                       *)
LEMMA MadeGrows ==
    ASSUME NEW m \in May, NEW n \in May, NEW d \in DB, NEW w \in Work, NEW v \in View,
           NEW t \in Nat, Makes(m, n, d, w, v, t)
    PROVE  Grows(m, t, n, t)
  BY DEF Makes, Grows, out, outDone

(* The row a view leaves: its chapter, its hour and who may have seen it.    *)
LEMMA ShownViewParts ==
    ASSUME NEW d \in DB, NEW w \in Work, NEW v \in View, NEW at \in Nat, NEW t \in Nat,
           NEW r \in Nat
    PROVE  LET e == shownView(d, w, v, at, t, r) IN
           /\ e.chapter = v
           /\ e.social = publication(d, t)
           /\ e.published => ~hides(d) \/ (d.shown[w] # NoRow /\ d.shown[w].published)
           /\ ~hides(d) => e.published
  <1>1. CASE d.shown[w] = NoRow
    BY <1>1 DEF shownView
  <1>2. CASE d.shown[w] # NoRow
    BY <1>2 DEF shownView
  <1>3. QED
    BY <1>1, <1>2

(* A view keeps what must be kept.                                           *)
LEMMA AddedKeeps ==
    ASSUME NEW m \in May, NEW n \in May, NEW d \in DB, NEW w \in Work, NEW v \in View,
           NEW at \in Nat, NEW t \in Nat, NEW r \in Nat,
           Keeps(d, m, t), Makes(m, n, d, w, v, t)
    PROVE  Keeps(addView(d, w, v, at, t, r), n, t)
  <1> DEFINE e == addView(d, w, v, at, t, r)
             new == shownView(d, w, v, at, t, r)
  <1>1. Grows(m, t, n, t)
    BY MadeGrows
  <1>2. ASSUME NEW x \in Work, d.shown[x] # NoRow PROVE RowKeeps(d.shown[x], n, t, x)
    <2> DEFINE row == d.shown[x]
    <2>1. row.chapter \in View \cup {NoChapter}
      BY <1>2 DEF DB, Row
    <2>2. RowKeeps(row, m, t, x)
      BY <1>2 DEF Keeps
    <2>3. row.chapter # NoChapter => row.chapter # v
      BY <2>2, SocialAssumption DEF RowKeeps, Makes
    <2>4. row.chapter # NoChapter => /\ n.view[row.chapter] = m.view[row.chapter]
                                     /\ n.work[row.chapter] = m.work[row.chapter]
      BY <2>1, <2>3 DEF Makes
    <2>5. outWork(m, t, x) => outWork(n, t, x)
      BY <1>1, GrownNames
    <2> HIDE DEF row
    <2>6. RowKeeps(row, n, t, x)
      BY <2>2, <2>4, <2>5 DEF RowKeeps, out
    <2>7. QED
      BY <2>6 DEF row
  <1>3. ASSUME d.settings.showRecentViews PROVE RowKeeps(new, n, t, w)
    <2>1. PICK i \in n.view[v] : i <= IF hides(d) THEN t + Grace ELSE t
      BY <1>3 DEF Makes
    <2>2. /\ new.chapter = v /\ new.social = publication(d, t)
          /\ new.published => ~hides(d) \/ (d.shown[w] # NoRow /\ d.shown[w].published)
          /\ ~hides(d) => new.published
      BY ShownViewParts
    <2>3. d.shown[w] # NoRow /\ d.shown[w].published => outWork(n, t, w)
      BY <1>2 DEF RowKeeps
    <2>4. v # NoChapter /\ n.work[v] = w
      BY SMT DEF View, NoChapter, Makes
    <2> HIDE DEF new
    <2>5. CASE hides(d)
      <3>1. publication(d, t) = t + Grace /\ publication(d, t) > 0
            /\ publication(d, t) # Public /\ publication(d, t) # Never
        BY <2>5, SocialAssumption, SMT DEF publication, Public, Never
      <3>2. \E j \in n.view[v] : j <= new.social
        BY <2>1, <2>2, <2>5, <3>1
      <3>3. QED
        BY <2>2, <2>3, <2>4, <2>5, <3>1, <3>2 DEF RowKeeps
    <2>6. CASE ~hides(d)
      <3>1. publication(d, t) = Public /\ Public # Never /\ ~(Public > 0)
        BY <2>6, SMT DEF publication, Public, Never
      <3>2. out(n, t, v)
        BY <2>1, <2>6 DEF out
      <3>3. outWork(n, t, w)
        BY <2>4, <3>2 DEF outWork
      <3>4. QED
        BY <2>2, <2>4, <2>6, <3>1, <3>2, <3>3 DEF RowKeeps
    <2>7. QED
      BY <2>5, <2>6
  <1>4. /\ e.done = d.done
        /\ e.shown = [d.shown EXCEPT ![w] = IF d.settings.showRecentViews THEN new ELSE @]
        /\ e.works = IF hides(d) THEN d.works ELSE [d.works EXCEPT ![w] = r]
    BY AddViewParts
  <1> HIDE DEF e, new
  <1> SUFFICES ASSUME NEW x \in Work
               PROVE  /\ e.shown[x] # NoRow => RowKeeps(e.shown[x], n, t, x)
                      /\ e.done[x] # NoRow => EventKeeps(e.done[x], n, t, x)
                      /\ e.works[x] > 0 => outName(n, t, x)
    BY DEF Keeps, e
  <1>5. e.shown[x] = d.shown[x] \/ (x = w /\ d.settings.showRecentViews /\ e.shown[x] = new)
    BY <1>4 DEF DB
  <1>6. e.shown[x] # NoRow => RowKeeps(e.shown[x], n, t, x)
    BY <1>2, <1>3, <1>5
  <1>7. e.done[x] # NoRow => EventKeeps(e.done[x], n, t, x)
    BY <1>4 DEF Keeps, EventKeeps, Makes, outDone
  <1>8. e.works[x] = d.works[x] \/ (x = w /\ ~hides(d))
    BY <1>4 DEF DB
  <1>9. e.works[x] > 0 => outName(n, t, x)
    BY <1>1, <1>8, GrownNames DEF Keeps, Makes, outName
  <1>10. QED
    BY <1>6, <1>7, <1>9

(* The removal of work w: n keeps of w what has passed.                      *)
Takes(m, n, w) ==
    /\ n.work = m.work /\ n.open = m.open
    /\ n.view = [v \in View |-> IF m.work[v] = w THEN past(m.view[v]) ELSE m.view[v]]
    /\ n.done = [m.done EXCEPT ![w] = past(@)]

(* Nothing that was out is lost by it.                                       *)
LEMMA TakenGrows ==
    ASSUME NEW m \in May, NEW n \in May, NEW w \in Work, Takes(m, n, w)
    PROVE  Grows(m, now, n, now)
  <1>1. \A v \in View : n.view[v] = m.view[v] \/ n.view[v] = past(m.view[v])
    BY DEF Takes
  <1>2. \A x \in Work : n.done[x] = m.done[x] \/ n.done[x] = past(m.done[x])
    BY DEF Takes, May
  <1>3. /\ \A v \in View : m.view[v] \in SUBSET Nat
        /\ \A x \in Work : m.done[x] \in SUBSET Nat
    BY DEF May
  <1>4. QED
    BY <1>1, <1>2, <1>3, PastParts DEF Takes, Grows, out, outDone

(* A removal keeps what must be kept: what was not out never will be.        *)
LEMMA RemovedKeeps ==
    ASSUME NEW m \in May, NEW n \in May, NEW d \in DB, NEW w \in Work, NEW r \in Nat,
           now \in Nat, Keeps(d, m, now), Takes(m, n, w)
    PROVE  Keeps(removeView(d, w, now, r), n, now)
  <1> DEFINE e == removeView(d, w, now, r)
  <1>1. Grows(m, now, n, now)
    BY TakenGrows
  <1>2. /\ e.works = d.works
        /\ e.shown = [d.shown EXCEPT ![w] = IF @ = NoRow THEN @ ELSE withdrawnRow(@, now, r)]
        /\ e.done = [d.done EXCEPT ![w] = IF @ # NoRow /\ @.social > 0
                                          THEN [social |-> Never, rev |-> r] ELSE @]
    BY RemoveViewParts
  <1>3. Public # Never /\ ~(Public > 0) /\ ~(Never > 0)
    BY SMT DEF Public, Never
  <1> HIDE DEF e
  <1> SUFFICES ASSUME NEW x \in Work
               PROVE  /\ e.shown[x] # NoRow => RowKeeps(e.shown[x], n, now, x)
                      /\ e.done[x] # NoRow => EventKeeps(e.done[x], n, now, x)
                      /\ e.works[x] > 0 => outName(n, now, x)
    BY DEF Keeps, e
  <1>4. ASSUME e.shown[x] # NoRow, x # w PROVE RowKeeps(e.shown[x], n, now, x)
    <2> DEFINE row == d.shown[x]
    <2>1. e.shown[x] = row /\ row # NoRow /\ row.chapter \in View \cup {NoChapter}
      BY <1>2, <1>4 DEF DB, Row
    <2>2. RowKeeps(row, m, now, x)
      BY <2>1 DEF Keeps
    <2>3. row.chapter # NoChapter => /\ n.view[row.chapter] = m.view[row.chapter]
                                     /\ n.work[row.chapter] = m.work[row.chapter]
      BY <1>4, <2>1, <2>2 DEF RowKeeps, Takes
    <2>4. outWork(m, now, x) => outWork(n, now, x)
      BY <1>1, GrownNames
    <2> HIDE DEF row
    <2>5. QED
      BY <2>1, <2>2, <2>3, <2>4 DEF RowKeeps, out
  <1>5. ASSUME e.shown[w] # NoRow PROVE RowKeeps(e.shown[w], n, now, w)
    <2> DEFINE row == d.shown[w]
               new == withdrawnRow(row, now, r)
    <2>1. e.shown[w] = new /\ row # NoRow /\ row \in Row
      BY <1>2, <1>5 DEF DB
    <2>2. RowKeeps(row, m, now, w)
      BY <2>1 DEF Keeps
    <2> HIDE DEF row
    <2>3. /\ new.published = row.published
          /\ new.social = IF row.published THEN Public ELSE Never
          /\ new.chapter = IF row.social # Public THEN NoChapter ELSE row.chapter
      BY <2>1, WithdrawnParts, ZenonT(30)
    <2>4. row.chapter \in View \cup {NoChapter}
      BY <2>1 DEF Row
    <2>5. row.social = Public /\ row.chapter # NoChapter =>
              out(n, now, row.chapter) /\ n.work[row.chapter] = w
      BY <1>1, <2>2, <2>4 DEF RowKeeps, Grows
    <2>6. outWork(m, now, w) => outWork(n, now, w)
      BY <1>1, GrownNames
    <2> HIDE DEF new
    <2>7. RowKeeps(new, n, now, w)
      BY <1>3, <2>2, <2>3, <2>5, <2>6 DEF RowKeeps
    <2>8. QED
      BY <2>1, <2>7
  <1>6. ASSUME e.done[x] # NoRow PROVE EventKeeps(e.done[x], n, now, x)
    <2> DEFINE event == d.done[x]
    <2>1. outDone(m, now, x) => outDone(n, now, x)
      BY <1>1, GrownNames
    <2>2. event # NoRow => EventKeeps(event, m, now, x)
      BY DEF Keeps
    <2>3. CASE e.done[x] = [social |-> Never, rev |-> r]
      <3>1. e.done[x].social = Never
        BY <2>3
      <3>2. QED
        BY <1>3, <3>1 DEF EventKeeps
    <2>4. CASE e.done[x] = event /\ (x = w => ~(event.social > 0))
      <3>1. x # w => n.done[x] = m.done[x]
        BY DEF Takes, May
      <3> HIDE DEF event
      <3>2. EventKeeps(event, n, now, x)
        BY <1>6, <2>1, <2>2, <2>4, <3>1 DEF EventKeeps
      <3>3. QED
        BY <2>4, <3>2
    <2>5. QED
      BY <1>2, <1>6, <2>3, <2>4 DEF DB
  <1>7. e.works[x] > 0 => outName(n, now, x)
    BY <1>1, <1>2, GrownNames DEF Keeps
  <1>8. QED
    BY <1>4, <1>5, <1>6, <1>7

(* The completion of a chapter of work w.                                    *)
Completes(m, n, d, w, t) ==
    /\ n.view = m.view /\ n.work = m.work
    /\ m.open \subseteq n.open
    /\ ~hides(d) => w \in n.open
    /\ \A x \in Work : m.done[x] \subseteq n.done[x]
    /\ d.settings.shareCompletions =>
           (IF hides(d) THEN t + Grace ELSE t) \in n.done[w]

(* A completion keeps what must be kept.                                     *)
LEMMA CompletedKeeps ==
    ASSUME NEW m \in May, NEW n \in May, NEW d \in DB, NEW w \in Work, NEW r \in Nat,
           NEW t \in Nat, Keeps(d, m, t), Completes(m, n, d, w, t)
    PROVE  /\ Grows(m, t, n, t)
           /\ Keeps(complete(d, w, t, r), n, t)
  <1> DEFINE e == complete(d, w, t, r)
             new == [social |-> publication(d, t), rev |-> r]
  <1>1. Grows(m, t, n, t)
    BY DEF Grows, Completes, out, outDone
  <1>2. /\ e.shown = d.shown
        /\ e.works = IF hides(d) THEN d.works ELSE [d.works EXCEPT ![w] = r]
        /\ e.done = [d.done EXCEPT ![w] = IF @ = NoRow /\ d.settings.shareCompletions
                                          THEN new ELSE @]
    BY CompleteParts
  <1>3. ASSUME d.settings.shareCompletions PROVE EventKeeps(new, n, t, w)
    <2>1. new.social = publication(d, t)
      OBVIOUS
    <2> HIDE DEF new
    <2>2. CASE hides(d)
      <3>1. /\ publication(d, t) = t + Grace /\ publication(d, t) # Public
            /\ publication(d, t) <= publication(d, t)
        BY <2>2, SocialAssumption, SMT DEF publication, Public
      <3>2. publication(d, t) \in n.done[w]
        BY <1>3, <2>2, <3>1 DEF Completes
      <3>3. QED
        BY <2>1, <3>1, <3>2 DEF EventKeeps
    <2>3. CASE ~hides(d)
      <3>1. publication(d, t) = Public /\ ~(Public > 0) /\ t <= t
        BY <2>3, SMT DEF publication, Public
      <3>2. t \in n.done[w]
        BY <1>3, <2>3 DEF Completes
      <3>3. QED
        BY <2>1, <3>1, <3>2 DEF EventKeeps, outDone
    <2>4. QED
      BY <2>2, <2>3
  <1> HIDE DEF e, new
  <1>4. ASSUME NEW x \in Work
        PROVE  /\ e.shown[x] # NoRow => RowKeeps(e.shown[x], n, t, x)
               /\ e.done[x] # NoRow => EventKeeps(e.done[x], n, t, x)
               /\ e.works[x] > 0 => outName(n, t, x)
    <2>1. e.shown[x] # NoRow => RowKeeps(e.shown[x], n, t, x)
      BY <1>2 DEF Keeps, RowKeeps, Completes, out, outWork
    <2>2. d.done[x] # NoRow => EventKeeps(d.done[x], n, t, x)
      BY DEF Keeps, EventKeeps, Completes, outDone
    <2>3. e.done[x] = d.done[x] \/ (x = w /\ d.settings.shareCompletions /\ e.done[x] = new)
      BY <1>2 DEF DB
    <2>4. e.works[x] = d.works[x] \/ (x = w /\ ~hides(d))
      BY <1>2 DEF DB
    <2>5. e.works[x] > 0 => outName(n, t, x)
      BY <1>1, <2>4, GrownNames DEF Keeps, Completes, outName
    <2>6. QED
      BY <1>3, <2>1, <2>2, <2>3, <2>5
  <1>5. QED
    BY <1>1, <1>4 DEF Keeps, e

(* What a switch makes of the record: with the history withdrawn, nothing    *)
(* that has not passed is left of the views.                                 *)
LEMMA AfterPatchParts ==
    ASSUME NEW m \in May, NEW field \in Switch, NEW on \in BOOLEAN
    PROVE  /\ afterPatch(m, field, on) \in May
           /\ afterPatch(m, field, on).work = m.work
           /\ afterPatch(m, field, on).done = m.done
           /\ afterPatch(m, field, on).open = m.open
           /\ afterPatch(m, field, on).view =
                  IF field = "showRecentViews" /\ ~on
                  THEN [v \in View |-> past(m.view[v])] ELSE m.view
  <1> DEFINE n == afterPatch(m, field, on)
             withdraws == field = "showRecentViews" /\ ~on
             view == [v \in View |-> past(m.view[v])]
  <1>1. view \in [View -> SUBSET Nat]
    BY DEF May, past
  <1>2. n = IF withdraws THEN [m EXCEPT !.view = view] ELSE m
    BY DEF afterPatch
  <1> HIDE DEF n, view, withdraws
  <1>3. /\ n \in May /\ n.work = m.work /\ n.done = m.done /\ n.open = m.open
        /\ n.view = IF withdraws THEN view ELSE m.view
    <2>1. CASE withdraws
      BY <1>1, <1>2, <2>1, SMT DEF May
    <2>2. CASE ~withdraws
      BY <1>2, <2>2
    <2>3. QED
      BY <2>1, <2>2
  <1>4. QED
    BY <1>3 DEF n, view, withdraws

(* A switch is set: what is not out yet is taken back with the history.      *)
LEMMA PatchedKeeps ==
    ASSUME NEW m \in May, NEW d \in DB, NEW field \in Switch, NEW on \in BOOLEAN,
           NEW r \in Nat, Keeps(d, m, now)
    PROVE  LET n == afterPatch(m, field, on) IN
           /\ n \in May
           /\ n.work = m.work /\ n.done = m.done /\ n.open = m.open
           /\ n.view = IF field = "showRecentViews" /\ ~on
                       THEN [v \in View |-> past(m.view[v])] ELSE m.view
           /\ Grows(m, now, n, now)
           /\ Keeps(patch(d, field, on, r), n, now)
  <1> DEFINE n == afterPatch(m, field, on)
             e == patch(d, field, on, r)
             withdraws == field = "showRecentViews" /\ ~on
             view == [v \in View |-> past(m.view[v])]
  <1>2. n = IF withdraws THEN [m EXCEPT !.view = view] ELSE m
    BY DEF afterPatch
  <1>3. /\ n \in May /\ n.work = m.work /\ n.done = m.done /\ n.open = m.open
        /\ n.view = IF withdraws THEN view ELSE m.view
    BY AfterPatchParts
  <1>4. \A v \in View : m.view[v] \in SUBSET Nat
    BY DEF May
  <1>5. \A v \in View : n.view[v] = m.view[v] \/ n.view[v] = past(m.view[v])
    BY <1>3
  <1>6. Grows(m, now, n, now)
    <2> HIDE DEF n
    <2>1. QED
      BY <1>3, <1>4, <1>5, PastParts DEF Grows, out, outDone
  <1>7. /\ e.works = d.works /\ e.done = d.done
        /\ e.shown = IF withdraws THEN [w \in Work |-> NoRow] ELSE d.shown
    <2>1. /\ patch(d, field, on, r).works = d.works
          /\ patch(d, field, on, r).done = d.done
          /\ patch(d, field, on, r).shown = IF field = "showRecentViews" /\ ~on
                                           THEN [w \in Work |-> NoRow] ELSE d.shown
      BY PatchParts
    <2>2. QED
      BY <2>1
  <1>8. ASSUME NEW x \in Work
        PROVE  /\ e.shown[x] # NoRow => RowKeeps(e.shown[x], n, now, x)
               /\ e.done[x] # NoRow => EventKeeps(e.done[x], n, now, x)
               /\ e.works[x] > 0 => outName(n, now, x)
    <2>1. e.shown[x] # NoRow => ~withdraws /\ e.shown[x] = d.shown[x]
      BY <1>7
    <2>2. ~withdraws => n = m
      BY <1>2
    <2>3. (d.done[x] # NoRow => EventKeeps(d.done[x], n, now, x))
      BY <1>3 DEF Keeps, EventKeeps, outDone
    <2>4. d.works[x] > 0 => outName(n, now, x)
      BY <1>6, GrownNames DEF Keeps
    <2> HIDE DEF n, e, withdraws
    <2>5. QED
      BY <1>7, <2>1, <2>2, <2>3, <2>4 DEF Keeps
  <1> HIDE DEF e
  <1>9. Keeps(e, n, now)
    BY <1>8 DEF Keeps
  <1>10. QED
    BY <1>3, <1>6, <1>9 DEF e

-------------------------------------------------------------------------------
(* The steps.                                                                *)

(* The record after a view: the new one is entitled, the others stay.        *)
LEMMA ViewMadeParts ==
    ASSUME now \in Nat, may \in May, NEW s \in Settings, NEW w \in Work, NEW v \in View, NEW at
    PROVE  /\ viewMade(s, w, v, at) \in May
           /\ viewMade(s, w, v, at).work[v] = w
           /\ s.showRecentViews /\ ~overtaken(w, at) => viewMade(s, w, v, at).view[v] = entitled(s)
           /\ \A x \in View : x # v => /\ viewMade(s, w, v, at).view[x] = may.view[x]
                                      /\ viewMade(s, w, v, at).work[x] = may.work[x]
           /\ may.open \subseteq viewMade(s, w, v, at).open
           /\ s.shareCurrent => w \in viewMade(s, w, v, at).open
           /\ viewMade(s, w, v, at).done = may.done
  <1> DEFINE work == [may.work EXCEPT ![v] = w]
             view == [may.view EXCEPT ![v] = IF s.showRecentViews /\ ~overtaken(w, at)
                                             THEN entitled(s) ELSE {}]
             open == IF s.shareCurrent THEN may.open \cup {w} ELSE may.open
             m1 == [may EXCEPT !.work = work]
             m2 == [m1 EXCEPT !.view = view]
             e == viewMade(s, w, v, at)
  <1>1. entitled(s) \in SUBSET Nat
    BY SocialAssumption, SMT DEF entitled
  <1>2. /\ work \in [View -> Work \cup {NoRow}] /\ view \in [View -> SUBSET Nat]
        /\ open \in SUBSET Work
    BY <1>1 DEF May
  <1>3. e = [m2 EXCEPT !.open = open]
    BY DEF viewMade, May
  <1> HIDE DEF work, view, open, e
  <1>4. m1 \in May /\ m1.work = work /\ m1.done = may.done
    BY <1>2, SMT DEF May
  <1> HIDE DEF m1
  <1>5. m2 \in May /\ m2.work = work /\ m2.view = view /\ m2.done = may.done
    BY <1>2, <1>4, SMT DEF May
  <1> HIDE DEF m2
  <1>6. e \in May /\ e.work = work /\ e.view = view /\ e.open = open /\ e.done = may.done
    BY <1>2, <1>3, <1>5, SMT DEF May
  <1>7. may.view \in [View -> SUBSET Nat] /\ may.work \in [View -> Work \cup {NoRow}]
    BY DEF May
  <1>8. /\ work[v] = w
        /\ s.showRecentViews /\ ~overtaken(w, at) => view[v] = entitled(s)
        /\ \A x \in View : x # v => view[x] = may.view[x] /\ work[x] = may.work[x]
    BY <1>7 DEF work, view
  <1>9. QED
    BY <1>6, <1>8 DEF open, e

(* Initially nothing is kept, held or entitled.                              *)
LEMMA InitIInv == Init => IInv
  <1> SUFFICES ASSUME Init PROVE IInv
    OBVIOUS
  <1>1. Empty.settings \in Settings
    BY SMT DEF Empty, Settings
  <1>2. Empty \in DB
    BY <1>1, SMT DEF Empty, DB
  <1>3. Blank \in Mirror
    BY SMT DEF Blank, Mirror
  <1>4. may \in May
    BY SMT DEF Init, May
  <1>5. TypeOK
    BY <1>2, <1>3, <1>4, SocialAssumption, SMT DEF Init, TypeOK
  <1>6. Unmade(may, views)
    BY DEF Init, Unmade
  <1>7. \A w \in Work : Empty.shown[w] = NoRow /\ Empty.done[w] = NoRow /\ ~(Empty.works[w] > 0)
    BY SMT DEF Empty
  <1>8. Keeps(db, may, now)
    BY <1>7 DEF Init, Keeps
  <1>9. (\A w \in Work : Blank.shown[w] = NoRow) /\ Blank.done = {} /\ Blank.works = {}
    BY DEF Blank
  <1>10. \A f \in Device : Holds(mirror[f], may, now)
    BY <1>9 DEF Init, Holds
  <1>11. QED
    BY <1>5, <1>6, <1>8, <1>10 DEF IInv

(* A step that leaves the devices alone and takes nothing back that is out.  *)
LEMMA MirrorsHold ==
    ASSUME IInv, UNCHANGED mirror, Grows(may, now, may', now')
    PROVE  \A f \in Device : Holds(mirror'[f], may', now')
  BY HoldsGrown DEF IInv, TypeOK

(* A view. *)
LEMMA AddViewStep ==
    ASSUME IInv, ~Overtaken, NEW w \in Work, NEW at \in 0..now, AddView(w, at)
    PROVE  IInv'
  <1> DEFINE v == views + 1
             n == viewMade(db.settings, w, v, at)
  <1>1. /\ now \in Nat /\ db \in DB /\ mirror \in [Device -> Mirror] /\ views \in 0..MaxViews
        /\ ops \in Nat /\ may \in May /\ db.settings \in Settings /\ at \in Nat
    BY SMT DEF IInv, TypeOK, DB
  <1>2. v \in View /\ v \in 0..MaxViews /\ db.rev + 1 \in Nat /\ ops + 1 \in Nat
    BY <1>1, SocialAssumption, SMT DEF AddView, View, DB
  <1>3. /\ n \in May
        /\ n.work[v] = w
        /\ db.settings.showRecentViews /\ ~overtaken(w, at) => n.view[v] = entitled(db.settings)
        /\ \A x \in View : x # v => n.view[x] = may.view[x] /\ n.work[x] = may.work[x]
        /\ may.open \subseteq n.open /\ (db.settings.shareCurrent => w \in n.open)
        /\ n.done = may.done
    <2> HIDE DEF v
    <2>1. now \in Nat /\ may \in May /\ db.settings \in Settings /\ v \in View
      BY <1>1, <1>2
    <2>2. QED
      BY <2>1, ViewMadeParts
  <1>4. may' = n /\ now' = now /\ views' = v /\ ops' = ops + 1 /\ mirror' = mirror
        /\ db' = addView(db, w, v, at, now, db.rev + 1) /\ ~overtaken(w, at)
    BY DEF AddView, Spend
  <1> HIDE DEF n
  <1>6. \A x \in View : x > v => x > views /\ x # v
    BY <1>1, <1>2, SMT DEF View
  <1>7. may.view[v] = {} /\ may.work[v] = NoRow
    <2>1. v > views
      BY <1>1, SMT
    <2>2. QED
      BY <1>2, <2>1 DEF IInv, Unmade
  <1>8. Makes(may, n, db, w, v, now)
    <2>2. ASSUME db.settings.showRecentViews
          PROVE  \E i \in n.view[v] : i <= IF hides(db) THEN now + Grace ELSE now
      <3>1. n.view[v] = entitled(db.settings)
        BY <1>3, <1>4, <2>2
      <3>2. now <= now /\ now + Grace <= now + Grace
        BY <1>1, SocialAssumption, SMT
      <3>3. QED
        BY <3>1, <3>2 DEF entitled, hides
    <2>3. QED
      BY <1>3, <1>7, <2>2 DEF Makes, hides
  <1>9. Keeps(db', may', now')
    BY <1>1, <1>2, <1>3, <1>4, <1>8, AddedKeeps DEF IInv
  <1>10. Grows(may, now, may', now')
    BY <1>1, <1>2, <1>3, <1>4, <1>8, MadeGrows
  <1>11. db' \in DB
    BY <1>1, <1>2, <1>4, AddViewParts
  <1>12. Unmade(may', views')
    BY <1>3, <1>4, <1>6 DEF IInv, Unmade
  <1>13. TypeOK'
    BY <1>1, <1>2, <1>3, <1>4, <1>11 DEF TypeOK
  <1>14. QED
    BY <1>4, <1>9, <1>10, <1>12, <1>13, MirrorsHold DEF IInv

(* A removal. *)
LEMMA RemoveViewStep ==
    ASSUME IInv, NEW w \in Work, RemoveView(w)
    PROVE  IInv'
  <1> DEFINE view == [v \in View |-> IF may.work[v] = w THEN past(may.view[v]) ELSE may.view[v]]
             done == [may.done EXCEPT ![w] = past(@)]
             m1 == [may EXCEPT !.view = view]
             n == [m1 EXCEPT !.done = done]
  <1>1. /\ now \in Nat /\ db \in DB /\ mirror \in [Device -> Mirror] /\ views \in 0..MaxViews
        /\ ops \in Nat /\ may \in May
    BY DEF IInv, TypeOK
  <1>2. /\ now' = now /\ views' = views /\ ops' = ops + 1 /\ mirror' = mirror
        /\ db' = removeView(db, w, now, db.rev + 1)
    BY DEF RemoveView, Spend
  <1>3. may' = n
    BY <1>1 DEF RemoveView, May
  <1>4. view \in [View -> SUBSET Nat] /\ done \in [Work -> SUBSET Nat]
    BY <1>1, PastParts DEF May
  <1>5. \A v \in View : may.view[v] = {} => view[v] = {}
    BY DEF past
  <1> HIDE DEF view, done
  <1>6. m1 \in May /\ m1.view = view /\ m1.work = may.work /\ m1.open = may.open
        /\ m1.done = may.done
    BY <1>1, <1>4, SMT DEF May
  <1> HIDE DEF m1
  <1>7. n \in May /\ n.view = view /\ n.work = may.work /\ n.open = may.open /\ n.done = done
    BY <1>4, <1>6, SMT DEF May
  <1> HIDE DEF n
  <1>8. Takes(may, n, w)
    BY <1>7 DEF Takes, view, done
  <1>9. db.rev + 1 \in Nat /\ ops + 1 \in Nat
    BY <1>1, SMT DEF DB
  <1>10. Keeps(db', may', now')
    BY <1>1, <1>2, <1>3, <1>7, <1>8, <1>9, RemovedKeeps DEF IInv
  <1>11. Grows(may, now, may', now')
    BY <1>1, <1>2, <1>3, <1>7, <1>8, TakenGrows
  <1>12. db' \in DB
    BY <1>1, <1>2, <1>9, RemoveViewParts
  <1>13. Unmade(may', views')
    BY <1>2, <1>3, <1>5, <1>7 DEF IInv, Unmade
  <1>14. TypeOK'
    BY <1>1, <1>2, <1>3, <1>7, <1>9, <1>12 DEF TypeOK
  <1>15. QED
    BY <1>2, <1>10, <1>11, <1>13, <1>14, MirrorsHold DEF IInv

(* A completion. *)
LEMMA CompleteStep ==
    ASSUME IInv, NEW w \in Work, Complete(w)
    PROVE  IInv'
  <1> DEFINE s == db.settings
             done == [may.done EXCEPT ![w] = IF s.shareCompletions THEN @ \cup entitled(s) ELSE @]
             open == IF s.shareCurrent THEN may.open \cup {w} ELSE may.open
             m1 == [may EXCEPT !.done = done]
             n == [m1 EXCEPT !.open = open]
  <1>1. /\ now \in Nat /\ db \in DB /\ mirror \in [Device -> Mirror] /\ views \in 0..MaxViews
        /\ ops \in Nat /\ may \in May
    BY DEF IInv, TypeOK
  <1>2. /\ now' = now /\ views' = views /\ ops' = ops + 1 /\ mirror' = mirror
        /\ db' = complete(db, w, now, db.rev + 1)
    BY DEF Complete, Spend
  <1>3. may' = n
    BY <1>1 DEF Complete, May
  <1>4. entitled(s) \in SUBSET Nat
    BY <1>1, SocialAssumption, SMT DEF entitled
  <1>5. done \in [Work -> SUBSET Nat] /\ open \in SUBSET Work
    BY <1>1, <1>4 DEF May
  <1>6. (\A x \in Work : may.done[x] \subseteq done[x])
        /\ (s.shareCompletions => entitled(s) \subseteq done[w])
        /\ may.open \subseteq open /\ (~hides(db) => w \in open)
    BY <1>1 DEF May, hides
  <1> HIDE DEF done, open
  <1>7. m1 \in May /\ m1.view = may.view /\ m1.work = may.work /\ m1.open = may.open
        /\ m1.done = done
    BY <1>1, <1>5, SMT DEF May
  <1> HIDE DEF m1
  <1>8. n \in May /\ n.view = may.view /\ n.work = may.work /\ n.open = open /\ n.done = done
    BY <1>5, <1>7, SMT DEF May
  <1> HIDE DEF n
  <1>9. Completes(may, n, db, w, now)
    BY <1>6, <1>8 DEF Completes, entitled, hides
  <1>10. db.rev + 1 \in Nat /\ ops + 1 \in Nat
    BY <1>1, SMT DEF DB
  <1>11. Grows(may, now, may', now') /\ Keeps(db', may', now')
    BY <1>1, <1>2, <1>3, <1>8, <1>9, <1>10, CompletedKeeps DEF IInv
  <1>12. db' \in DB
    BY <1>1, <1>2, <1>10, CompleteParts
  <1>13. Unmade(may', views')
    BY <1>2, <1>3, <1>8 DEF IInv, Unmade
  <1>14. TypeOK'
    BY <1>1, <1>2, <1>3, <1>8, <1>10, <1>12 DEF TypeOK
  <1>15. QED
    BY <1>2, <1>11, <1>13, <1>14, MirrorsHold DEF IInv

(* A switch. *)
LEMMA PatchStep ==
    ASSUME IInv, NEW field \in Switch, NEW on \in BOOLEAN, Patch(field, on)
    PROVE  IInv'
  <1> DEFINE n == afterPatch(may, field, on)
  <1>1. /\ now \in Nat /\ db \in DB /\ mirror \in [Device -> Mirror] /\ views \in 0..MaxViews
        /\ ops \in Nat /\ may \in May
    BY DEF IInv, TypeOK
  <1>2. /\ now' = now /\ views' = views /\ ops' = ops + 1 /\ mirror' = mirror
        /\ db' = patch(db, field, on, db.rev + 1) /\ may' = n
    BY DEF Patch, Spend
  <1>3. db.rev + 1 \in Nat /\ ops + 1 \in Nat
    BY <1>1, SMT DEF DB
  <1>4. /\ n \in May /\ n.work = may.work
        /\ n.view = IF field = "showRecentViews" /\ ~on
                    THEN [v \in View |-> past(may.view[v])] ELSE may.view
        /\ Grows(may, now, n, now)
        /\ Keeps(db', n, now)
    BY <1>1, <1>2, <1>3, PatchedKeeps DEF IInv
  <1> HIDE DEF n
  <1>5. \A v \in View : may.view[v] = {} => n.view[v] = {}
    BY <1>4 DEF past
  <1>6. db' \in DB
    BY <1>1, <1>2, <1>3, PatchParts
  <1>7. Unmade(may', views')
    BY <1>2, <1>4, <1>5 DEF IInv, Unmade
  <1>8. TypeOK'
    BY <1>1, <1>2, <1>3, <1>4, <1>6 DEF TypeOK
  <1>9. QED
    BY <1>2, <1>4, <1>7, <1>8, MirrorsHold DEF IInv

(* A view made before a switch is set is kept as one made after it: with the *)
(* history withdrawn it is not shown, with the current work hidden it waits. *)
LEMMA ViewThenPatchStep ==
    ASSUME IInv, ~OpensLate, NEW w \in Work, NEW field \in Switch, NEW on \in BOOLEAN,
           ViewThenPatch(w, field, on)
    PROVE  IInv'
  <1> DEFINE v == views + 1
             r == db.rev + 1
             patched == patch(db, field, on, r)
             made == viewMade(db.settings, w, v, now)
             m == afterPatch(may, field, on)
             n == afterPatch(made, field, on)
             withdraws == field = "showRecentViews"
  <1>1. /\ now \in Nat /\ db \in DB /\ mirror \in [Device -> Mirror] /\ views \in 0..MaxViews
        /\ ops \in Nat /\ may \in May /\ db.settings \in Settings
    BY DEF IInv, TypeOK, DB
  <1>2. v \in View /\ v \in 0..MaxViews /\ r \in Nat /\ ops + 1 \in Nat
    BY <1>1, SocialAssumption, SMT DEF ViewThenPatch, View, DB
  <1>3. /\ may' = n /\ now' = now /\ views' = v /\ ops' = ops + 1 /\ mirror' = mirror
        /\ db' = addView(patched, w, v, now, now, patched.rev + 1)
        /\ ~overtaken(w, now) /\ on = FALSE
    BY DEF ViewThenPatch, Spend
  <1>4. /\ made \in May
        /\ made.work[v] = w
        /\ db.settings.showRecentViews => made.view[v] = entitled(db.settings)
        /\ \A x \in View : x # v => made.view[x] = may.view[x] /\ made.work[x] = may.work[x]
        /\ may.open \subseteq made.open /\ (db.settings.shareCurrent => w \in made.open)
        /\ made.done = may.done
    <2> HIDE DEF v
    <2>1. now \in Nat /\ may \in May /\ db.settings \in Settings /\ v \in View
      BY <1>1, <1>2
    <2>2. QED
      BY <1>3, <2>1, ViewMadeParts
  <1>5. /\ m \in May /\ m.work = may.work /\ m.done = may.done /\ m.open = may.open
        /\ m.view = IF withdraws THEN [x \in View |-> past(may.view[x])] ELSE may.view
        /\ Grows(may, now, m, now)
        /\ Keeps(patched, m, now)
    BY <1>1, <1>2, <1>3, PatchedKeeps DEF IInv
  <1>6. /\ n \in May /\ n.work = made.work /\ n.done = made.done /\ n.open = made.open
        /\ n.view = IF withdraws THEN [x \in View |-> past(made.view[x])] ELSE made.view
    BY <1>3, <1>4, AfterPatchParts
  <1>7. /\ patched \in DB /\ patched.rev = r
        /\ \A switch \in Switch : patched.settings[switch] =
                                     IF switch = field THEN on ELSE db.settings[switch]
    BY <1>1, <1>2, PatchParts
  <1> HIDE DEF made, m, n, patched, v, r
  <1>8. may.view[v] = {} /\ may.work[v] = NoRow /\ \A x \in View : x > v => x > views /\ x # v
    <2>1. v > views /\ \A x \in View : x > v => x > views /\ x # v
      BY <1>1, SMT DEF v, View
    <2>2. QED
      BY <1>2, <2>1 DEF IInv, Unmade
  <1>9. ASSUME patched.settings.showRecentViews
        PROVE  ~withdraws /\ db.settings.showRecentViews
    BY <1>3, <1>7, <1>9 DEF Switch
  <1>10. ASSUME ~hides(patched) PROVE ~hides(db)
    BY <1>3, <1>7, <1>10 DEF Switch, hides
  <1>11. Makes(m, n, patched, w, v, now)
    <2>1. \A x \in View : x # v => n.view[x] = m.view[x] /\ n.work[x] = m.work[x]
      BY <1>4, <1>5, <1>6
    <2>2. m.view[v] = {} /\ m.work[v] = NoRow /\ n.work[v] = w
      BY <1>2, <1>4, <1>5, <1>6, <1>8 DEF past
    <2>3. ASSUME patched.settings.showRecentViews
          PROVE  \E i \in n.view[v] : i <= IF hides(patched) THEN now + Grace ELSE now
      <3>1. n.view[v] = entitled(db.settings)
        BY <1>4, <1>6, <1>9, <2>3
      <3>2. now <= now /\ now + Grace <= now + Grace /\ now <= now + Grace
        BY <1>1, SocialAssumption, SMT
      <3>3. QED
        BY <1>10, <3>1, <3>2 DEF entitled, hides
    <2>4. QED
      BY <1>4, <1>5, <1>6, <1>10, <2>1, <2>2, <2>3 DEF Makes, hides
  <1>12. patched.rev + 1 \in Nat
    BY <1>2, <1>7, SMT
  <1>13. Keeps(db', may', now')
    BY <1>1, <1>2, <1>3, <1>5, <1>6, <1>7, <1>11, <1>12, AddedKeeps
  <1>14. Grows(m, now, n, now)
    BY <1>1, <1>2, <1>5, <1>6, <1>7, <1>11, MadeGrows
  <1>15. Grows(may, now, may', now')
    BY <1>3, <1>5, <1>14 DEF Grows
  <1>16. db' \in DB
    BY <1>1, <1>2, <1>3, <1>7, <1>12, AddViewParts
  <1>17. Unmade(may', views')
    <2>1. \A x \in View : x > v => n.view[x] = {} /\ n.work[x] = NoRow
      BY <1>4, <1>6, <1>8 DEF IInv, Unmade, past
    <2>2. QED
      BY <1>3, <2>1 DEF Unmade
  <1>18. TypeOK'
    BY <1>1, <1>2, <1>3, <1>6, <1>16 DEF TypeOK
  <1>19. QED
    BY <1>3, <1>13, <1>15, <1>17, <1>18, MirrorsHold DEF IInv

(* A publication by the pulse. *)
LEMMA PulseStep ==
    ASSUME IInv, Pulse
    PROVE  IInv'
  <1>1. now \in Nat /\ db \in DB /\ may \in May /\ Keeps(db, may, now)
    BY DEF IInv, TypeOK
  <1>2. db' \in DB /\ Keeps(db', may, now)
    BY <1>1, PublishedKeeps DEF Pulse
  <1>3. QED
    BY <1>2 DEF Pulse, IInv, TypeOK

(* A poll, or the audit's full pull into an empty snapshot: the device is    *)
(* left with what it is sent, or without what it purges.                     *)
LEMMA DeviceStep ==
    ASSUME IInv, NEW f \in Device, Poll(f) \/ Audit(f)
    PROVE  IInv'
  <1> DEFINE d == publishDue(db, now)
  <1>1. now \in Nat /\ db \in DB /\ may \in May /\ Keeps(db, may, now)
        /\ mirror \in [Device -> Mirror]
    BY DEF IInv, TypeOK
  <1>2. d \in DB /\ Keeps(d, may, now)
    BY <1>1, PublishedKeeps
  <1> HIDE DEF d
  <1>3. mirror[f] \in Mirror /\ mirror[f].cursor \in Nat /\ Holds(mirror[f], may, now)
    BY <1>1 DEF IInv, Mirror
  <1>4. Blank \in Mirror /\ Holds(Blank, may, now) /\ 0 \in Nat
    <2>1. Blank \in Mirror
      BY SMT DEF Blank, Mirror
    <2>2. (\A w \in Work : Blank.shown[w] = NoRow) /\ Blank.done = {} /\ Blank.works = {}
      BY DEF Blank
    <2>3. QED
      BY <2>1, <2>2 DEF Holds
  <1> DEFINE polled == purged(received(d, mirror[f], mirror[f].cursor))
             audited == received(d, Blank, 0)
  <1>5. polled \in Mirror /\ Holds(polled, may, now)
    BY <1>1, <1>2, <1>3, ReceivedType, ReceivedHolds
  <1>6. audited \in Mirror /\ Holds(audited, may, now)
    BY <1>1, <1>2, <1>4, ReceivedType, ReceivedHolds
  <1>7. \E held \in {polled, audited} : mirror' = [mirror EXCEPT ![f] = held]
    BY DEF Poll, Audit, d
  <1> HIDE DEF polled, audited
  <1>8. /\ mirror' \in [Device -> Mirror]
        /\ \A g \in Device : Holds(mirror'[g], may, now)
    BY <1>1, <1>5, <1>6, <1>7 DEF IInv
  <1>9. db' = d /\ UNCHANGED <<now, views, ops, may>>
    BY DEF Poll, Audit, d
  <1>10. QED
    BY <1>2, <1>8, <1>9 DEF IInv, TypeOK

(* Time. *)
LEMMA AdvanceStep ==
    ASSUME IInv, Advance
    PROVE  IInv'
  <1>1. now \in Nat /\ now' = now + 1 /\ now' \in Nat
    BY SMT DEF IInv, TypeOK, Advance
  <1>2. Keeps(db', may', now') /\ Grows(may, now, may', now')
    BY <1>1, LaterKeeps, LaterGrows DEF IInv, TypeOK, Advance
  <1>3. QED
    BY <1>1, <1>2, MirrorsHold DEF IInv, TypeOK, Advance, Unmade

(* Every step keeps the invariant.                                           *)
LEMMA NextIInv ==
    ASSUME IInv, [Next]_vars, ~Overtaken, ~OpensLate
    PROVE  IInv'
  <1>1. DOMAIN db.settings = Switch
    BY SMT DEF IInv, TypeOK, DB, Settings, Switch
  <1>2. ASSUME NEW w \in Work, NEW at \in {t \in 0..now : now - t <= Late}, AddView(w, at)
        PROVE  IInv'
    BY <1>2, AddViewStep
  <1>3. ASSUME NEW w \in Work, RemoveView(w) \/ Complete(w)
        PROVE  IInv'
    BY <1>3, RemoveViewStep, CompleteStep
  <1>4. ASSUME NEW field \in Switch, NEW on \in BOOLEAN, Patch(field, on)
        PROVE  IInv'
    BY <1>4, PatchStep
  <1>5. ASSUME NEW w \in Work, NEW field \in Switch, NEW on \in BOOLEAN,
               ViewThenPatch(w, field, on)
        PROVE  IInv'
    BY <1>5, ViewThenPatchStep
  <1>6. ASSUME NEW f \in Device, Poll(f) \/ Audit(f)
        PROVE  IInv'
    BY <1>6, DeviceStep
  <1>7. CASE Pulse \/ Advance
    BY <1>7, PulseStep, AdvanceStep
  <1>8. CASE UNCHANGED vars
    BY <1>8 DEF vars, IInv, TypeOK
  <1>9. QED
    BY <1>1, <1>2, <1>3, <1>4, <1>5, <1>6, <1>7, <1>8 DEF Next

(* What the invariant says of the devices is SecretsKept.                    *)
LEMMA SecretsFollow == IInv => SecretsKept
  <1> SUFFICES ASSUME IInv PROVE SecretsKept
    OBVIOUS
  <1>1. \A v \in View : out(may, now, v) => outOf(v)
    BY DEF out, outOf, past
  <1>2. \A w \in Work : outWork(may, now, w) => workOut(w)
    BY <1>1 DEF outWork, workOut
  <1>3. \A w \in Work : outDone(may, now, w) => past(may.done[w]) # {}
    BY DEF outDone, past
  <1>4. ASSUME NEW f \in Device
        PROVE  /\ \A w \in Work : mirror[f].shown[w] # NoRow =>
                      /\ workOut(w)
                      /\ mirror[f].shown[w].chapter # NoChapter => outOf(mirror[f].shown[w].chapter)
               /\ \A w \in mirror[f].done : past(may.done[w]) # {}
               /\ \A w \in mirror[f].works :
                      w \in may.open \/ workOut(w) \/ past(may.done[w]) # {}
    <2>1. mirror[f] \in Mirror /\ Holds(mirror[f], may, now)
      BY DEF IInv, TypeOK
    <2>2. \A w \in Work : mirror[f].shown[w] # NoRow =>
              mirror[f].shown[w].chapter \in View \cup {NoChapter}
      BY <2>1 DEF Mirror, Seen
    <2>3. mirror[f].done \subseteq Work /\ mirror[f].works \subseteq Work
      BY <2>1 DEF Mirror
    <2>4. QED
      BY <1>1, <1>2, <1>3, <2>1, <2>2, <2>3 DEF Holds, outName
  <1>5. QED
    BY <1>4 DEF SecretsKept

-------------------------------------------------------------------------------

(* Whatever works, devices and bounds there are, the account's part of D1,   *)
(* the friends' mirrors and the record of entitlements keep their types.     *)
THEOREM HistoryTypes ==
    ASSUME ~Overtaken, ~OpensLate
    PROVE  Spec => []TypeOK
  <1>1. IInv /\ [Next]_vars => IInv'
    BY NextIInv
  <1>2. IInv => TypeOK
    BY DEF IInv
  <1>3. QED
    BY <1>1, <1>2, InitIInv, PTL DEF Spec

(* Nobody's device learns of a view, of a completion or of the name of a     *)
(* work before its hour, under every order of operations, switches, polls,   *)
(* audits and publications.                                                  *)
THEOREM HistorySecrets ==
    ASSUME ~Overtaken, ~OpensLate
    PROVE  Spec => []SecretsKept
  <1>1. IInv /\ [Next]_vars => IInv'
    BY NextIInv
  <1>2. QED
    BY <1>1, InitIInv, SecretsFollow, PTL DEF Spec

-------------------------------------------------------------------------------
(* A device at the server's revision holds what friends may have and nothing *)
(* else, and what friends are shown is in the account's own history.         *)

(* What friends are shown as read is in the account's own history. *)
Owned(d) ==
    \A w \in Work : d.shown[w] # NoRow /\ ~d.shown[w].removed =>
                        d.own[w] # NoRow /\ ~d.own[w].removed

(* The tables of D1 agree: no row is newer than the last revision, a         *)
(* withdrawn history has no row, and only what is out is public.             *)
OrderedRow(row, d) ==
    /\ d.settings.showRecentViews
    /\ 0 < row.rev /\ row.rev <= d.rev
    /\ row.social = Public => row.published

Ordered(d) ==
    /\ d.privacy # NoRow =>
           /\ 0 < d.privacy.rev /\ d.privacy.rev <= d.rev
           /\ d.privacy.visible <=> d.settings.showRecentViews
    /\ ~d.settings.showRecentViews => d.privacy # NoRow
    /\ \A w \in Work : d.shown[w] # NoRow => OrderedRow(d.shown[w], d)
    /\ \A w \in Work : d.done[w] # NoRow => 0 < d.done[w].rev /\ d.done[w].rev <= d.rev
    /\ \A w \in Work : d.works[w] <= d.rev

isOut(event) == event # NoRow /\ event.social = Public

(* A mirror has everything up to its cursor, and nothing that is not there   *)
(* any more but what the next poll purges.                                   *)
Purgeable(m, d) ==
    ~d.settings.showRecentViews /\ m.cursor < d.privacy.rev

FollowsWork(m, d, w) ==
    /\ mayCarry(d, w) /\ d.shown[w].rev <= m.cursor => m.shown[w] = carried(d.shown[w])
    /\ m.shown[w] # NoRow => \/ d.shown[w] # NoRow /\ d.shown[w].published
                             \/ Purgeable(m, d)
    /\ isOut(d.done[w]) /\ d.done[w].rev <= m.cursor => w \in m.done
    /\ w \in m.done => isOut(d.done[w])
    /\ 0 < d.works[w] /\ d.works[w] <= m.cursor => w \in m.works
    /\ w \in m.works => 0 < d.works[w]

FollowsPrivacy(m, d) ==
    /\ m.withdrawn => \A w \in Work : m.shown[w] = NoRow
    /\ d.privacy = NoRow => ~m.withdrawn
    /\ d.privacy # NoRow /\ d.privacy.rev <= m.cursor => (m.withdrawn <=> ~d.privacy.visible)

Follows(m, d) ==
    /\ m.cursor <= d.rev
    /\ FollowsPrivacy(m, d)
    /\ \A w \in Work : FollowsWork(m, d, w)

MirrorInv ==
    /\ Owned(db) /\ Ordered(db)
    /\ \A f \in Device : Follows(mirror[f], db)

-------------------------------------------------------------------------------
(* A database after another: what differs is newer, and what was out stays   *)
(* out, unless the history is withdrawn.                                     *)

Newer(r, d) == d.rev < r

AfterWork(e, d, w) ==
    /\ \/ e.shown[w] = d.shown[w]
       \/ /\ e.shown[w] # NoRow /\ Newer(e.shown[w].rev, d)
          /\ d.shown[w] # NoRow /\ d.shown[w].published => e.shown[w].published
       \/ ~e.settings.showRecentViews /\ Newer(e.privacy.rev, d)
    /\ \/ e.done[w] = d.done[w]
       \/ Newer(e.done[w].rev, d) /\ (isOut(d.done[w]) => isOut(e.done[w]))
    /\ e.works[w] = d.works[w] \/ Newer(e.works[w], d)

After(e, d) ==
    /\ d.rev <= e.rev
    /\ \/ /\ e.privacy = d.privacy
          /\ e.settings.showRecentViews <=> d.settings.showRecentViews
       \/ e.privacy # NoRow /\ Newer(e.privacy.rev, d)
    /\ \A w \in Work : AfterWork(e, d, w)

(* A device that follows the one follows the other, unless the history comes *)
(* back before the device knows that it was withdrawn.                       *)
LEMMA FollowsAfter ==
    ASSUME NEW d \in DB, NEW e \in DB, NEW m \in Mirror,
           Ordered(d), Ordered(e), After(e, d), Follows(m, d),
           ~d.settings.showRecentViews /\ e.settings.showRecentViews => m.withdrawn
    PROVE  Follows(m, e)
  <1>1. d.rev \in Nat /\ e.rev \in Nat /\ m.cursor \in Nat /\ m.cursor <= d.rev /\ d.rev <= e.rev
    BY DEF DB, Mirror, Follows, After
  <1>2. \A n \in Nat : Newer(n, d) => ~(n <= m.cursor) /\ m.cursor < n /\ 0 < n
    BY <1>1, SMT DEF Newer
  <1>3. m.cursor <= e.rev
    BY <1>1, SMT
  <1>4. /\ d.privacy # NoRow => d.privacy.rev \in Nat
        /\ e.privacy # NoRow => e.privacy.rev \in Nat
    BY DEF DB, Privacy
  <1>5. FollowsPrivacy(m, e)
    BY <1>2, <1>4 DEF Follows, FollowsPrivacy, After
  <1>6. ASSUME NEW w \in Work PROVE FollowsWork(m, e, w)
    <2>1. /\ d.shown[w] # NoRow => d.shown[w].rev \in Nat
          /\ e.shown[w] # NoRow => e.shown[w].rev \in Nat
          /\ e.done[w] # NoRow => e.done[w].rev \in Nat
          /\ d.works[w] \in Nat /\ e.works[w] \in Nat
      BY DEF DB, Row, Event
    <2>2. FollowsWork(m, d, w) /\ AfterWork(e, d, w)
      BY DEF Follows, After
    <2>3. ASSUME mayCarry(e, w), e.shown[w].rev <= m.cursor
          PROVE  m.shown[w] = carried(e.shown[w])
      <3>1. e.shown[w] # NoRow /\ e.shown[w].social = Public /\ e.settings.showRecentViews
        BY <2>3 DEF mayCarry, Ordered, OrderedRow
      <3>2. e.shown[w] = d.shown[w]
        BY <1>2, <2>1, <2>2, <2>3, <3>1 DEF AfterWork
      <3>3. d.settings.showRecentViews
        BY <3>1, <3>2 DEF Ordered, OrderedRow
      <3>4. mayCarry(d, w)
        BY <3>1, <3>2, <3>3 DEF mayCarry, Ordered
      <3>5. QED
        BY <2>2, <2>3, <3>2, <3>4 DEF FollowsWork
    <2>4. ASSUME m.shown[w] # NoRow
          PROVE  (e.shown[w] # NoRow /\ e.shown[w].published) \/ Purgeable(m, e)
      <3>1. CASE d.shown[w] # NoRow /\ d.shown[w].published
        <4>1. ASSUME ~e.settings.showRecentViews, Newer(e.privacy.rev, d) PROVE Purgeable(m, e)
          <5>1. e.privacy # NoRow
            BY <4>1 DEF Ordered
          <5>2. QED
            BY <1>2, <1>4, <4>1, <5>1 DEF Purgeable
        <4>2. QED
          BY <2>2, <3>1, <4>1 DEF AfterWork
      <3>2. CASE Purgeable(m, d)
        <4>1. ~m.withdrawn
          BY <2>4 DEF Follows, FollowsPrivacy
        <4>2. ~e.settings.showRecentViews
          BY <3>2, <4>1 DEF Purgeable
        <4>3. e.privacy # NoRow
          BY <4>2 DEF Ordered
        <4>4. m.cursor < e.privacy.rev
          BY <1>2, <1>4, <3>2, <4>3 DEF Purgeable, After
        <4>5. QED
          BY <4>2, <4>4 DEF Purgeable
      <3>3. QED
        BY <2>2, <2>4, <3>1, <3>2 DEF FollowsWork
    <2>5. /\ isOut(e.done[w]) /\ e.done[w].rev <= m.cursor => w \in m.done
          /\ w \in m.done => isOut(e.done[w])
      BY <1>2, <2>1, <2>2 DEF FollowsWork, AfterWork, isOut
    <2>6. /\ 0 < e.works[w] /\ e.works[w] <= m.cursor => w \in m.works
          /\ w \in m.works => 0 < e.works[w]
      BY <1>2, <2>1, <2>2 DEF FollowsWork, AfterWork
    <2>7. QED
      BY <2>3, <2>4, <2>5, <2>6 DEF FollowsWork
  <1>7. QED
    BY <1>3, <1>5, <1>6 DEF Follows

-------------------------------------------------------------------------------
(* Every operation leaves a database that is in order and comes after the    *)
(* one it met.                                                               *)

Goes(e, d) == Owned(e) /\ Ordered(e) /\ After(e, d)

(* What a view leaves of the rest of the database. *)
LEMMA AddViewRest ==
    ASSUME NEW d \in DB, NEW w \in Work, NEW v \in View, NEW at \in Nat, NEW t \in Nat,
           NEW r \in Nat
    PROVE  LET e == addView(d, w, v, at, t, r) IN
           /\ e.own = [d.own EXCEPT ![w] = ownView(d, w, at)]
           /\ e.rev = r /\ e.settings = d.settings /\ e.privacy = d.privacy
  <1> DEFINE own == [d.own EXCEPT ![w] = ownView(d, w, at)]
             shown == [d.shown EXCEPT ![w] = IF d.settings.showRecentViews
                                             THEN shownView(d, w, v, at, t, r) ELSE @]
             named == described(d, w, r)
             d1 == [named EXCEPT !.own = own]
             d2 == [d1 EXCEPT !.shown = shown]
             e == addView(d, w, v, at, t, r)
  <1>1. own \in [Work -> Own \cup {NoRow}] /\ shown \in [Work -> Row \cup {NoRow}]
    BY ViewedTypes DEF DB
  <1>2. /\ named \in DB /\ named.own = d.own /\ named.shown = d.shown
        /\ named.settings = d.settings /\ named.privacy = d.privacy
    BY DescribedParts
  <1>3. e = [d2 EXCEPT !.rev = r]
    BY <1>2 DEF addView
  <1> HIDE DEF own, shown, named, e
  <1>4. d1 \in DB /\ d1.own = own /\ d1.settings = d.settings /\ d1.privacy = d.privacy
    BY <1>1, <1>2, SetOwn
  <1> HIDE DEF d1
  <1>5. d2 \in DB /\ d2.own = own /\ d2.settings = d.settings /\ d2.privacy = d.privacy
    BY <1>1, <1>4, SetShown
  <1> HIDE DEF d2
  <1>6. e.own = own /\ e.rev = r /\ e.settings = d.settings /\ e.privacy = d.privacy
    BY <1>3, <1>5, SetRev
  <1>7. QED
    BY <1>6 DEF own, e

(* What a view leaves of the work's two rows. *)
LEMMA ViewedRows ==
    ASSUME NEW d \in DB, NEW w \in Work, NEW v \in View, NEW at \in Nat, NEW t \in Nat,
           NEW r \in Nat
    PROVE  /\ ownView(d, w, at).removed =>
                  d.own[w] # NoRow /\ d.own[w].removed /\ at <= d.own[w].at
           /\ LET row == shownView(d, w, v, at, t, r) IN
              /\ row.rev = r
              /\ d.shown[w] # NoRow /\ d.shown[w].published => row.published
              /\ row.social = Public => row.published
  <1>1. ownView(d, w, at).removed => d.own[w] # NoRow /\ d.own[w].removed /\ at <= d.own[w].at
    BY DEF ownView
  <1>2. publication(d, t) = Public => ~hides(d)
    BY SocialAssumption, SMT DEF publication, Public
  <1>3. CASE d.shown[w] = NoRow
    BY <1>1, <1>2, <1>3 DEF shownView
  <1>4. CASE d.shown[w] # NoRow
    BY <1>1, <1>2, <1>4 DEF shownView
  <1>5. QED
    BY <1>3, <1>4

(* What adding a view leaves, in one name. *)
ViewAdded(e, d, w, v, at, t, r) ==
    /\ e \in DB
    /\ e.done = d.done
    /\ e.shown = [d.shown EXCEPT ![w] = IF d.settings.showRecentViews
                                         THEN shownView(d, w, v, at, t, r) ELSE @]
    /\ e.works = IF hides(d) THEN d.works ELSE [d.works EXCEPT ![w] = r]

LEMMA AddViewShape ==
    ASSUME NEW d \in DB, NEW w \in Work, NEW v \in View, NEW at \in Nat, NEW t \in Nat,
           NEW r \in Nat
    PROVE  ViewAdded(addView(d, w, v, at, t, r), d, w, v, at, t, r)
  BY AddViewParts DEF ViewAdded

(* A view. *)
LEMMA AddViewGoes ==
    ASSUME NEW d \in DB, NEW w \in Work, NEW v \in View, NEW at \in Nat, NEW t \in Nat,
           Owned(d), Ordered(d),
           ~(d.own[w] # NoRow /\ d.own[w].removed /\ at <= d.own[w].at)
    PROVE  LET e == addView(d, w, v, at, t, d.rev + 1) IN
           e \in DB /\ e.settings = d.settings /\ Goes(e, d)
  <1> DEFINE r == d.rev + 1
             e == addView(d, w, v, at, t, r)
             row == shownView(d, w, v, at, t, r)
             own == ownView(d, w, at)
  <1>1. d.rev \in Nat /\ r \in Nat /\ d.rev < r /\ 0 < r /\ r <= r /\ d.rev <= r
    BY SMT DEF DB
  <1>2. \A n \in Nat : n <= d.rev => n <= r
    BY <1>1, SMT
  <1> HIDE DEF r
  <1>3. /\ e \in DB
        /\ e.done = d.done
        /\ e.shown = [d.shown EXCEPT ![w] = IF d.settings.showRecentViews THEN row ELSE @]
        /\ e.works = IF hides(d) THEN d.works ELSE [d.works EXCEPT ![w] = r]
    <2>1. ViewAdded(e, d, w, v, at, t, r)
      BY <1>1, AddViewShape
    <2> HIDE DEF e, row
    <2>2. QED
      BY <2>1 DEF ViewAdded, row
  <1>4. /\ e.own = [d.own EXCEPT ![w] = own]
        /\ e.rev = r /\ e.settings = d.settings /\ e.privacy = d.privacy
    BY <1>1, AddViewRest
  <1>5. /\ ~own.removed /\ own \in Own /\ own # NoRow
        /\ row \in Row /\ row # NoRow /\ row.rev = r
        /\ d.shown[w] # NoRow /\ d.shown[w].published => row.published
        /\ row.social = Public => row.published
    <2>1. own \in Own /\ row \in Row
      BY <1>1, ViewedTypes
    <2>2. NoRow \notin Own /\ NoRow \notin Row
      BY NoRowAssumption
    <2>3. QED
      BY <1>1, <2>1, <2>2, ViewedRows
  <1> HIDE DEF e, row, own
  <1>6. \A x \in Work :
           /\ e.own[x] = IF x = w THEN own ELSE d.own[x]
           /\ e.shown[x] = IF x = w /\ d.settings.showRecentViews THEN row ELSE d.shown[x]
           /\ e.works[x] = IF x = w /\ ~hides(d) THEN r ELSE d.works[x]
    BY <1>3, <1>4 DEF DB
  <1>7. /\ \A x \in Work : d.shown[x] # NoRow => d.shown[x].rev \in Nat
        /\ \A x \in Work : d.done[x] # NoRow => d.done[x].rev \in Nat
        /\ \A x \in Work : d.works[x] \in Nat
        /\ d.privacy # NoRow => d.privacy.rev \in Nat
    BY DEF DB, Row, Event, Privacy
  <1>8. Owned(e)
    BY <1>5, <1>6 DEF Owned
  <1>9. Ordered(e)
    <2>1. \A x \in Work : e.shown[x] # NoRow => OrderedRow(e.shown[x], e)
      BY <1>1, <1>2, <1>4, <1>5, <1>6, <1>7 DEF Ordered, OrderedRow
    <2>2. \A x \in Work : e.done[x] # NoRow => 0 < e.done[x].rev /\ e.done[x].rev <= e.rev
      BY <1>2, <1>3, <1>4, <1>7 DEF Ordered
    <2>3. \A x \in Work : e.works[x] <= e.rev
      BY <1>1, <1>2, <1>4, <1>6, <1>7 DEF Ordered
    <2>4. QED
      BY <1>2, <1>4, <1>7, <2>1, <2>2, <2>3 DEF Ordered
  <1>10. After(e, d)
    BY <1>1, <1>3, <1>4, <1>5, <1>6 DEF After, AfterWork, Newer
  <1>11. QED
    BY <1>3, <1>4, <1>8, <1>9, <1>10 DEF Goes, e, r

(* What the tables hold has revisions. *)
LEMMA Revisions ==
    ASSUME NEW d \in DB
    PROVE  /\ d.rev \in Nat /\ d.rev + 1 \in Nat /\ d.rev < d.rev + 1 /\ 0 < d.rev + 1
           /\ d.rev <= d.rev /\ d.rev <= d.rev + 1 /\ d.rev + 1 <= d.rev + 1
           /\ \A n \in Nat : n <= d.rev => n <= d.rev + 1
           /\ \A x \in Work : d.shown[x] # NoRow => d.shown[x].rev \in Nat
           /\ \A x \in Work : d.done[x] # NoRow => d.done[x].rev \in Nat
           /\ \A x \in Work : d.works[x] \in Nat
           /\ d.privacy # NoRow => d.privacy.rev \in Nat
  <1>1. d.rev \in Nat
    BY DEF DB
  <1>2. /\ d.rev + 1 \in Nat /\ d.rev < d.rev + 1 /\ 0 < d.rev + 1
        /\ d.rev <= d.rev /\ d.rev <= d.rev + 1 /\ d.rev + 1 <= d.rev + 1
        /\ \A n \in Nat : n <= d.rev => n <= d.rev + 1
    BY <1>1, SMT
  <1>3. /\ \A x \in Work : d.shown[x] # NoRow => d.shown[x].rev \in Nat
        /\ \A x \in Work : d.done[x] # NoRow => d.done[x].rev \in Nat
        /\ \A x \in Work : d.works[x] \in Nat
        /\ d.privacy # NoRow => d.privacy.rev \in Nat
    BY DEF DB, Row, Event, Privacy
  <1>4. QED
    BY <1>1, <1>2, <1>3

(* A removal. *)
LEMMA RemoveViewGoes ==
    ASSUME NEW d \in DB, NEW w \in Work, NEW t \in Nat, Owned(d), Ordered(d)
    PROVE  LET e == removeView(d, w, t, d.rev + 1) IN
           e \in DB /\ e.settings = d.settings /\ Goes(e, d)
  <1> DEFINE r == d.rev + 1
             e == removeView(d, w, t, r)
             row == withdrawnRow(d.shown[w], t, r)
             event == [social |-> Never, rev |-> r]
  <1>1. r \in Nat
    BY Revisions
  <1> HIDE DEF r
  <1>2. /\ e \in DB
        /\ e.works = d.works
        /\ e.shown = [d.shown EXCEPT ![w] = IF @ = NoRow THEN @ ELSE row]
        /\ e.done = [d.done EXCEPT ![w] = IF @ # NoRow /\ @.social > 0 THEN event ELSE @]
        /\ \A x \in Work : x # w => e.own[x] = d.own[x]
        /\ e.rev = r /\ e.settings = d.settings /\ e.privacy = d.privacy
    BY <1>1, RemoveViewParts
  <1>3. ASSUME d.shown[w] # NoRow
        PROVE  /\ row \in Row /\ row # NoRow /\ row.removed /\ row.rev = r
               /\ row.published <=> d.shown[w].published
               /\ row.social = Public => row.published
    <2> DEFINE old == d.shown[w]
    <2>1. old \in Row
      BY <1>3 DEF DB
    <2> HIDE DEF old
    <2>2. LET new == withdrawnRow(old, t, r) IN
          /\ new \in Row
          /\ new.published = old.published
          /\ new.social = IF old.published THEN Public ELSE Never
          /\ new.removed /\ new.rev = r
      BY <1>1, <2>1, WithdrawnParts
    <2>3. Public # Never
      BY SMT DEF Public, Never
    <2>4. QED
      BY <2>2, <2>3, NoRowAssumption DEF old
  <1>4. event.rev = r /\ event # NoRow /\ ~isOut(event)
    <2>1. event \in Event /\ event.rev = r /\ event.social = Never
      BY <1>1, SMT DEF Event, Never
    <2>2. Public # Never
      BY SMT DEF Public, Never
    <2>3. QED
      BY <2>1, <2>2, NoRowAssumption DEF isOut
  <1>5. d.done[w].social > 0 => ~isOut(d.done[w])
    BY SMT DEF isOut, Public
  <1> HIDE DEF e, row, event
  <1>6. \A x \in Work :
           /\ e.shown[x] = IF x = w /\ d.shown[w] # NoRow THEN row ELSE d.shown[x]
           /\ e.done[x] = IF x = w /\ d.done[w] # NoRow /\ d.done[w].social > 0
                          THEN event ELSE d.done[x]
    BY <1>2, ZenonT(30) DEF DB
  <1>7. Owned(e)
    BY <1>2, <1>3, <1>6 DEF Owned
  <1>8. Ordered(e)
    <2>1. \A x \in Work : e.shown[x] # NoRow => OrderedRow(e.shown[x], e)
      BY <1>2, <1>3, <1>6, Revisions DEF Ordered, OrderedRow, r
    <2>2. \A x \in Work : e.done[x] # NoRow => 0 < e.done[x].rev /\ e.done[x].rev <= e.rev
      BY <1>2, <1>4, <1>6, Revisions DEF Ordered, r
    <2>3. \A x \in Work : e.works[x] <= e.rev
      <3>1. e.works = d.works /\ e.rev = d.rev + 1
        BY <1>2 DEF r
      <3>2. QED
        BY <3>1, Revisions DEF Ordered
    <2>4. QED
      BY <1>2, Revisions, <2>1, <2>2, <2>3 DEF Ordered, r
  <1>9. After(e, d)
    BY <1>2, <1>3, <1>4, <1>5, <1>6, Revisions DEF After, AfterWork, Newer, r
  <1>10. QED
    BY <1>2, <1>7, <1>8, <1>9 DEF Goes, e, r

(* A completion. *)
LEMMA CompleteGoes ==
    ASSUME NEW d \in DB, NEW w \in Work, NEW t \in Nat, Owned(d), Ordered(d)
    PROVE  LET e == complete(d, w, t, d.rev + 1) IN
           e \in DB /\ e.settings = d.settings /\ Goes(e, d)
  <1> DEFINE r == d.rev + 1
             e == complete(d, w, t, r)
             event == [social |-> publication(d, t), rev |-> r]
  <1>1. r \in Nat
    BY Revisions
  <1> HIDE DEF r
  <1>2. /\ e \in DB
        /\ e.shown = d.shown
        /\ e.works = IF hides(d) THEN d.works ELSE [d.works EXCEPT ![w] = r]
        /\ e.done = [d.done EXCEPT ![w] = IF @ = NoRow /\ d.settings.shareCompletions
                                          THEN event ELSE @]
        /\ e.own = d.own
        /\ e.rev = r /\ e.settings = d.settings /\ e.privacy = d.privacy
    BY <1>1, CompleteParts, SMTT(30)
  <1>3. event.rev = r
    OBVIOUS
  <1> HIDE DEF e, event
  <1>4. \A x \in Work :
           /\ e.works[x] = IF x = w /\ ~hides(d) THEN r ELSE d.works[x]
           /\ e.done[x] = IF x = w /\ d.done[w] = NoRow /\ d.settings.shareCompletions
                          THEN event ELSE d.done[x]
    BY <1>2 DEF DB
  <1>5. Owned(e)
    BY <1>2 DEF Owned
  <1>6. Ordered(e)
    <2>1. \A x \in Work : e.shown[x] # NoRow => OrderedRow(e.shown[x], e)
      BY <1>2, Revisions DEF Ordered, OrderedRow, r
    <2>2. \A x \in Work : e.done[x] # NoRow => 0 < e.done[x].rev /\ e.done[x].rev <= e.rev
      BY <1>2, <1>3, <1>4, Revisions DEF Ordered, r
    <2>3. \A x \in Work : e.works[x] <= e.rev
      BY <1>2, <1>4, Revisions, ZenonT(30) DEF Ordered, r
    <2>4. QED
      BY <1>2, Revisions, <2>1, <2>2, <2>3 DEF Ordered, r
  <1>7. After(e, d)
    BY <1>2, <1>3, <1>4, Revisions DEF After, AfterWork, Newer, isOut, r
  <1>8. QED
    BY <1>2, <1>5, <1>6, <1>7 DEF Goes, e, r

(* What a switch leaves of the rest of the database. *)
LEMMA PatchRest ==
    ASSUME NEW d \in DB, NEW field \in Switch, NEW on \in BOOLEAN, NEW r \in Nat
    PROVE  /\ patch(d, field, on, r).own = d.own
           /\ patch(d, field, on, r).privacy = IF field = "showRecentViews"
                                               THEN [visible |-> on, rev |-> r] ELSE d.privacy
  <1> DEFINE settings == [d.settings EXCEPT ![field] = on]
             d1 == [d EXCEPT !.settings = settings]
             set == [d1 EXCEPT !.rev = r]
             privacy == [visible |-> on, rev |-> r]
             shown == IF on THEN d.shown ELSE [w \in Work |-> NoRow]
             d2 == [set EXCEPT !.privacy = privacy]
             d3 == [d2 EXCEPT !.shown = shown]
             e == patch(d, field, on, r)
  <1>1. settings \in Settings
    BY SMT DEF DB, Settings, Switch
  <1>2. privacy \in Privacy \cup {NoRow} /\ shown \in [Work -> Row \cup {NoRow}]
    BY SMT DEF Privacy, DB
  <1>3. set = [d EXCEPT !.settings[field] = on, !.rev = r]
    OBVIOUS
  <1> HIDE DEF settings
  <1>4. d1 \in DB /\ d1.own = d.own /\ d1.shown = d.shown /\ d1.privacy = d.privacy
    BY <1>1, SetSettings
  <1> HIDE DEF d1
  <1>5. set \in DB /\ set.own = d.own /\ set.shown = d.shown /\ set.privacy = d.privacy
    BY <1>4, SetRev
  <1>6. e = IF field # "showRecentViews" THEN set ELSE d3
    BY <1>3, <1>5 DEF patch
  <1> HIDE DEF set, privacy, shown, e
  <1>7. d2 \in DB /\ d2.own = d.own /\ d2.privacy = privacy
    BY <1>2, <1>5, SetPrivacy
  <1> HIDE DEF d2
  <1>8. d3.own = d.own /\ d3.privacy = privacy
    BY <1>2, <1>7, SetShown
  <1> HIDE DEF d3
  <1>9. QED
    BY <1>5, <1>6, <1>8 DEF privacy, e

(* A switch. *)
LEMMA PatchGoes ==
    ASSUME NEW d \in DB, NEW field \in Switch, NEW on \in BOOLEAN, Owned(d), Ordered(d),
           d.settings[field] # on
    PROVE  LET e == patch(d, field, on, d.rev + 1) IN
           /\ e \in DB /\ Goes(e, d) /\ e.own = d.own
           /\ ~d.settings.showRecentViews /\ e.settings.showRecentViews =>
                  field = "showRecentViews" /\ on
  <1> DEFINE r == d.rev + 1
             e == patch(d, field, on, r)
             privacy == [visible |-> on, rev |-> r]
             history == field = "showRecentViews"
  <1>1. r \in Nat
    BY Revisions
  <1> HIDE DEF r
  <1>2. /\ e \in DB
        /\ e.works = d.works
        /\ e.done = d.done
        /\ e.shown = IF history /\ ~on THEN [w \in Work |-> NoRow] ELSE d.shown
        /\ e.settings.showRecentViews = IF history THEN on ELSE d.settings.showRecentViews
        /\ e.rev = r
    BY <1>1, PatchParts DEF Switch
  <1>3. e.own = d.own /\ e.privacy = IF history THEN privacy ELSE d.privacy
    BY <1>1, PatchRest
  <1>4. privacy.visible = on /\ privacy.rev = r /\ privacy # NoRow
    <2>1. privacy \in Privacy
      BY <1>1 DEF Privacy
    <2>2. QED
      BY <2>1, NoRowAssumption
  <1> HIDE DEF e, privacy
  <1>5. \A x \in Work : e.shown[x] = IF history /\ ~on THEN NoRow ELSE d.shown[x]
    BY <1>2
  <1>6. Owned(e)
    BY <1>3, <1>5 DEF Owned
  <1>7. Ordered(e)
    <2>1. \A x \in Work : e.shown[x] # NoRow => OrderedRow(e.shown[x], e)
      BY <1>2, <1>5, Revisions DEF Ordered, OrderedRow, r
    <2>2. \A x \in Work : e.done[x] # NoRow => 0 < e.done[x].rev /\ e.done[x].rev <= e.rev
      BY <1>2, Revisions DEF Ordered, r
    <2>3. \A x \in Work : e.works[x] <= e.rev
      BY <1>2, Revisions DEF Ordered, r
    <2>4. /\ e.privacy # NoRow =>
                 /\ 0 < e.privacy.rev /\ e.privacy.rev <= e.rev
                 /\ e.privacy.visible <=> e.settings.showRecentViews
          /\ ~e.settings.showRecentViews => e.privacy # NoRow
      BY <1>2, <1>3, <1>4, Revisions DEF Ordered, r
    <2>5. QED
      BY <2>1, <2>2, <2>3, <2>4 DEF Ordered
  <1>8. After(e, d)
    <2>1. /\ d.rev <= e.rev
          /\ \/ /\ e.privacy = d.privacy
                /\ e.settings.showRecentViews <=> d.settings.showRecentViews
             \/ e.privacy # NoRow /\ Newer(e.privacy.rev, d)
      BY <1>2, <1>3, <1>4, Revisions DEF Newer, r
    <2>2. \A x \in Work : AfterWork(e, d, x)
      BY <1>2, <1>3, <1>4, <1>5, Revisions DEF AfterWork, Newer, r
    <2>3. QED
      BY <2>1, <2>2 DEF After
  <1>9. QED
    BY <1>2, <1>3, <1>6, <1>7, <1>8 DEF Goes, e, r

(* A publication. *)
LEMMA PublishGoes ==
    ASSUME NEW d \in DB, NEW t \in Nat, Owned(d), Ordered(d)
    PROVE  LET e == publishDue(d, t) IN
           e \in DB /\ e.settings = d.settings /\ Goes(e, d)
  <1> DEFINE e == publishDue(d, t)
             r == d.rev + 1
             outRow(w) == [d.shown[w] EXCEPT !.social = Public, !.published = TRUE, !.rev = r]
             event == [social |-> Public, rev |-> r]
  <1>1. /\ e \in DB
        /\ e.privacy = d.privacy /\ e.settings = d.settings /\ e.own = d.own
        /\ e = d \/ e.rev = r
        /\ \A w \in Work :
              /\ e.shown[w] = d.shown[w] \/ (isDue(d.shown[w], t) /\ e.shown[w] = outRow(w))
              /\ e.done[w] = d.done[w] \/ (isDue(d.done[w], t) /\ e.done[w] = event)
              /\ e.works[w] = d.works[w] \/ (isDue(d.shown[w], t) /\ e.works[w] = r)
    BY PublishDueParts
  <1>2. CASE e = d
    <2>1. After(d, d)
      BY Revisions DEF After, AfterWork
    <2>2. QED
      BY <1>1, <1>2, <2>1 DEF Goes
  <1>3. CASE e.rev = r
    <2>1. r \in Nat
      BY Revisions
    <2> HIDE DEF r
    <2>2. ASSUME NEW w \in Work, isDue(d.shown[w], t)
          PROVE  /\ d.shown[w] # NoRow
                 /\ outRow(w) # NoRow /\ outRow(w).published /\ outRow(w).rev = r
                 /\ outRow(w).removed = d.shown[w].removed
      <3> DEFINE row == d.shown[w]
                 new == [row EXCEPT !.social = Public, !.published = TRUE, !.rev = r]
      <3>1. row \in Row /\ row # NoRow
        BY <2>2 DEF isDue, DB
      <3>2. outRow(w) = new
        OBVIOUS
      <3> HIDE DEF row
      <3>3. new \in Row /\ new.published /\ new.rev = r /\ new.removed = row.removed
        BY <2>1, <3>1, OutParts
      <3> HIDE DEF new, outRow
      <3>4. QED
        BY <3>1, <3>2, <3>3, NoRowAssumption DEF row
    <2>3. event.rev = r
      OBVIOUS
    <2>4. ASSUME NEW w \in Work, isDue(d.done[w], t) PROVE ~isOut(d.done[w])
      BY <2>4, SMT DEF isDue, isOut, Public
    <2> HIDE DEF e, outRow, event
    <2>5. Owned(e)
      BY <1>1, <2>2 DEF Owned
    <2>6. Ordered(e)
      <3>1. \A x \in Work : e.shown[x] # NoRow => OrderedRow(e.shown[x], e)
        BY <1>1, <1>3, <2>2, Revisions DEF Ordered, OrderedRow, r
      <3>2. \A x \in Work : e.done[x] # NoRow => 0 < e.done[x].rev /\ e.done[x].rev <= e.rev
        BY <1>1, <1>3, <2>3, Revisions DEF Ordered, r
      <3>3. \A x \in Work : e.works[x] <= e.rev
        BY <1>1, <1>3, Revisions DEF Ordered, r
      <3>4. QED
        BY <1>1, <1>3, Revisions, <3>1, <3>2, <3>3 DEF Ordered, r
    <2>7. After(e, d)
      BY <1>1, <1>3, <2>2, <2>3, <2>4, Revisions DEF After, AfterWork, Newer, r
    <2>8. QED
      BY <1>1, <2>5, <2>6, <2>7 DEF Goes, e
  <1>4. QED
    BY <1>1, <1>2, <1>3

-------------------------------------------------------------------------------
(* What a device is sent, and what it does with it.                          *)

(* A device without anything follows every database that is in order. *)
LEMMA BlankFollows ==
    ASSUME NEW d \in DB, Ordered(d)
    PROVE  Blank \in Mirror /\ Follows(Blank, d)
  <1>1. Blank \in Mirror
    BY SMT DEF Blank, Mirror
  <1>2. /\ Blank.cursor = 0 /\ ~Blank.withdrawn /\ Blank.done = {} /\ Blank.works = {}
        /\ \A w \in Work : Blank.shown[w] = NoRow
    BY DEF Blank
  <1>3. (\A n \in Nat : 0 < n => ~(n <= 0)) /\ \A n \in Nat : 0 <= n
    BY SMT
  <1>4. FollowsPrivacy(Blank, d)
    BY <1>2, <1>3, Revisions DEF FollowsPrivacy, Ordered
  <1>5. ASSUME NEW w \in Work PROVE FollowsWork(Blank, d, w)
    BY <1>2, <1>3, Revisions DEF FollowsWork, Ordered, OrderedRow, mayCarry, isOut
  <1>6. QED
    BY <1>1, <1>2, <1>3, <1>4, <1>5, Revisions DEF Follows

(* A device that follows is sent what it misses, and purges what is gone:    *)
(* it follows up to the last revision.  A device that holds nothing has      *)
(* nothing to purge.                                                         *)
LEMMA ReceivedFollows ==
    ASSUME NEW d \in DB, NEW m \in Mirror, Ordered(d), Follows(m, d)
    PROVE  LET e == received(d, m, m.cursor) IN
           /\ Follows(purged(e), d)
           /\ (\A w \in Work : m.shown[w] = NoRow) => Follows(e, d)
  <1> DEFINE e == received(d, m, m.cursor)
             p == purged(e)
  <1>1. e \in Mirror /\ p \in Mirror
    BY ReceivedType DEF Mirror
  <1>2. /\ e.cursor = d.rev
        /\ \A w \in Work : e.shown[w] = IF mayCarry(d, w) /\ d.shown[w].rev > m.cursor
                                        THEN carried(d.shown[w]) ELSE m.shown[w]
        /\ e.withdrawn <=> IF d.privacy # NoRow /\ d.privacy.rev > m.cursor
                           THEN ~d.privacy.visible ELSE m.withdrawn
        /\ e.done = m.done \cup {w \in Work : isOut(d.done[w]) /\ d.done[w].rev > m.cursor}
        /\ e.works = m.works \cup {w \in Work : d.works[w] > m.cursor}
    BY DEF received, isOut
  <1>3. /\ p.cursor = e.cursor /\ p.withdrawn = e.withdrawn /\ p.done = e.done /\ p.works = e.works
        /\ \A w \in Work : p.shown[w] = IF e.withdrawn THEN NoRow ELSE e.shown[w]
    <2>1. CASE e.withdrawn
      <3>1. p = [e EXCEPT !.shown = [w \in Work |-> NoRow]]
        BY <2>1 DEF purged
      <3> HIDE DEF e, p
      <3>2. QED
        BY <1>1, <2>1, <3>1 DEF Mirror
    <2>2. CASE ~e.withdrawn
      BY <2>2 DEF purged
    <2>3. QED
      BY <2>1, <2>2
  <1>4. /\ m.cursor \in Nat /\ m.cursor <= d.rev /\ m.done \subseteq Work /\ m.works \subseteq Work
        /\ \A n \in Nat : n <= m.cursor \/ n > m.cursor
        /\ \A n \in Nat : n > m.cursor => 0 < n
        /\ \A n \in Nat : n <= m.cursor => ~(m.cursor < n)
    <2>1. m.cursor \in Nat /\ m.cursor <= d.rev /\ m.done \subseteq Work /\ m.works \subseteq Work
      BY DEF Follows, Mirror
    <2>2. /\ \A n \in Nat : n <= m.cursor \/ n > m.cursor
          /\ \A n \in Nat : n > m.cursor => 0 < n
          /\ \A n \in Nat : n <= m.cursor => ~(m.cursor < n)
      BY <2>1, SMT
    <2>3. QED
      BY <2>1, <2>2
  <1> HIDE DEF e, p
  <1>5. e.withdrawn <=> d.privacy # NoRow /\ ~d.privacy.visible
    BY <1>2, <1>4, Revisions DEF Follows, FollowsPrivacy
  <1>6. e.withdrawn <=> ~d.settings.showRecentViews
    BY <1>5 DEF Ordered
  <1>7. ASSUME NEW w \in Work, mayCarry(d, w)
        PROVE  ~e.withdrawn /\ e.shown[w] = carried(d.shown[w]) /\ d.shown[w].published
               /\ d.shown[w] # NoRow
    <2>1. d.shown[w] # NoRow /\ d.shown[w].social = Public
      BY <1>7 DEF mayCarry
    <2>2. d.settings.showRecentViews /\ d.shown[w].published
      BY <2>1 DEF Ordered, OrderedRow
    <2>3. e.shown[w] = carried(d.shown[w])
      BY <1>2, <1>4, <1>7, <2>1, Revisions DEF Follows, FollowsWork
    <2>4. QED
      BY <1>6, <2>1, <2>2, <2>3
  <1>8. ASSUME NEW w \in Work, e.shown[w] # NoRow, ~e.withdrawn
        PROVE  d.shown[w] # NoRow /\ d.shown[w].published
    <2>1. CASE mayCarry(d, w)
      BY <1>7, <2>1
    <2>2. CASE ~mayCarry(d, w)
      <3>1. m.shown[w] # NoRow /\ ~Purgeable(m, d)
        BY <1>2, <1>6, <1>8, <2>2 DEF Purgeable
      <3>2. QED
        BY <3>1 DEF Follows, FollowsWork
    <2>3. QED
      BY <2>1, <2>2
  <1>9. ASSUME NEW w \in Work
        PROVE  /\ w \in e.done <=> isOut(d.done[w])
               /\ w \in e.works <=> 0 < d.works[w]
    <2>1. isOut(d.done[w]) => d.done[w].rev \in Nat
      BY Revisions DEF isOut
    <2>2. w \in e.done <=> isOut(d.done[w])
      BY <1>2, <1>4, <2>1 DEF Follows, FollowsWork
    <2>3. w \in e.works <=> 0 < d.works[w]
      BY <1>2, <1>4, Revisions DEF Follows, FollowsWork
    <2>4. QED
      BY <2>2, <2>3
  <1>10. Follows(p, d)
    <2>1. FollowsPrivacy(p, d)
      BY <1>3, <1>5 DEF FollowsPrivacy
    <2>2. ASSUME NEW w \in Work PROVE FollowsWork(p, d, w)
      BY <1>3, <1>7, <1>8, <1>9 DEF FollowsWork
    <2>3. QED
      BY <1>2, <1>3, <2>1, <2>2, Revisions DEF Follows
  <1>11. ASSUME \A w \in Work : m.shown[w] = NoRow PROVE Follows(e, d)
    <2>1. e.withdrawn => \A w \in Work : e.shown[w] = NoRow
      BY <1>2, <1>7, <1>11
    <2>2. FollowsPrivacy(e, d)
      BY <1>5, <2>1 DEF FollowsPrivacy
    <2>3. ASSUME NEW w \in Work PROVE FollowsWork(e, d, w)
      BY <1>7, <1>8, <1>9, <2>1 DEF FollowsWork
    <2>4. QED
      BY <1>2, <2>2, <2>3, Revisions DEF Follows
  <1>12. QED
    BY <1>10, <1>11 DEF e, p

-------------------------------------------------------------------------------
(* Every step keeps the invariant.                                           *)

(* A database that comes after the one a device follows.                     *)
LEMMA MirrorsFollow ==
    ASSUME TypeOK, MirrorInv, NEW e \in DB, Goes(e, db),
           ~db.settings.showRecentViews /\ e.settings.showRecentViews => allSawWithdrawal
    PROVE  Owned(e) /\ Ordered(e) /\ \A f \in Device : Follows(mirror[f], e)
  <1>1. db \in DB /\ \A f \in Device : mirror[f] \in Mirror
    BY DEF TypeOK
  <1>2. ASSUME NEW f \in Device PROVE Follows(mirror[f], e)
    BY <1>1, FollowsAfter DEF MirrorInv, Goes, allSawWithdrawal
  <1>3. QED
    BY <1>2 DEF Goes

(* An operation of the account. *)
LEMMA AccountStep ==
    ASSUME TypeOK, MirrorInv, ~Overtaken, ~ReturnsUnseen, NEW w \in Work,
           \/ \E at \in 0..now : AddView(w, at)
           \/ RemoveView(w)
           \/ Complete(w)
    PROVE  MirrorInv'
  <1>1. db \in DB /\ now \in Nat /\ Owned(db) /\ Ordered(db)
    BY DEF TypeOK, MirrorInv
  <1>2. UNCHANGED mirror
    BY DEF AddView, RemoveView, Complete
  <1>3. ASSUME NEW at \in 0..now, AddView(w, at)
        PROVE  db' \in DB /\ db'.settings = db.settings /\ Goes(db', db)
    <2>1. views + 1 \in View /\ at \in Nat
      BY <1>1, <1>3, SocialAssumption, SMT DEF AddView, TypeOK, View
    <2>2. ~overtaken(w, at) /\ db' = addView(db, w, views + 1, at, now, db.rev + 1)
      BY <1>3 DEF AddView
    <2>3. QED
      BY <1>1, <2>1, <2>2, AddViewGoes DEF overtaken
  <1>4. ASSUME RemoveView(w) PROVE db' \in DB /\ db'.settings = db.settings /\ Goes(db', db)
    BY <1>1, <1>4, RemoveViewGoes DEF RemoveView
  <1>5. ASSUME Complete(w) PROVE db' \in DB /\ db'.settings = db.settings /\ Goes(db', db)
    BY <1>1, <1>5, CompleteGoes DEF Complete
  <1>6. db' \in DB /\ db'.settings = db.settings /\ Goes(db', db)
    BY <1>3, <1>4, <1>5
  <1>7. Owned(db') /\ Ordered(db') /\ \A f \in Device : Follows(mirror[f], db')
    BY <1>6, MirrorsFollow
  <1>8. QED
    BY <1>2, <1>7 DEF MirrorInv

(* A switch, alone or behind a view of the same push. *)
LEMMA SwitchStep ==
    ASSUME TypeOK, MirrorInv, ~ReturnsUnseen, NEW field \in Switch, NEW on \in BOOLEAN,
           Patch(field, on) \/ \E w \in Work : ViewThenPatch(w, field, on)
    PROVE  MirrorInv'
  <1> DEFINE patched == patch(db, field, on, db.rev + 1)
  <1>1. db \in DB /\ now \in Nat /\ Owned(db) /\ Ordered(db)
    BY DEF TypeOK, MirrorInv
  <1>2. UNCHANGED mirror /\ mayPatch(field, on)
    BY DEF Patch, ViewThenPatch
  <1>3. /\ patched \in DB /\ Goes(patched, db) /\ patched.own = db.own
        /\ ~db.settings.showRecentViews /\ patched.settings.showRecentViews =>
               field = "showRecentViews" /\ on
    BY <1>1, <1>2, PatchGoes DEF mayPatch
  <1> HIDE DEF patched
  <1>4. ~db.settings.showRecentViews /\ patched.settings.showRecentViews => allSawWithdrawal
    BY <1>2, <1>3 DEF mayPatch
  <1>5. Owned(patched) /\ Ordered(patched) /\ \A f \in Device : Follows(mirror[f], patched)
    BY <1>3, <1>4, MirrorsFollow
  <1>6. CASE Patch(field, on)
    BY <1>2, <1>5, <1>6 DEF Patch, patched, MirrorInv
  <1>7. ASSUME NEW w \in Work, ViewThenPatch(w, field, on) PROVE MirrorInv'
    <2> DEFINE e == addView(patched, w, views + 1, now, now, patched.rev + 1)
    <2>1. views + 1 \in View
      BY <1>1, <1>7, SocialAssumption, SMT DEF ViewThenPatch, TypeOK, View
    <2>2. ~overtaken(w, now) /\ db' = e
      BY <1>7 DEF ViewThenPatch, patched
    <2>3. e \in DB /\ e.settings = patched.settings /\ Goes(e, patched)
      BY <1>1, <1>3, <1>5, <2>1, <2>2, AddViewGoes DEF overtaken
    <2> HIDE DEF e
    <2>4. ASSUME NEW f \in Device PROVE Follows(mirror[f], e)
      BY <1>3, <1>5, <2>3, FollowsAfter DEF Goes, TypeOK
    <2>5. QED
      BY <1>2, <2>2, <2>3, <2>4 DEF MirrorInv, Goes
  <1>8. QED
    BY <1>6, <1>7

(* A poll or an audit. *)
LEMMA PollStep ==
    ASSUME TypeOK, MirrorInv, NEW f \in Device, Poll(f) \/ Audit(f)
    PROVE  MirrorInv'
  <1> DEFINE d == publishDue(db, now)
             polled == purged(received(d, mirror[f], mirror[f].cursor))
             audited == received(d, Blank, 0)
  <1>1. db \in DB /\ now \in Nat /\ Owned(db) /\ Ordered(db) /\ mirror \in [Device -> Mirror]
    BY DEF TypeOK, MirrorInv
  <1>2. d \in DB /\ d.settings = db.settings /\ Goes(d, db)
    BY <1>1, PublishGoes
  <1> HIDE DEF d
  <1>3. Owned(d) /\ Ordered(d) /\ \A g \in Device : Follows(mirror[g], d)
    BY <1>2, MirrorsFollow
  <1>4. Follows(polled, d)
    BY <1>1, <1>2, <1>3, ReceivedFollows
  <1>5. Follows(audited, d)
    <2>1. Blank.cursor = 0 /\ \A w \in Work : Blank.shown[w] = NoRow
      BY DEF Blank
    <2>2. Follows(received(d, Blank, Blank.cursor), d)
      BY <1>2, <1>3, <2>1, BlankFollows, ReceivedFollows
    <2>3. QED
      BY <2>1, <2>2
  <1>6. db' = d /\ \E held \in {polled, audited} : mirror' = [mirror EXCEPT ![f] = held]
    BY DEF Poll, Audit, d
  <1> HIDE DEF polled, audited
  <1>7. \A g \in Device : Follows(mirror'[g], d)
    BY <1>1, <1>3, <1>4, <1>5, <1>6
  <1>8. QED
    BY <1>3, <1>6, <1>7 DEF MirrorInv

(* A publication with nobody asking. *)
LEMMA PublicationStep ==
    ASSUME TypeOK, MirrorInv, Pulse
    PROVE  MirrorInv'
  <1>1. db \in DB /\ now \in Nat /\ Owned(db) /\ Ordered(db)
    BY DEF TypeOK, MirrorInv
  <1>2. db' = publishDue(db, now) /\ UNCHANGED mirror
    BY DEF Pulse
  <1>3. db' \in DB /\ db'.settings = db.settings /\ Goes(db', db)
    BY <1>1, <1>2, PublishGoes
  <1>4. Owned(db') /\ Ordered(db') /\ \A g \in Device : Follows(mirror[g], db')
    BY <1>3, MirrorsFollow
  <1>5. QED
    BY <1>2, <1>4 DEF MirrorInv

(* Initially no device holds anything. *)
LEMMA InitMirrorInv == Init => MirrorInv
  <1> SUFFICES ASSUME Init PROVE MirrorInv
    OBVIOUS
  <1>1. /\ Empty.rev = 0 /\ Empty.settings.showRecentViews /\ Empty.privacy = NoRow
        /\ \A w \in Work : /\ Empty.shown[w] = NoRow /\ Empty.done[w] = NoRow
                           /\ Empty.works[w] = 0
    BY DEF Empty
  <1>2. 0 <= 0
    BY SMT
  <1>3. Owned(Empty) /\ Ordered(Empty)
    BY <1>1, <1>2 DEF Owned, Ordered
  <1>4. Empty \in DB
    BY InitIInv DEF IInv, TypeOK, Init
  <1>5. QED
    BY <1>3, <1>4, BlankFollows DEF Init, MirrorInv

(* Every step. *)
LEMMA NextMirrorInv ==
    ASSUME IInv, MirrorInv, [Next]_vars, ~Overtaken, ~OpensLate, ~ReturnsUnseen
    PROVE  MirrorInv'
  <1>1. TypeOK /\ DOMAIN db.settings = Switch
    BY SMT DEF IInv, TypeOK, DB, Settings, Switch
  <1>2. ASSUME NEW w \in Work, NEW at \in {t \in 0..now : now - t <= Late}, AddView(w, at)
        PROVE  MirrorInv'
    BY <1>1, <1>2, AccountStep
  <1>3. ASSUME NEW w \in Work, RemoveView(w) \/ Complete(w)
        PROVE  MirrorInv'
    BY <1>1, <1>3, AccountStep
  <1>4. ASSUME NEW field \in Switch, NEW on \in BOOLEAN,
               Patch(field, on) \/ \E w \in Work : ViewThenPatch(w, field, on)
        PROVE  MirrorInv'
    BY <1>1, <1>4, SwitchStep
  <1>5. ASSUME NEW f \in Device, Poll(f) \/ Audit(f)
        PROVE  MirrorInv'
    BY <1>1, <1>5, PollStep
  <1>6. CASE Pulse
    BY <1>1, <1>6, PublicationStep
  <1>7. CASE Advance \/ UNCHANGED vars
    BY <1>7 DEF Advance, vars, MirrorInv
  <1>8. QED
    BY <1>1, <1>2, <1>3, <1>4, <1>5, <1>6, <1>7 DEF Next

-------------------------------------------------------------------------------

(* A device at the server's revision holds every row friends may have, as it *)
(* is now, and no other: nothing that was taken back or deleted.             *)
THEOREM HistoryMirrors ==
    ASSUME ~Overtaken, ~OpensLate, ~ReturnsUnseen
    PROVE  Spec => []MirrorMatches
  <1>1. IInv /\ MirrorInv /\ [Next]_vars => IInv' /\ MirrorInv'
    BY NextIInv, NextMirrorInv
  <1>2. ASSUME IInv, MirrorInv PROVE MirrorMatches
    <2> SUFFICES ASSUME NEW f \in Device, mirror[f].cursor = db.rev
                 PROVE  /\ \A w \in Work : mayCarry(db, w) => mirror[f].shown[w] = carried(db.shown[w])
                        /\ \A w \in Work : mirror[f].shown[w] # NoRow =>
                               db.shown[w] # NoRow /\ db.shown[w].published
                        /\ mirror[f].done = {w \in Work : db.done[w] # NoRow /\ db.done[w].social = Public}
                        /\ mirror[f].works = {w \in Work : db.works[w] > 0}
      BY DEF MirrorMatches
    <2>1. /\ db \in DB /\ mirror[f] \in Mirror /\ mirror[f].done \subseteq Work
          /\ mirror[f].works \subseteq Work
      BY <1>2 DEF IInv, TypeOK, Mirror
    <2>2. Ordered(db) /\ \A w \in Work : FollowsWork(mirror[f], db, w)
      BY <1>2 DEF MirrorInv, Follows
    <2>3. ~Purgeable(mirror[f], db)
      <3>1. \A n \in Nat : n <= db.rev => ~(db.rev < n)
        BY <2>1, Revisions, SMT
      <3>2. QED
        BY <2>1, <2>2, <3>1, Revisions DEF Purgeable, Ordered
    <2>4. ASSUME NEW w \in Work
          PROVE  /\ mayCarry(db, w) => mirror[f].shown[w] = carried(db.shown[w])
                 /\ mirror[f].shown[w] # NoRow => db.shown[w] # NoRow /\ db.shown[w].published
                 /\ w \in mirror[f].done <=> db.done[w] # NoRow /\ db.done[w].social = Public
                 /\ w \in mirror[f].works <=> 0 < db.works[w]
      BY <2>2, <2>3 DEF FollowsWork, Ordered, OrderedRow, mayCarry, isOut
    <2>5. QED
      BY <2>1, <2>4
  <1>3. QED
    BY <1>1, <1>2, InitIInv, InitMirrorInv, PTL DEF Spec

(* What friends are shown as read the account has in its own history: no     *)
(* order of operations leaves a row in the public table that the private one *)
(* has removed or never had.                                                 *)
THEOREM HistoryOwned ==
    ASSUME ~Overtaken, ~OpensLate, ~ReturnsUnseen
    PROVE  Spec => []ShownIsOwned
  <1>1. IInv /\ MirrorInv /\ [Next]_vars => IInv' /\ MirrorInv'
    BY NextIInv, NextMirrorInv
  <1>2. MirrorInv => ShownIsOwned
    BY DEF MirrorInv, Owned, ShownIsOwned, mayCarry
  <1>3. QED
    BY <1>1, <1>2, InitIInv, InitMirrorInv, PTL DEF Spec
===============================================================================
