------------------------------ MODULE Translation ------------------------------
(***************************************************************************)
(* Paid translation of comic pages on the sync Worker                        *)
(* (services/sync-worker/src/translate.ts, translation-batch.ts).            *)
(*                                                                         *)
(* A request looks for a saved answer, claims its page, reserves money of    *)
(* the month and a page of the account's week, asks the provider, once more  *)
(* for what is missing and once more for a forbidden word, and saves answer  *)
(* and bill in one transaction; on any other way out it gives everything     *)
(* back.  Every step is one statement or one batch of D1: requests           *)
(* interleave between them, a Worker may die at any point and D1 may fail.   *)
(*                                                                         *)
(* One call of the client is one request, or, with text-batch, several       *)
(* pages of a chapter whose questions travel to the provider together and    *)
(* whose vocabulary is stored together, in the order of the pages.           *)
(*                                                                         *)
(* The week and the month are one period; all jobs belong to one work, with  *)
(* one word to remember; an answer is known by how much of its page it       *)
(* covers, the regions of a page being the same for all who ask.  A question *)
(* costs 1, the most one can.                                                *)
(***************************************************************************)
EXTENDS Integers, Sequences, FiniteSets

CONSTANTS
    User,
    Page,          \* page hashes
    Chapter,
    None,
    ChapterOf,     \* the chapter of a page
    IndexOf,       \* its place there
    Learned,       \* what learning from the Arabic chapters is keyed by
    Plans,         \* what clients may call for: sequences of sets of jobs, a text-batch
                   \* or one job alone
    Reserve,       \* RESERVE_USD, in questions
    Budget,        \* TRANSLATE_MONTHLY_BUDGET_USD
    PageLimit,     \* TRANSLATE_WEEKLY_PAGES
    ChapterLimit,  \* TRANSLATE_WEEKLY_CHAPTERS
    ClaimTTL,      \* three minutes
    MaxRequests,
    MaxTime,
    MaxTroubles,   \* Workers that die and statements that fail
    Overtaken,     \* whether a page may be saved between another request's look
                   \* at it and that request's claim
    Slow,          \* whether a request may outlast its claim
    AnswerLost,    \* whether D1 may save and the Worker not hear of it
    Unheard        \* whether the provider may be paid for an answer that never arrives

Request == 1..MaxRequests
Kind == {"text", "fast", "page", "learn"}
Target == Page \cup {Learned}
Job == {j \in [kind : Kind, user : User, target : Target, batch : BOOLEAN] :
            /\ j.kind = "learn" <=> j.target = Learned
            /\ j.batch => j.kind \in {"text", "fast"}}

(* What handleTranslateTextBatch accepts as one call: distinct pages of one   *)
(* chapter, in one mode.                                                      *)
OneChapter(c) ==
    \A j, k \in c : j # k =>
        /\ j.batch /\ k.batch /\ j.kind = k.kind
        /\ j.user = k.user /\ ChapterOf[j.target] = ChapterOf[k.target]
        /\ j.target # k.target /\ IndexOf[j.target] # IndexOf[k.target]

ASSUME TranslationAssumption ==
    /\ User # {} /\ None \notin Chapter \cup Nat /\ Learned \notin Page
    /\ ChapterOf \in [Page -> Chapter] /\ IndexOf \in [Page -> Nat]
    /\ Plans \subseteq Seq(SUBSET Job)
    /\ \A plan \in Plans : \A i \in DOMAIN plan :
          IsFiniteSet(plan[i]) /\ plan[i] # {} /\ OneChapter(plan[i])
    /\ {Budget, PageLimit, ChapterLimit, ClaimTTL, MaxRequests,
        MaxTime, MaxTroubles} \subseteq Nat
    /\ Reserve \in Nat
    /\ {Overtaken, Slow, AnswerLost, Unheard} \subseteq BOOLEAN

VARIABLES
    now,
    todo,      \* the calls still to come
    row,       \* translation_pages and translation_style: how complete an answer is
    claim,     \* translation_inflight: when it was taken
    usd,       \* translation_spend
    reserved,
    pages,     \* translation_usage
    chapters,  \* translation_usage_chapters
    term,      \* translation_terms: where the word's wording comes from
    req,       \* the requests made so far
    troubles

vars == <<now, todo, row, claim, usd, reserved, pages, chapters, term, req, troubles>>

(* What is stored: nothing, an answer to other regions than those asked      *)
(* about, one with regions unanswered, a whole one.                          *)
Answer == {"empty", "holes", "full"}
Stored == Answer \cup {"none"}
rank(a) == CASE a = "none" -> 0 [] a = "empty" -> 1 [] a = "holes" -> 2 [] a = "full" -> 3

Engine == Kind
Wording == [origin : {"none", "model", "learned"}, chapter : Chapter \cup {None},
            index : Nat \cup {None}]

Ended == {"done", "dead"}
Asking == {"ask", "again", "correct"}
PC == {"new", "look", "second", "claim", "wait", "admit", "count", "unreserve", "check",
       "save", "refund", "release"} \cup Asking \cup Ended

(* cost: what the provider was paid, as the Worker has been told; unheard:   *)
(* and without its knowing; holds, counted and opened: what the request has  *)
(* had of the month, the week and the chapters, and not given back; billed:  *)
(* its cost is in usd; word: what became of the vocabulary it brought.       *)
Req == [pc : PC, call : Request, job : Job, engine : Engine, at : Nat,
        repairing : BOOLEAN, got : Stored, cost : 0..3, unheard : Nat,
        holds : BOOLEAN, counted : BOOLEAN, opened : BOOLEAN, billed : BOOLEAN,
        word : {"none", "due", "kept"}]

-------------------------------------------------------------------------------
(* Helpers *)

live(r) == req[r].pc \notin Ended \cup {"new"}
kind(r) == req[r].job.kind
user(r) == req[r].job.user
target(r) == req[r].job.target
isText(r) == kind(r) \in {"text", "fast"}
stored(r) == row[target(r)][req[r].engine]
chapterKey(r) == IF kind(r) = "learn" THEN None ELSE ChapterOf[target(r)]
fellows(r) == {q \in Request : req[q].pc # "new" /\ req[q].call = req[r].call}
deferMemory(r) == req[r].job.batch

less(a, b) == IF a < b THEN 0 ELSE a - b   \* MAX(0, a - b)

(* Where a request goes that is over: only those for text hold a claim.      *)
leaving(r) == IF isText(r) THEN "release" ELSE "done"

(* What is left of a request that has ended, at p: its memory is gone. *)
forgotten(q, p) == [q EXCEPT !.pc = p, !.engine = q.job.kind, !.at = 0,
                             !.repairing = FALSE, !.got = "none"]

(* A request goes on at p. *)
at(q, p) == IF p \in Ended THEN forgotten(q, p) ELSE [q EXCEPT !.pc = p]
to(r, p) == req' = [req EXCEPT ![r] = at(@, p)]

Trouble == troubles < MaxTroubles /\ troubles' = troubles + 1

-------------------------------------------------------------------------------
(* The word the work's pages have in common. *)

(* Mutant: the page that is stored last decides. *)
remembered_last(t, r) ==
    CASE kind(r) = "learn" -> [t EXCEPT !.origin = "learned"]
      [] kind(r) # "learn" /\ t.origin = "none" ->
            [origin |-> "model", chapter |-> IF isText(r) THEN chapterKey(r) ELSE None,
             index |-> IF isText(r) THEN IndexOf[target(r)] ELSE None]
      [] isText(r) /\ t.origin = "model" /\ t.chapter = chapterKey(r) ->
            [t EXCEPT !.index = IndexOf[target(r)]]
      [] OTHER -> t

(* The first decision stands, but an earlier page of the same chapter        *)
(* overrides a later one and the Arabic edition overrides the model.         *)
remembered(t, r) ==
    CASE kind(r) = "learn" -> [t EXCEPT !.origin = "learned"]
      [] kind(r) # "learn" /\ t.origin = "none" ->
            [origin |-> "model", chapter |-> IF isText(r) THEN chapterKey(r) ELSE None,
             index |-> IF isText(r) THEN IndexOf[target(r)] ELSE None]
      [] isText(r) /\ t.origin = "model" /\ t.chapter = chapterKey(r)
                   /\ IndexOf[target(r)] < t.index ->
            [t EXCEPT !.index = IndexOf[target(r)]]
      [] OTHER -> t

(* What a batch brought, applied in the order of its pages. *)
inOrder(S) ==
    LET after[T \in SUBSET S] ==
            IF T = {} THEN term
            ELSE LET last == CHOOSE r \in T : \A q \in T :
                                IndexOf[target(q)] <= IndexOf[target(r)]
                 IN remembered(after[T \ {last}], last)
    IN after[S]

-------------------------------------------------------------------------------
Unmade == [pc |-> "new", call |-> 1, job |-> CHOOSE j \in Job : TRUE,
           engine |-> "text", at |-> 0, repairing |-> FALSE, got |-> "none",
           cost |-> 0, unheard |-> 0, holds |-> FALSE, counted |-> FALSE, opened |-> FALSE,
           billed |-> FALSE, word |-> "none"]

Init ==
    /\ now = 0 /\ todo \in Plans
    /\ row = [t \in Target |-> [e \in Engine |-> "none"]]
    /\ claim = [t \in Target |-> [e \in Engine |-> None]]
    /\ usd = 0 /\ reserved = 0
    /\ pages = [u \in User |-> 0]
    /\ chapters = [u \in User |-> {}]
    /\ term = [origin |-> "none", chapter |-> None, index |-> None]
    /\ req = [r \in Request |-> Unmade]
    /\ troubles = 0

week == <<pages, chapters>>
month == <<usd, reserved>>
store == <<row, term>>

(* The next call arrives: its pages are requests of their own from the start, *)
(* numbered in their order.                                                   *)
Arrive ==
    /\ todo # <<>> /\ todo' = Tail(todo)
    /\ \E n \in Request :
          LET mine == n .. n + Cardinality(Head(todo)) - 1 IN
          /\ \A r \in Request : req[r].pc = "new" <=> r >= n
          /\ mine \subseteq Request
          /\ \E jobs \in [mine -> Head(todo)] :
                /\ \A r, q \in mine : r < q =>
                        IndexOf[jobs[r].target] < IndexOf[jobs[q].target]
                /\ req' = [r \in Request |->
                            IF r \in mine
                            THEN [Unmade EXCEPT !.pc = "look", !.call = n, !.at = now,
                                                !.job = jobs[r], !.engine = jobs[r].kind]
                            ELSE req[r]]
    /\ UNCHANGED <<now, claim, store, month, week, troubles>>

(* What the look at a row of an engine leads a request for text to. *)
found(r, e) ==
    LET old == row[target(r)][e] IN
    IF old = "full" THEN at(req[r], "done")
    ELSE [req[r] EXCEPT !.pc = "claim", !.engine = e, !.repairing = (old = "holes"),
                        !.got = IF old = "holes" THEN "holes" ELSE "none"]

(* The saved answer, to a fast request the one of quality first.  What was    *)
(* learned from another chapter is no answer to a lesson.                     *)
Look(r) ==
    /\ req[r].pc = "look"
    /\ \/ /\ isText(r) /\ (kind(r) = "text" \/ row[target(r)]["text"] # "none")
          /\ req' = [req EXCEPT ![r] = found(r, "text")]
       \/ /\ kind(r) = "fast" /\ row[target(r)]["text"] = "none"
          /\ to(r, "second")
       \/ /\ ~isText(r) /\ stored(r) # "none"
          /\ to(r, "done")
       \/ /\ ~isText(r) /\ (stored(r) = "none" \/ kind(r) = "learn")
          /\ to(r, "admit")
    /\ UNCHANGED <<now, todo, claim, store, month, week, troubles>>

LookAgain(r) ==
    /\ req[r].pc = "second"
    /\ req' = [req EXCEPT ![r] = found(r, "fast")]
    /\ UNCHANGED <<now, todo, claim, store, month, week, troubles>>

(* Mutant: a claim is taken over whatever its age. *)
Claim_anyAge(r) ==
    /\ req[r].pc = "claim"
    /\ claim' = [claim EXCEPT ![target(r)][req[r].engine] = req[r].at]
    /\ to(r, "admit")
    /\ UNCHANGED <<now, todo, store, month, week, troubles>>

(* One of those that want the page translates it, the others wait; a claim   *)
(* older than ClaimTTL is an orphan's.                                       *)
Claim(r) ==
    LET taken == claim[target(r)][req[r].engine]
        free == taken # None => taken < req[r].at - ClaimTTL
    IN /\ req[r].pc = "claim"
       /\ \/ /\ free
             /\ claim' = [claim EXCEPT ![target(r)][req[r].engine] = req[r].at]
             /\ to(r, "admit")
          \/ ~free /\ to(r, "wait") /\ UNCHANGED claim
       /\ UNCHANGED <<now, todo, store, month, week, troubles>>

(* It reads every second, at most 25 times: what it waits for is saved, or   *)
(* the claim is gone, or it has waited enough.                               *)
Wait(r) ==
    /\ req[r].pc = "wait"
    /\ to(r, "done")
    /\ UNCHANGED <<now, todo, claim, store, month, week, troubles>>

(* Mutant: what others have reserved does not count. *)
Admit_spentOnly(r) ==
    /\ req[r].pc = "admit"
    /\ \/ /\ usd < Budget
          /\ reserved' = reserved + Reserve
          /\ req' = [req EXCEPT ![r].holds = TRUE,
                                ![r].pc = IF req[r].repairing THEN "again" ELSE "count"]
          /\ UNCHANGED <<usd, troubles>>
       \/ usd >= Budget /\ to(r, leaving(r)) /\ UNCHANGED <<month, troubles>>
       \/ Trouble /\ to(r, leaving(r)) /\ UNCHANGED month
    /\ UNCHANGED <<now, todo, claim, store, week>>

(* admit, first batch: the money of one page, if the month has room. *)
Admit(r) ==
    /\ req[r].pc = "admit"
    /\ \/ /\ usd + reserved < Budget
          /\ reserved' = reserved + Reserve
          /\ req' = [req EXCEPT ![r].holds = TRUE,
                                ![r].pc = IF req[r].repairing THEN "again" ELSE "count"]
          /\ UNCHANGED <<usd, troubles>>
       \/ usd + reserved >= Budget /\ to(r, leaving(r)) /\ UNCHANGED <<month, troubles>>
       \/ Trouble /\ to(r, leaving(r)) /\ UNCHANGED month
    /\ UNCHANGED <<now, todo, claim, store, week>>

(* The week has room: for pages or for chapters. *)
under(u) == pages[u] < PageLimit \/ Cardinality(chapters[u]) < ChapterLimit

(* admit, second batch: a chapter is opened if the week has room, and the    *)
(* page is counted if its chapter is open.                                   *)
Count(r) ==
    LET u == user(r)
        c == chapterKey(r)
        opens == c # None /\ c \notin chapters[u] /\ under(u)
        counts == IF c = None THEN under(u) ELSE c \in chapters[u] \/ opens
    IN /\ req[r].pc = "count"
       /\ \/ /\ counts
             /\ pages' = [pages EXCEPT ![u] = @ + 1]
             /\ chapters' = [chapters EXCEPT ![u] = IF opens THEN @ \cup {c} ELSE @]
             /\ req' = [req EXCEPT ![r].counted = TRUE, ![r].opened = opens, ![r].pc = "ask"]
             /\ UNCHANGED troubles
          \/ ~counts /\ to(r, "unreserve") /\ UNCHANGED <<week, troubles>>
          \/ Trouble /\ to(r, leaving(r)) /\ UNCHANGED week
       /\ UNCHANGED <<now, todo, claim, store, month>>

(* The week is full: the money goes back, in a batch of its own. *)
Unreserve(r) ==
    /\ req[r].pc = "unreserve"
    /\ \/ /\ reserved' = less(reserved, Reserve)
          /\ req' = [req EXCEPT ![r] = at([@ EXCEPT !.holds = FALSE], leaving(r))]
          /\ UNCHANGED <<usd, troubles>>
       \/ Trouble /\ to(r, leaving(r)) /\ UNCHANGED month
    /\ UNCHANGED <<now, todo, claim, store, week>>

-------------------------------------------------------------------------------
(* The provider: refused or failed without a bill, failed with one, or an    *)
(* answer to the regions asked about.  What is lost on the way looks like    *)
(* the first and may have been paid for.                                     *)
Failure == {"unpaid"} \cup (IF Unheard THEN {"lost"} ELSE {})
Reply == Failure \cup {"paid"} \cup Answer
bill(a) == IF a \in Failure THEN 0 ELSE 1
hidden(a) == IF a = "lost" THEN 1 ELSE 0

asked(q, a) == [q EXCEPT !.cost = @ + bill(a), !.unheard = @ + hidden(a)]

(* Mutant: a repair keeps the regions asked about and drops the saved ones.  *)
merged_drops(q, a) == IF a \in Answer THEN a ELSE q.got

(* The regions asked about again replace those that were missing.            *)
merged(q, a) ==
    CASE a = "full" -> "full"
      [] a = "holes" -> "holes"
      [] OTHER -> q.got

(* What a request for text makes of a reply, by the question it had asked:   *)
(* a failed second question leaves the first answer as it is, unless the     *)
(* first answer was the saved one; a failed correction is done without.      *)
textAnswered(q, a) ==
    LET paid == asked(q, a) IN
    CASE q.pc = "ask" /\ a \in Answer ->
            [paid EXCEPT !.got = a, !.pc = IF a = "full" THEN "check" ELSE "again"]
      [] q.pc = "again" /\ (a \in Answer \/ ~q.repairing) ->
            [paid EXCEPT !.got = merged(q, a), !.pc = "check"]
      [] q.pc = "correct" ->
            [paid EXCEPT !.got = IF a = "full" THEN "full" ELSE @, !.pc = "save"]
      [] OTHER -> [paid EXCEPT !.pc = "refund"]

(* A page sent whole, or pairs to learn from: what comes back is the answer. *)
pageAnswered(q, a) ==
    LET paid == asked(q, a) IN
    IF a \in Answer THEN [paid EXCEPT !.got = "full", !.pc = "save"]
    ELSE [paid EXCEPT !.pc = "refund"]

pending(c) == {r \in Request : live(r) /\ req[r].call = c /\ req[r].pc \in Asking}

(* Mutant: the questions of a batch wait for all its pages. *)
dispatched_all(c) == pending(c) # {} /\ \A r \in pending(c) : fellows(r) = pending(c)

(* The questions of a call leave when its last page has come, or, since a    *)
(* page may need none, 30 ms after the first.                                *)
dispatched(c) == pending(c) # {}

(* They share one request to the provider: it fails for all of them or gives *)
(* every page an answer, or a failure, and its share of the bill.            *)
Flush(c) ==
    /\ dispatched(c)
    /\ \E replies \in [pending(c) -> Reply] :
          /\ \A r, q \in pending(c) : replies[r] \in Failure => replies[q] = replies[r]
          /\ req' = [r \in Request |->
                        IF r \notin pending(c) THEN req[r]
                        ELSE IF isText(r) THEN textAnswered(req[r], replies[r])
                        ELSE pageAnswered(req[r], replies[r])]
    /\ UNCHANGED <<now, todo, claim, store, month, week, troubles>>

(* An answer breaks the rule on one word: the regions are asked about again. *)
Correct(r) ==
    /\ req[r].pc = "check" /\ req[r].got # "empty"
    /\ to(r, "correct")
    /\ UNCHANGED <<now, todo, claim, store, month, week, troubles>>

-------------------------------------------------------------------------------
(* The end of a request *)

(* Nobody is between the look at the page and its claim. *)
unwatched(r) ==
    \A q \in Request \ {r} : ~(/\ req[q].pc = "claim" /\ target(q) = target(r)
                               /\ req[q].engine = req[r].engine)

(* The batch that saves: a text replaces what was saved, a page sent whole   *)
(* does not.                                                                 *)
saving(r) ==
    /\ Overtaken \/ unwatched(r)
    /\ row' = [row EXCEPT ![target(r)][req[r].engine] =
                    IF kind(r) = "page" /\ @ # "none" THEN @ ELSE req[r].got]
    /\ usd' = usd + req[r].cost /\ reserved' = less(reserved, Reserve)

Save(r) ==
    LET defers == deferMemory(r) IN
    /\ req[r].pc \in {"check", "save"}
    /\ \/ /\ saving(r)
          /\ term' = IF req[r].repairing \/ defers THEN term ELSE remembered(term, r)
          /\ req' = [req EXCEPT ![r] = at([@ EXCEPT
                        !.holds = FALSE, !.billed = TRUE,
                        !.word = IF req[r].repairing THEN "none"
                                 ELSE IF defers THEN "due" ELSE "kept"], leaving(r))]
          /\ UNCHANGED troubles
       \/ /\ Trouble /\ to(r, "refund") /\ UNCHANGED term
          /\ \E done \in {FALSE, AnswerLost} :
                IF done THEN saving(r) ELSE UNCHANGED <<row, month>>
    /\ UNCHANGED <<now, todo, claim, week>>

(* Mutant: the page of a repair, never counted, is given back too. *)
unpages_always(r) == TRUE

unpages(r) == ~req[r].repairing

(* Mutant: what the provider was paid for a failure is forgotten. *)
incurred_none(r) == 0

(* Only the requests for text know what a failure has cost. *)
incurred(r) == IF isText(r) THEN req[r].cost ELSE 0

(* refund: what was reserved and counted goes back, the chapter too if this  *)
(* request opened it; what the provider was paid stays.                      *)
Refund(r) ==
    LET u == user(r) IN
    /\ req[r].pc = "refund"
    /\ \/ /\ pages' = [pages EXCEPT ![u] = IF unpages(r) THEN less(@, 1) ELSE @]
          /\ chapters' = [chapters EXCEPT ![u] = IF req[r].opened THEN @ \ {chapterKey(r)} ELSE @]
          /\ reserved' = less(reserved, Reserve) /\ usd' = usd + incurred(r)
          /\ req' = [req EXCEPT ![r] = at([@ EXCEPT
                        !.holds = FALSE, !.counted = FALSE, !.opened = FALSE,
                        !.billed = isText(r)], leaving(r))]
          /\ UNCHANGED troubles
       \/ Trouble /\ to(r, leaving(r)) /\ UNCHANGED <<month, week>>
    /\ UNCHANGED <<now, todo, claim, store>>

(* releasePage: whoever's claim it is. *)
Release(r) ==
    /\ req[r].pc = "release"
    /\ to(r, "done")
    /\ \/ /\ claim' = [claim EXCEPT ![target(r)][req[r].engine] = None]
          /\ UNCHANGED troubles
       \/ Trouble /\ UNCHANGED claim
    /\ UNCHANGED <<now, todo, store, month, week>>

(* A batch has all its answers: its vocabulary is stored, or lost.           *)
Remember(c) ==
    LET due == {r \in Request : req[r].call = c /\ req[r].word = "due"}
        become(w) == req' = [r \in Request |-> IF r \in due THEN [req[r] EXCEPT !.word = w] ELSE req[r]]
    IN /\ due # {} /\ \A r \in due : \A q \in fellows(r) : req[q].pc = "done"
       /\ \/ term' = inOrder(due) /\ become("kept") /\ UNCHANGED troubles
          \/ Trouble /\ become("none") /\ UNCHANGED term
       /\ UNCHANGED <<now, todo, row, claim, month, week>>

(* A Worker dies with the call it serves. *)
Die(c) ==
    /\ \E r \in Request : live(r) /\ req[r].call = c
    /\ Trouble
    /\ req' = [r \in Request |-> IF live(r) /\ req[r].call = c
                                 THEN forgotten(req[r], "dead") ELSE req[r]]
    /\ UNCHANGED <<now, todo, claim, store, month, week>>

(* Time passes; unless Slow, no request outlasts its claim. *)
Tick ==
    /\ now < MaxTime
    /\ Slow \/ \A r \in Request : live(r) => now < req[r].at + ClaimTTL
    /\ now' = now + 1
    /\ UNCHANGED <<todo, claim, store, month, week, req, troubles>>

-------------------------------------------------------------------------------
Step(r) == \/ Look(r) \/ LookAgain(r) \/ Claim(r) \/ Wait(r) \/ Admit(r) \/ Count(r)
           \/ Unreserve(r) \/ Correct(r) \/ Save(r) \/ Refund(r) \/ Release(r)

Next ==
    \/ Arrive
    \/ \E r \in Request : Step(r) \/ Flush(r) \/ Remember(r) \/ Die(r)
    \/ Tick

Spec == Init /\ [][Next]_vars

(* While a request is at work some statement of one, or some question,       *)
(* comes to its end.                                                         *)
FairSpec == Spec /\ WF_vars(\E r \in Request : Step(r) \/ Flush(r))

-------------------------------------------------------------------------------
(* Properties *)

(* The values of the variables; no request is billed more than three times.  *)
TypeOK ==
    /\ now \in Nat /\ usd \in Nat /\ reserved \in Nat
    /\ row \in [Target -> [Engine -> Stored]]
    /\ claim \in [Target -> [Engine -> Nat \cup {None}]]
    /\ pages \in [User -> Nat] /\ chapters \in [User -> SUBSET Chapter]
    /\ req \in [Request -> Req]
    /\ troubles \in 0..MaxTroubles

Made == {r \in Request : req[r].pc # "new"}
Holders == {r \in Request : req[r].holds}
Counted(u) == {r \in Request : req[r].counted /\ user(r) = u}
Openers(u) == {r \in Request : req[r].opened /\ user(r) = u}

(* A reservation covers all the questions of a request.  RESERVE_USD does so  *)
(* for all but three of the greatest length; the two properties of the        *)
(* month's money rest on it.                                                  *)
Ample == Reserve >= 3

(* The month's books: the reservations are those of the requests that have    *)
(* not settled, dead ones included, and what is spent and reserved never      *)
(* passes the budget by a whole reservation, whatever runs side by side.      *)
BudgetHeld ==
    /\ reserved = Reserve * Cardinality(Holders)
    /\ usd + reserved < Budget + Reserve

(* What the Worker was told the provider has been paid for text, by requests  *)
(* that ended, failed, died or could not give their reservation back: it is   *)
(* always covered by what is spent and reserved, so this bill keeps to the    *)
(* budget as well.                                                            *)
BillCovered ==
    LET paid == {r \in Request : isText(r) \/ req[r].billed}
        sum[S \in SUBSET paid] == IF S = {} THEN 0
            ELSE LET r == CHOOSE r \in S : TRUE IN req[r].cost + sum[S \ {r}]
    IN sum[paid] <= usd + reserved

(* The week's books: the pages are those of the requests that succeeded, are  *)
(* at work or could not give theirs back, the chapters those such a request   *)
(* opened; and no chapter is begun past both limits.                          *)
QuotaHeld ==
    \A u \in User :
        /\ pages[u] = Cardinality(Counted(u))
        /\ Cardinality(chapters[u]) = Cardinality(Openers(u))
        /\ \/ Cardinality(chapters[u]) <= PageLimit
           \/ Cardinality(chapters[u]) <= ChapterLimit

Claiming == {"admit", "count", "unreserve", "check", "save", "refund", "release"} \cup Asking

(* Two requests never pay for one page at a time, whatever claims the dead    *)
(* have left.                                                                 *)
OnePayer ==
    \A r, q \in Request :
        /\ r # q /\ isText(r) /\ isText(q)
        /\ {req[r].pc, req[q].pc} \subseteq Claiming
        /\ target(r) = target(q)
        => req[r].engine # req[q].engine

(* What is saved for a page is never replaced by less, whoever repairs it and *)
(* however fast.                                                              *)
NeverWorse ==
    [][\A t \in Target, e \in Engine : rank(row'[t][e]) >= rank(row[t][e])]_vars

(* The pages of a chapter agree on a word as its earliest page put it, in     *)
(* whatever order they were answered and saved.                               *)
EarliestWins ==
    \A r \in Request :
        /\ req[r].word = "kept" /\ isText(r)
        /\ term.origin = "model" /\ term.chapter = chapterKey(r)
        => term.index <= IndexOf[target(r)]

(* Every request ends, the pages of a batch too whose fellows needed no       *)
(* question.                                                                  *)
Answered == []<>(\A r \in Request : ~live(r))

-------------------------------------------------------------------------------
(* What the code does not keep (README, 'Known departures')                  *)

(* Whatever the provider was paid for text is covered.  An answer that is     *)
(* lost on the way may have been paid for; the reservation goes back with     *)
(* nothing in its place.                                                      *)
WholeBillCovered ==
    LET paid == {r \in Request : isText(r) \/ req[r].billed}
        sum[S \in SUBSET paid] == IF S = {} THEN 0
            ELSE LET r == CHOOSE r \in S : TRUE
                 IN req[r].cost + req[r].unheard + sum[S \ {r}]
    IN sum[paid] <= usd + reserved
===============================================================================
