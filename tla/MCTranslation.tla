---------------------------- MODULE MCTranslation ----------------------------
(* Two pages of one chapter, one of another; one reader.                       *)
EXTENDS Translation
CONSTANTS p1, p2, q1, u1, c1, c2, learned

mcChapterOf == [p \in {p1, p2, q1} |-> IF p = q1 THEN c2 ELSE c1]
mcIndexOf == [p \in {p1, p2, q1} |-> IF p = p2 THEN 2 ELSE 1]
mc(k, p) == [kind |-> k, user |-> u1, target |-> p, batch |-> FALSE]
batched(p) == [mc("text", p) EXCEPT !.batch = TRUE]
text(p) == {mc("text", p)}
fast(p) == {mc("fast", p)}
page(p) == {mc("page", p)}
learn == {mc("learn", learned)}
batch == {batched(p1), batched(p2)}
alone(p) == {batched(p)}
(* One page asked for three times; a batch beside a page of its chapter; three *)
(* pages, two of one chapter, one in a batch of its own; the Arabic chapters   *)
(* twice beside a page.                                                        *)
mcPlans == {<<text(p1), fast(p1), text(p1)>>, <<batch, page(p1)>>,
            <<page(p1), alone(p2), page(q1)>>, <<learn, learn, text(p2)>>}
===============================================================================
