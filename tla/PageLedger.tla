----------------------------- MODULE PageLedger -----------------------------
(***************************************************************************)
(* What content publishing promises of the pages of a site, without slugs, *)
(* dates, runs or faults: a text comes on a page as a version of a draft,  *)
(* or because a human asks for it; a page becomes public as such a text,   *)
(* or because it was scheduled and waits for no review; no human's save    *)
(* ends the wait for a review; a deleted page stays deleted; and only a    *)
(* draft that has been on a page counts as published                       *)
(* (publish-draft.ts:132-206, publish/route.ts:139-165).                   *)
(***************************************************************************)
EXTENDS Naturals

CONSTANTS Pages, Drafts, Typed

VARIABLES shelf,    \* status, gate and text of each page
          version,  \* the latest version of each draft
          put,      \* drafts that have been on a page
          marked,   \* drafts that count as published
          asked     \* what humans have asked for so far

pageVars == <<shelf, version, put, marked, asked>>

LiveStatuses == {"draft", "scheduled", "published"}

Row(status, gated, text) == [status |-> status, gated |-> gated, says |-> text]

Live(i) == shelf[i].status \in LiveStatuses

PageInit ==
    /\ shelf \in [Pages -> [status : {"unborn", "scheduled"}, gated : BOOLEAN, says : {Typed}]]
    /\ version = [d \in Drafts |-> 0]
    /\ put = {} /\ marked = {} /\ asked = 0

Become(i, row) == shelf' = [shelf EXCEPT ![i] = row]

Ask == asked' = asked + 1

Publish(i, d) ==
    /\ shelf[i].status # "deleted"
    /\ \E v \in 0..version[d] : Become(i, Row("published", FALSE, <<d, v>>))
    /\ put' = put \cup {d}
    /\ UNCHANGED <<version, marked, asked>>

Save(i) ==
    /\ Ask /\ shelf[i].status # "deleted"
    /\ \E status \in LiveStatuses : Become(i, Row(status, Live(i) /\ shelf[i].gated, Typed))
    /\ UNCHANGED <<version, put, marked>>

Remove(i) ==
    /\ Ask /\ Live(i)
    /\ Become(i, Row("deleted", FALSE, Typed))
    /\ UNCHANGED <<version, put, marked>>

Release(due) ==
    /\ \A i \in due : shelf[i].status = "scheduled" /\ ~shelf[i].gated
    /\ shelf' = [i \in Pages |-> IF i \in due THEN [shelf[i] EXCEPT !.status = "published"]
                                 ELSE shelf[i]]
    /\ UNCHANGED <<version, put, marked, asked>>

Revise(d) ==
    /\ Ask
    /\ version' = [version EXCEPT ![d] = @ + 1]
    /\ UNCHANGED <<shelf, put, marked>>

Mark(d) ==
    /\ d \in put /\ marked' = marked \cup {d}
    /\ UNCHANGED <<shelf, version, put, asked>>

Unmark(d) ==
    /\ marked' = marked \ {d}
    /\ Ask \/ UNCHANGED asked
    /\ UNCHANGED <<shelf, version, put>>

PageNext ==
    \/ \E d \in Drafts : Unmark(d) \/ Mark(d) \/ Revise(d)
    \/ \E i \in Pages : Remove(i) \/ Save(i) \/ \E d \in Drafts : Publish(i, d)
    \/ \E due \in SUBSET Pages : Release(due)

PageSpec == PageInit /\ [][PageNext]_pageVars
=============================================================================
