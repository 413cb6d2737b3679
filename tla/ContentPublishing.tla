-------------------------- MODULE ContentPublishing --------------------------
(***************************************************************************)
(* Pages (table content) and AI drafts (ai_drafts) of one site: publishDraft *)
(* (lib/automation/publish-draft.ts, called by the automation API and the  *)
(* ai-generate cron), the review queue (app/api/admin/ai-content), the     *)
(* editor (app/api/admin/content and its clone route) and the publish cron *)
(* (app/api/cron/publish).  Everybody reads, waits and then writes; only   *)
(* the index UNIQUE (site_id, slug) is atomic.  A call that fails, or      *)
(* whose answer is lost, is a fault.                                       *)
(***************************************************************************)
EXTENDS Naturals

CONSTANTS
    Drafts,       \* AI drafts, all with the same slug: the contended case
    Human,        \* who writes in the editor
    Publishers,   \* calls of publishDraft under way at one time
    Reviewers,    \* publish requests of the review queue, likewise
    Runs,         \* runs of the publish cron, likewise
    MaxPages,     \* rows ever inserted (bound)
    SlugSuffixMax,
    MaxTime,      \* the clock, and the dates pages are scheduled for (bound)
    MaxEdits,     \* requests of the editor, and edits of drafts (bound)
    MaxFaults     \* failing calls (bound)

ASSUME PublishingAssumption ==
    /\ Human \notin Drafts /\ Publishers \cap Reviewers = {}
    /\ SlugSuffixMax \in Nat \ {0, 1}
    /\ {MaxPages, MaxTime, MaxEdits, MaxFaults} \subseteq Nat

Pages == 1..MaxPages
Workers == Publishers \cup Reviewers

\* Slug 1 is the drafts' own and k the same with suffix -k, as far as publishDraft
\* looks; 0 is any other one.
Slugs == 0..(SlugSuffixMax - 1)

\* A version of what somebody wrote.
Texts == (Drafts \cup {Human}) \X (0..MaxEdits)
Typed == <<Human, 0>>

\* "draft" stands for review and archived too: nothing here tells them apart.
PageStatuses == {"unborn", "draft", "scheduled", "published", "deleted"}

\* The date (0 is null) is kept of a scheduled page only: whoever schedules one
\* may give any.  gated: ai_generated and human_reviewed_at IS NULL.  says: the
\* text, by whom it was written last (a form sends its text whatever it changed).
PageRows == [status : PageStatuses, slug : Slugs, at : 0..MaxTime,
             gated : BOOLEAN, says : Texts]
NoPage(status) ==
    [status |-> status, slug |-> 0, at |-> 0, gated |-> FALSE, says |-> Typed]

\* "open" stands for pending, approved and rejected: no call asks which of them it is.
DraftStatuses == {"open", "published", "deleted"}
DraftRows == [status : DraftStatuses, text : 0..MaxEdits]

Places == {"idle", "choose", "recheck", "look", "insert", "update", "mark"}

VARIABLES
    page, draft,
    now,        \* db_now()
    pc,         \* where a publisher or reviewer is
    says,       \* the text it has read of its draft
    slug,       \* the slug it has settled on so far
    target,     \* the page it found under that slug
    picked,     \* the pages a run of the cron has selected
    edits, faults,
    old,        \* ghost: the pages whose slug has not changed since a publisher began
    written,    \* ghost: the drafts that were ever put on a page
    cleared     \* ghost: the text each reviewer approved last

tables == <<page, draft>>
jobVars == <<pc, says, slug, target, old>>
ghosts == <<written, cleared>>
publishVars == <<tables, now, jobVars, picked, edits, faults, ghosts>>

PublishingTypeOK ==
    /\ page \in [Pages -> PageRows] /\ draft \in [Drafts -> DraftRows]
    /\ now \in 0..MaxTime
    /\ pc \in [Workers -> Places] /\ says \in [Workers -> Texts]
    /\ slug \in [Workers -> Slugs] /\ target \in [Workers -> 0..MaxPages]
    /\ picked \in [Runs -> SUBSET Pages]
    /\ edits \in 0..MaxEdits /\ faults \in 0..MaxFaults
    /\ old \in [Workers -> SUBSET Pages]
    /\ written \subseteq Drafts /\ cleared \in [Reviewers -> Texts]

Fault == faults < MaxFaults /\ faults' = faults + 1
Edit == edits < MaxEdits /\ edits' = edits + 1

-----------------------------------------------------------------------------
(* The table content *)

Live(i) == page[i].status \in {"draft", "scheduled", "published"}

Bears(i, s) == s # 0 /\ Live(i) /\ page[i].slug = s

Taken(s) == \E i \in Pages : Bears(i, s)

\* UNIQUE (site_id, slug) refuses the slug for the page.
Clashes(i, s) == \E j \in Pages \ {i} : Bears(j, s)

\* What a write of content leaves behind; the ghost keeps the pages that stayed.
Put(rows) ==
    /\ page' = rows
    /\ old' = [w \in Workers |-> {i \in old[w] : rows[i].slug = page[i].slug}]

\* Ids are drawn once: a deleted page's is not used again.
NextPage(i) == page[i].status = "unborn" /\ \A j \in 1..(i - 1) : page[j].status # "unborn"

\* INSERT; a clash is an error of its own.
Add(row) ==
    /\ ~Taken(row.slug)
    /\ \E i \in Pages : NextPage(i) /\ Put([page EXCEPT ![i] = row])

Published(s, text) ==
    [status |-> "published", slug |-> s, at |-> 0, gated |-> FALSE, says |-> text]

\* The site as it is when the model starts: at most one page, and drafts to publish.
PublishingInit ==
    /\ page \in {[i \in Pages |-> IF i = 1 THEN row ELSE NoPage("unborn")] :
                 row \in {NoPage("unborn")} \cup
                         [status : {"scheduled"}, slug : {1}, at : {MaxTime},
                          gated : BOOLEAN, says : {Typed}]}
    /\ draft = [d \in Drafts |-> [status |-> "open", text |-> 0]]
    /\ now = 0
    /\ pc = [w \in Workers |-> "idle"] /\ says = [w \in Workers |-> Typed]
    /\ slug = [w \in Workers |-> 0] /\ target = [w \in Workers |-> 0]
    /\ picked = [c \in Runs |-> {}]
    /\ edits = 0 /\ faults = 0
    /\ old = [w \in Workers |-> {}] /\ written = {}
    /\ cleared = [r \in Reviewers |-> Typed]

-----------------------------------------------------------------------------
(* publishDraft *)

\* The request has answered, failed or died.
Leave(w) ==
    /\ pc' = [pc EXCEPT ![w] = "idle"]
    /\ says' = [says EXCEPT ![w] = Typed]
    /\ slug' = [slug EXCEPT ![w] = 0]
    /\ target' = [target EXCEPT ![w] = 0]
    /\ old' = [old EXCEPT ![w] = {}]

Goto(w, place) == pc' = [pc EXCEPT ![w] = place]

\* getAIDraft; the draft's status is not looked at.
ReadDraft(p, d) ==
    /\ pc[p] = "idle" /\ draft[d].status # "deleted"
    /\ Goto(p, "choose")
    /\ says' = [says EXCEPT ![p] = <<d, draft[d].text>>]
    /\ slug' = [slug EXCEPT ![p] = 1]
    /\ old' = [old EXCEPT ![p] = {i \in Pages : Live(i)}]
    /\ UNCHANGED <<tables, now, target, picked, edits, faults, ghosts>>

\* Mutant: one suffix more.
ChooseSlugPast(p) ==
    /\ pc[p] = "choose"
    /\ \/ ~Taken(slug[p]) /\ Goto(p, "recheck") /\ UNCHANGED <<says, slug, target, old>>
       \/ /\ Taken(slug[p]) /\ slug[p] + 1 <= SlugSuffixMax
          /\ slug' = [slug EXCEPT ![p] = @ + 1] /\ UNCHANGED <<pc, says, target, old>>
    /\ UNCHANGED <<tables, now, picked, edits, faults, ghosts>>

\* resolveUniqueSlug, one lookup: the last suffix is never looked up.
ChooseSlug(p) ==
    /\ pc[p] = "choose"
    /\ \/ ~Taken(slug[p]) /\ Goto(p, "recheck") /\ UNCHANGED <<says, slug, target, old>>
       \/ /\ Taken(slug[p]) /\ slug[p] + 1 < SlugSuffixMax
          /\ slug' = [slug EXCEPT ![p] = @ + 1] /\ UNCHANGED <<pc, says, target, old>>
       \/ Taken(slug[p]) /\ slug[p] + 1 >= SlugSuffixMax /\ Leave(p)
    /\ UNCHANGED <<tables, now, picked, edits, faults, ghosts>>

\* Mutant: the second lookup is for the draft's slug.
RecheckBase(p) ==
    /\ pc[p] = "recheck"
    /\ \/ \E i \in Pages : Bears(i, 1) /\ target' = [target EXCEPT ![p] = i] /\ Goto(p, "update")
       \/ ~Taken(1) /\ Goto(p, "insert") /\ UNCHANGED target
    /\ UNCHANGED <<tables, now, says, slug, old, picked, edits, faults, ghosts>>

\* Products are listed and linked in the text; then the second lookup.
Recheck(p) ==
    /\ pc[p] = "recheck"
    /\ \/ \E i \in Pages :
            Bears(i, slug[p]) /\ target' = [target EXCEPT ![p] = i] /\ Goto(p, "update")
       \/ ~Taken(slug[p]) /\ Goto(p, "insert") /\ UNCHANGED target
    /\ UNCHANGED <<tables, now, says, slug, old, picked, edits, faults, ghosts>>

\* updateContent by id, without expectedUpdatedAt, whatever the page is by now.
Overwrite(p) ==
    /\ pc[p] = "update" /\ Live(target[p]) /\ ~Clashes(target[p], slug[p])
    /\ Put([page EXCEPT ![target[p]] = Published(slug[p], says[p])])
    /\ written' = written \cup {says[p][1]}
    /\ Goto(p, "mark")
    /\ UNCHANGED <<draft, now, says, slug, target, picked, edits, faults, cleared>>

\* Mutant: an UPDATE of no row is not an error.
OverwriteNothing(p) ==
    /\ pc[p] = "update" /\ (~Live(target[p]) \/ Clashes(target[p], slug[p]))
    /\ Goto(p, "mark")
    /\ UNCHANGED <<tables, now, says, slug, target, old, picked, edits, faults, ghosts>>

\* No row (.single() throws), or the slug clashes.
OverwriteRefused(p) ==
    /\ pc[p] = "update" /\ (~Live(target[p]) \/ Clashes(target[p], slug[p]))
    /\ Leave(p)
    /\ UNCHANGED <<tables, now, picked, edits, faults, ghosts>>

\* Mutant: the draft is read again.
InsertCurrent(w) ==
    /\ pc[w] = "insert"
    /\ Add(Published(slug[w], <<says[w][1], draft[says[w][1]].text>>))
    /\ written' = written \cup {says[w][1]}
    /\ Goto(w, "mark")
    /\ UNCHANGED <<draft, now, says, slug, target, picked, edits, faults, cleared>>

\* createContent, from publishDraft or from the review queue.
Insert(w) ==
    /\ pc[w] = "insert"
    /\ Add(Published(slug[w], says[w]))
    /\ written' = written \cup {says[w][1]}
    /\ Goto(w, "mark")
    /\ UNCHANGED <<draft, now, says, slug, target, picked, edits, faults, cleared>>

InsertRefused(w) ==
    /\ pc[w] = "insert" /\ Taken(slug[w])
    /\ Leave(w)
    /\ UNCHANGED <<tables, now, picked, edits, faults, ghosts>>

\* updateAIDraft by id; of a deleted draft it returns null, a 404.
MarkPublished(w) ==
    /\ pc[w] = "mark"
    /\ draft' = IF draft[says[w][1]].status = "deleted" THEN draft
                ELSE [draft EXCEPT ![says[w][1]].status = "published"]
    /\ Leave(w)
    /\ UNCHANGED <<page, now, picked, edits, faults, ghosts>>

\* Any call fails, loses its answer or dies; what has been written stays.
GiveUp(w) ==
    /\ pc[w] # "idle" /\ Fault
    /\ Leave(w)
    /\ UNCHANGED <<tables, now, picked, edits, ghosts>>

-----------------------------------------------------------------------------
(* The review queue *)

\* The UPDATE to approved returns the row, whose text is published in the end.
Approve(r, d) ==
    /\ pc[r] = "idle" /\ draft[d].status # "deleted"
    /\ draft' = [draft EXCEPT ![d].status = "open"]
    /\ Goto(r, "look")
    /\ says' = [says EXCEPT ![r] = <<d, draft[d].text>>]
    /\ slug' = [slug EXCEPT ![r] = 1]
    /\ cleared' = [cleared EXCEPT ![r] = <<d, draft[d].text>>]
    /\ UNCHANGED <<page, now, target, picked, edits, faults, old, written>>

\* 409 when the slug is taken.
LookUpSlug(r) ==
    /\ pc[r] = "look"
    /\ IF Taken(slug[r]) THEN Leave(r) ELSE Goto(r, "insert") /\ UNCHANGED <<says, slug, target, old>>
    /\ UNCHANGED <<tables, now, picked, edits, faults, ghosts>>

\* Approve without publishing, reject; the automation API may set any of these.
SetDraftStatus(d) ==
    /\ Edit /\ draft[d].status # "deleted"
    /\ draft' = [draft EXCEPT ![d].status = "open"]
    /\ UNCHANGED <<page, now, jobVars, picked, faults, ghosts>>

EditDraft(d) ==
    /\ Edit /\ draft[d].status # "deleted" /\ draft[d].text < MaxEdits
    /\ draft' = [draft EXCEPT ![d].text = @ + 1]
    /\ UNCHANGED <<page, now, jobVars, picked, faults, ghosts>>

DeleteDraft(d) ==
    /\ Edit /\ draft[d].status # "deleted"
    /\ draft' = [draft EXCEPT ![d].status = "deleted"]
    /\ UNCHANGED <<page, now, jobVars, picked, faults, ghosts>>

-----------------------------------------------------------------------------
(* The editor *)

editorRest == <<draft, now, pc, says, slug, target, picked, faults, ghosts>>

\* What a form may send: any status, any slug, and a date if scheduled.
Forms == {row \in [status : {"draft", "scheduled", "published"}, slug : Slugs,
                   at : 0..MaxTime, gated : {FALSE}, says : {Typed}] :
            row.status = "scheduled" \/ row.at = 0}

CreatePage(form) == Edit /\ Add(form) /\ UNCHANGED editorRest

\* Mutant: a save of the form counts as the review.
SaveReviews(i, form) ==
    /\ Edit /\ Live(i) /\ ~Clashes(i, form.slug)
    /\ Put([page EXCEPT ![i] = form])
    /\ UNCHANGED editorRest

\* The whole form, however long ago it was opened: updated_at is not among the
\* fields validateUpdateContent keeps, so the UPDATE is by id alone.
SavePage(i, form) ==
    /\ Edit /\ Live(i) /\ ~Clashes(i, form.slug)
    /\ Put([page EXCEPT ![i] = [form EXCEPT !.gated = page[i].gated]])
    /\ UNCHANGED editorRest

\* The copy is a draft under a slug of its own, and keeps neither review flag.
ClonePage(i) ==
    /\ Edit /\ Live(i)
    /\ Add(NoPage("draft"))
    /\ UNCHANGED editorRest

DeletePage(i) ==
    /\ Edit /\ Live(i)
    /\ Put([page EXCEPT ![i] = NoPage("deleted")])
    /\ UNCHANGED editorRest

-----------------------------------------------------------------------------
(* The publish cron *)

Tick == now < MaxTime /\ now' = now + 1
        /\ UNCHANGED <<tables, jobVars, picked, edits, faults, ghosts>>

Due(i) == page[i].status = "scheduled" /\ page[i].at # 0 /\ page[i].at <= now

\* Mutant: one page that waits for its review ends the run.
SelectUnlessGated(c) ==
    /\ picked[c] = {}
    /\ ~\E i \in Pages : Due(i) /\ page[i].gated
    /\ picked' = [picked EXCEPT ![c] = {i \in Pages : Due(i)}]
    /\ UNCHANGED <<tables, now, jobVars, edits, faults, ghosts>>

\* db_now(), then the SELECT, then the gate of AI pages nobody has reviewed.
SelectDue(c) ==
    /\ picked[c] = {}
    /\ picked' = [picked EXCEPT ![c] = {i \in Pages : Due(i) /\ ~page[i].gated}]
    /\ UNCHANGED <<tables, now, jobVars, edits, faults, ghosts>>

\* Mutant: the UPDATE is by id alone.
PublishSelected(c) ==
    /\ picked[c] # {}
    /\ Put([i \in Pages |-> IF i \in picked[c] /\ Live(i)
                            THEN [page[i] EXCEPT !.status = "published", !.at = 0]
                            ELSE page[i]])
    /\ picked' = [picked EXCEPT ![c] = {}]
    /\ UNCHANGED <<draft, now, pc, says, slug, target, edits, faults, ghosts>>

\* UPDATE ... WHERE id IN picked AND status = 'scheduled'.
PublishDue(c) ==
    /\ picked[c] # {}
    /\ Put([i \in Pages |-> IF i \in picked[c] /\ page[i].status = "scheduled"
                            THEN [page[i] EXCEPT !.status = "published", !.at = 0]
                            ELSE page[i]])
    /\ picked' = [picked EXCEPT ![c] = {}]
    /\ UNCHANGED <<draft, now, pc, says, slug, target, edits, faults, ghosts>>

RunFails(c) ==
    /\ picked[c] # {} /\ Fault
    /\ picked' = [picked EXCEPT ![c] = {}]
    /\ UNCHANGED <<tables, now, jobVars, edits, ghosts>>

-----------------------------------------------------------------------------
PublisherStep(p) ==
    \/ \E d \in Drafts : ReadDraft(p, d)
    \/ ChooseSlug(p) \/ Recheck(p) \/ Overwrite(p) \/ OverwriteRefused(p)

ReviewerStep(r) ==
    \/ \E d \in Drafts : Approve(r, d)
    \/ LookUpSlug(r)

WorkerStep(w) == Insert(w) \/ InsertRefused(w) \/ MarkPublished(w) \/ GiveUp(w)

DraftStep(d) == SetDraftStatus(d) \/ EditDraft(d) \/ DeleteDraft(d)

EditorStep ==
    \/ \E form \in Forms : CreatePage(form)
    \/ \E i \in Pages : ClonePage(i) \/ DeletePage(i) \/ \E form \in Forms : SavePage(i, form)

CronStep(c) == SelectDue(c) \/ PublishDue(c) \/ RunFails(c)

PublishingNext ==
    \/ \E p \in Publishers : PublisherStep(p)
    \/ \E r \in Reviewers : ReviewerStep(r)
    \/ \E w \in Workers : WorkerStep(w)
    \/ \E d \in Drafts : DraftStep(d)
    \/ EditorStep
    \/ Tick
    \/ \E c \in Runs : CronStep(c)

PublishingSpec == PublishingInit /\ [][PublishingNext]_publishVars

\* The trigger fires every five minutes and a run comes to its end.
PublishingFairness == \A c \in Runs : WF_publishVars(SelectDue(c)) /\ WF_publishVars(PublishDue(c))

FairPublishingSpec == PublishingSpec /\ PublishingFairness
-----------------------------------------------------------------------------
(* Properties *)

\* A draft counts as published only if it has been put on a page, though the
\* page may be deleted, renamed or lose the race for its slug between the
\* lookup and the write (publish-draft.ts:181-203).
MarkedWasWritten == \A d \in Drafts : draft[d].status = "published" => d \in written

\* What publishDraft overwrites came to the slug after the publication began
\* (publish-draft.ts:132-134): no page that was there all the time is replaced,
\* however many publications and editors are at work.
OldPagesStand == \A p \in Publishers : pc[p] = "update" => target[p] \notin old[p]

\* The review queue publishes the text it approved, not what somebody made of
\* the draft in the meantime (ai-content/route.ts:225-266).
ApprovedTextOnly ==
    [][\A r \in Reviewers : pc[r] = "insert" /\ pc'[r] = "mark" =>
        \A i \in Pages : page'[i] # page[i] => page'[i].says = cleared[r]]_publishVars

\* The cron publishes no page that was withdrawn after the run selected it, and
\* none that waits for its review (publish/route.ts:139-148, 154-165).
CronWaits ==
    [][\A c \in Runs : picked'[c] # picked[c] =>
        \A i \in Pages : page'[i] # page[i] =>
            page[i].status = "scheduled" /\ ~page[i].gated]_publishVars

Ready(i) == Due(i) /\ ~page[i].gated

\* A page that is due is published, or taken off the schedule, though other
\* pages wait for a review for ever and runs fail.
DueIsPublished == \A i \in Pages : Ready(i) ~> ~Ready(i)

\* The mapping: a page without its slug and date, a draft without its status.
Ledger == INSTANCE PageLedger WITH
    shelf   <- [i \in Pages |-> [status |-> page[i].status, gated |-> page[i].gated,
                                 says |-> page[i].says]],
    version <- [d \in Drafts |-> draft[d].text],
    put     <- written,
    marked  <- {d \in Drafts : draft[d].status = "published"},
    asked   <- edits

\* Publications, reviewers, the editor and the cron implement the ledger of pages: whatever
\* they read before, at the write a page gets a text that somebody wrote, is freed of its
\* review by no save, becomes public in the ways the ledger has, and never comes back.
ImplementsPageLedger == Ledger!PageSpec
=============================================================================
