----------------------- MODULE ContentPublishingProofs -----------------------
(* Theorems about PublishingSpec, for any drafts, writers, runs and bounds. *)
EXTENDS ContentPublishing, TLAPS

-----------------------------------------------------------------------------
(* Types *)

\* The bounds are numbers, and there is room for a suffix.
LEMMA Bounds ==
    /\ MaxPages \in Nat /\ MaxTime \in Nat /\ MaxEdits \in Nat /\ MaxFaults \in Nat
    /\ SlugSuffixMax \in Nat /\ SlugSuffixMax > 1
BY PublishingAssumption

\* A request under way has read a draft, settled on a slug of the drafts', and
\* found a page before it overwrites it; publishers and reviewers keep to their steps.
JobInv ==
    \A w \in Workers :
        /\ pc[w] # "idle" => says[w][1] \in Drafts /\ slug[w] # 0
        /\ pc[w] = "update" => target[w] \in Pages
        /\ pc[w] \in {"choose", "recheck", "update"} => w \in Publishers
        /\ pc[w] = "look" => w \in Reviewers

TypeInv == PublishingTypeOK /\ JobInv

\* The types of what a step may do to the table: Put keeps them.
LEMMA PutType ==
    ASSUME PublishingTypeOK, NEW rows \in [Pages -> PageRows], Put(rows)
    PROVE  page' \in [Pages -> PageRows] /\ old' \in [Workers -> SUBSET Pages]
BY DEF PublishingTypeOK, Put

\* An INSERT puts the row in the place of one page that has not been born.
LEMMA AddPuts ==
    ASSUME PublishingTypeOK, NEW row \in PageRows, Add(row)
    PROVE  \E i \in Pages :
              page[i].status = "unborn" /\ Put([page EXCEPT ![i] = row])
                /\ [page EXCEPT ![i] = row] \in [Pages -> PageRows]
BY DEF PublishingTypeOK, Add, NextPage

\* The rows that the code builds have the type of a row.
LEMMA RowTypes ==
    /\ \A s \in Slugs, text \in Texts : Published(s, text) \in PageRows
    /\ \A status \in PageStatuses : NoPage(status) \in PageRows
    /\ Forms \subseteq PageRows
    /\ Typed \in Texts /\ 1 \in Slugs /\ 0 \in Slugs /\ 0 \in 0..MaxTime
<1>1. /\ Typed \in Texts /\ 1 \in Slugs /\ 0 \in Slugs /\ 0 \in 0..MaxTime
    BY Bounds DEF Slugs, Texts, Typed
<1>2. \A s \in Slugs, text \in Texts : Published(s, text) \in PageRows
    BY <1>1 DEF Published, PageRows, PageStatuses
<1>3. \A status \in PageStatuses : NoPage(status) \in PageRows
    BY <1>1 DEF NoPage, PageRows
<1>4. Forms \subseteq PageRows
    BY <1>1 DEF Forms, PageRows, PageStatuses
<1>5. QED
    BY <1>1, <1>2, <1>3, <1>4

\* A request that leaves, or moves on, keeps the types of where requests are.
LEMMA LeaveType ==
    ASSUME TypeInv, NEW w \in Workers, Leave(w)
    PROVE  /\ pc' \in [Workers -> Places] /\ says' \in [Workers -> Texts]
           /\ slug' \in [Workers -> Slugs] /\ target' \in [Workers -> 0..MaxPages]
           /\ old' \in [Workers -> SUBSET Pages]
           /\ JobInv'
BY RowTypes, Bounds DEF TypeInv, PublishingTypeOK, JobInv, Leave, Places

\* TypeInv holds of the site as it is when the model starts.
LEMMA TypeInit == PublishingInit => TypeInv
<1> SUFFICES ASSUME PublishingInit PROVE TypeInv
    OBVIOUS
<1>1. page \in [Pages -> PageRows]
    BY RowTypes, Bounds DEF PublishingInit, PageRows, PageStatuses, Slugs
<1>2. QED
    BY <1>1, RowTypes, Bounds DEF PublishingInit, TypeInv, PublishingTypeOK, JobInv,
       DraftRows, DraftStatuses, Places

\* The rows the writes of the editor and the cron leave behind.
LEMMA EditedRows ==
    ASSUME TypeInv
    PROVE  /\ \A i \in Pages, form \in Forms :
                 [page EXCEPT ![i] = [form EXCEPT !.gated = page[i].gated]] \in [Pages -> PageRows]
           /\ \A i \in Pages, row \in PageRows : [page EXCEPT ![i] = row] \in [Pages -> PageRows]
           /\ \A c \in Runs :
                 [i \in Pages |-> IF i \in picked[c] /\ page[i].status = "scheduled"
                                  THEN [page[i] EXCEPT !.status = "published", !.at = 0]
                                  ELSE page[i]] \in [Pages -> PageRows]
<1>1. page \in [Pages -> PageRows] /\ \A i \in Pages : page[i] \in PageRows
    BY DEF TypeInv, PublishingTypeOK
<1>2. ASSUME NEW row \in PageRows, NEW g \in BOOLEAN PROVE [row EXCEPT !.gated = g] \in PageRows
    BY DEF PageRows
<1>3. ASSUME NEW row \in PageRows
      PROVE  [row EXCEPT !.status = "published", !.at = 0] \in PageRows
    BY RowTypes DEF PageRows, PageStatuses
<1>4. \A i \in Pages : page[i].gated \in BOOLEAN
    BY <1>1 DEF PageRows
<1>5. \A row \in Forms : row \in PageRows
    BY RowTypes
<1>6. ASSUME NEW c \in Runs, NEW i \in Pages
      PROVE  (IF i \in picked[c] /\ page[i].status = "scheduled"
                THEN [page[i] EXCEPT !.status = "published", !.at = 0]
                ELSE page[i]) \in PageRows
    BY <1>1, <1>3
<1>7. QED
    BY <1>1, <1>2, <1>4, <1>5, <1>6

\* The place of a request changes, and nothing else about requests.
LEMMA GotoType ==
    ASSUME TypeInv, NEW w \in Workers, NEW place \in Places, Goto(w, place)
    PROVE  pc' \in [Workers -> Places] /\ pc'[w] = place
              /\ \A v \in Workers : v # w => pc'[v] = pc[v]
BY DEF TypeInv, PublishingTypeOK, Goto

\* Every step preserves TypeInv.
LEMMA TypeStep ==
    ASSUME TypeInv, [PublishingNext]_publishVars
    PROVE  TypeInv'
<1> USE DEF Places
<1>r. \A w \in Workers : says[w] \in Texts
    BY DEF TypeInv, PublishingTypeOK
<1>q. \A d \in Drafts : draft[d] \in DraftRows
    BY DEF TypeInv, PublishingTypeOK
<1>a. CASE \E p \in Publishers : PublisherStep(p)
  <2> PICK p \in Publishers : PublisherStep(p)
      BY <1>a
  <2>0. p \in Workers
      BY DEF Workers
  <2>1. CASE \E d \in Drafts : ReadDraft(p, d)
    <3> PICK d \in Drafts : ReadDraft(p, d)
        BY <2>1
    <3>1. <<d, draft[d].text>> \in Texts
        BY <1>q DEF DraftRows, Texts
    <3>2. PublishingTypeOK'
        BY <2>0, <3>1, RowTypes, GotoType DEF TypeInv, PublishingTypeOK, ReadDraft, tables, ghosts
    <3>3. JobInv'
        BY <2>0, <3>1, RowTypes, GotoType DEF TypeInv, PublishingTypeOK, JobInv, ReadDraft
    <3>4. QED
        BY <3>2, <3>3 DEF TypeInv
  <2>2. CASE ChooseSlug(p)
    <3>1. CASE ~Taken(slug[p]) /\ Goto(p, "recheck") /\ UNCHANGED <<says, slug, target, old>>
        BY <2>0, <2>2, <3>1, GotoType
           DEF TypeInv, PublishingTypeOK, JobInv, ChooseSlug, tables, ghosts
    <3>2. CASE /\ slug[p] + 1 < SlugSuffixMax
               /\ slug' = [slug EXCEPT ![p] = @ + 1] /\ UNCHANGED <<pc, says, target, old>>
      <4>1. slug[p] + 1 \in Slugs /\ slug[p] + 1 # 0
          BY <2>0, <3>2, Bounds DEF TypeInv, PublishingTypeOK, Slugs
      <4>2. QED
          BY <2>0, <2>2, <3>2, <4>1
             DEF TypeInv, PublishingTypeOK, JobInv, ChooseSlug, tables, ghosts
    <3>3. CASE Leave(p)
        BY <2>0, <2>2, <3>3, LeaveType DEF TypeInv, PublishingTypeOK, ChooseSlug, tables, ghosts
    <3>4. QED
        BY <2>2, <3>1, <3>2, <3>3 DEF ChooseSlug
  <2>3. CASE Recheck(p)
    <3>1. CASE \E i \in Pages :
                  Bears(i, slug[p]) /\ target' = [target EXCEPT ![p] = i] /\ Goto(p, "update")
      <4> PICK i \in Pages : target' = [target EXCEPT ![p] = i] /\ Goto(p, "update")
          BY <3>1
      <4>1. i \in 0..MaxPages
          BY Bounds DEF Pages
      <4>2. QED
          BY <2>0, <2>3, <4>1, GotoType
             DEF TypeInv, PublishingTypeOK, JobInv, Recheck, tables, ghosts
    <3>2. CASE ~Taken(slug[p]) /\ Goto(p, "insert") /\ UNCHANGED target
        BY <2>0, <2>3, <3>2, GotoType
           DEF TypeInv, PublishingTypeOK, JobInv, Recheck, tables, ghosts
    <3>3. QED
        BY <2>3, <3>1, <3>2 DEF Recheck
  <2>4. CASE Overwrite(p)
    <3>1. target[p] \in Pages /\ Published(slug[p], says[p]) \in PageRows /\ says[p][1] \in Drafts
        BY <2>0, <2>4, <1>r, RowTypes DEF TypeInv, PublishingTypeOK, JobInv, Overwrite
    <3>2. page' \in [Pages -> PageRows] /\ old' \in [Workers -> SUBSET Pages]
        BY <2>4, <3>1, PutType, EditedRows DEF Overwrite, TypeInv
    <3>3. QED
        BY <2>0, <2>4, <3>1, <3>2, GotoType
           DEF TypeInv, PublishingTypeOK, JobInv, Overwrite
  <2>5. CASE OverwriteRefused(p)
      BY <2>0, <2>5, LeaveType DEF TypeInv, PublishingTypeOK, OverwriteRefused, tables, ghosts
  <2>6. QED
      BY <2>1, <2>2, <2>3, <2>4, <2>5 DEF PublisherStep
<1>b. CASE \E r \in Reviewers : ReviewerStep(r)
  <2> PICK r \in Reviewers : ReviewerStep(r)
      BY <1>b
  <2>0. r \in Workers
      BY DEF Workers
  <2>1. CASE \E d \in Drafts : Approve(r, d)
    <3> PICK d \in Drafts : Approve(r, d)
        BY <2>1
    <3>1. <<d, draft[d].text>> \in Texts /\ draft' \in [Drafts -> DraftRows]
        BY <1>q DEF DraftRows, DraftStatuses, Texts, Approve, TypeInv, PublishingTypeOK
    <3>2. PublishingTypeOK'
        BY <2>0, <3>1, RowTypes, GotoType DEF TypeInv, PublishingTypeOK, Approve
    <3>3. JobInv'
        BY <2>0, <3>1, RowTypes, GotoType DEF TypeInv, PublishingTypeOK, JobInv, Approve
    <3>4. QED
        BY <3>2, <3>3 DEF TypeInv
  <2>2. CASE LookUpSlug(r)
    <3>1. CASE Leave(r)
        BY <2>0, <2>2, <3>1, LeaveType DEF TypeInv, PublishingTypeOK, LookUpSlug, tables, ghosts
    <3>2. CASE Goto(r, "insert") /\ UNCHANGED <<says, slug, target, old>>
        BY <2>0, <2>2, <3>2, GotoType
           DEF TypeInv, PublishingTypeOK, JobInv, LookUpSlug, tables, ghosts
    <3>3. QED
        BY <2>2, <3>1, <3>2 DEF LookUpSlug
  <2>3. QED
      BY <2>1, <2>2 DEF ReviewerStep
<1>c. CASE \E w \in Workers : WorkerStep(w)
  <2> PICK w \in Workers : WorkerStep(w)
      BY <1>c
  <2>1. CASE Insert(w)
    <3>1. Published(slug[w], says[w]) \in PageRows /\ says[w][1] \in Drafts
        BY <2>1, <1>r, RowTypes DEF TypeInv, PublishingTypeOK, JobInv, Insert
    <3>2. page' \in [Pages -> PageRows] /\ old' \in [Workers -> SUBSET Pages]
        BY <2>1, <3>1, PutType, AddPuts DEF Insert, TypeInv
    <3>3. QED
        BY <2>1, <3>1, <3>2, GotoType DEF TypeInv, PublishingTypeOK, JobInv, Insert
  <2>2. CASE InsertRefused(w)
      BY <2>2, LeaveType DEF TypeInv, PublishingTypeOK, InsertRefused, tables, ghosts
  <2>3. CASE MarkPublished(w)
    <3>1. draft' \in [Drafts -> DraftRows]
        BY <2>3, <1>q
           DEF TypeInv, PublishingTypeOK, JobInv, MarkPublished, DraftRows, DraftStatuses
    <3>2. QED
        BY <2>3, <3>1, LeaveType DEF TypeInv, PublishingTypeOK, MarkPublished, ghosts
  <2>4. CASE GiveUp(w)
      BY <2>4, LeaveType, Bounds DEF TypeInv, PublishingTypeOK, GiveUp, Fault, tables, ghosts
  <2>5. QED
      BY <2>1, <2>2, <2>3, <2>4 DEF WorkerStep
<1>d. CASE \E d \in Drafts : DraftStep(d)
  <2> PICK d \in Drafts : DraftStep(d)
      BY <1>d
  <2>1. edits' \in 0..MaxEdits /\ UNCHANGED <<page, now, jobVars, picked, faults, ghosts>>
      BY Bounds
         DEF DraftStep, SetDraftStatus, EditDraft, DeleteDraft, Edit, TypeInv, PublishingTypeOK
  <2>2. draft' \in [Drafts -> DraftRows]
    <3>1. CASE SetDraftStatus(d)
        BY <1>q, <3>1 DEF SetDraftStatus, DraftRows, DraftStatuses, TypeInv, PublishingTypeOK
    <3>2. CASE EditDraft(d)
      <4>1. draft[d].text + 1 \in 0..MaxEdits
          BY <1>q, <3>2, Bounds DEF EditDraft, DraftRows
      <4>2. QED
          BY <1>q, <3>2, <4>1 DEF EditDraft, DraftRows, TypeInv, PublishingTypeOK
    <3>3. CASE DeleteDraft(d)
        BY <1>q, <3>3 DEF DeleteDraft, DraftRows, DraftStatuses, TypeInv, PublishingTypeOK
    <3>4. QED
        BY <3>1, <3>2, <3>3 DEF DraftStep
  <2>3. QED
      BY <2>1, <2>2 DEF TypeInv, PublishingTypeOK, JobInv, jobVars, ghosts
<1>e. CASE EditorStep
  <2>0. Edit /\ UNCHANGED editorRest
      BY <1>e DEF EditorStep, CreatePage, SavePage, ClonePage, DeletePage
  <2>1. edits' \in 0..MaxEdits /\ UNCHANGED editorRest
      BY <2>0, Bounds DEF Edit, TypeInv, PublishingTypeOK
  <2>2. page' \in [Pages -> PageRows] /\ old' \in [Workers -> SUBSET Pages]
    <3>1. CASE \E form \in Forms : CreatePage(form)
        BY <3>1, RowTypes, AddPuts, PutType DEF CreatePage, TypeInv
    <3>2. CASE \E i \in Pages : ClonePage(i)
        BY <3>2, RowTypes, AddPuts, PutType DEF ClonePage, TypeInv, PageStatuses
    <3>3. CASE \E i \in Pages : DeletePage(i)
        BY <3>3, RowTypes, EditedRows, PutType DEF DeletePage, TypeInv, PageStatuses
    <3>4. CASE \E i \in Pages, form \in Forms : SavePage(i, form)
        BY <3>4, EditedRows, PutType DEF SavePage, TypeInv
    <3>5. QED
        BY <1>e, <3>1, <3>2, <3>3, <3>4 DEF EditorStep
  <2>3. QED
      BY <2>1, <2>2 DEF TypeInv, PublishingTypeOK, JobInv, editorRest, ghosts
<1>f. CASE Tick
    BY <1>f, Bounds DEF Tick, TypeInv, PublishingTypeOK, JobInv, tables, jobVars, ghosts
<1>g. CASE \E c \in Runs : CronStep(c)
  <2> PICK c \in Runs : CronStep(c)
      BY <1>g
  <2>1. CASE SelectDue(c)
      BY <2>1 DEF SelectDue, TypeInv, PublishingTypeOK, JobInv, tables, jobVars, ghosts
  <2>2. CASE PublishDue(c)
    <3>1. page' \in [Pages -> PageRows] /\ old' \in [Workers -> SUBSET Pages]
        BY <2>2, EditedRows, PutType DEF PublishDue, TypeInv
    <3>2. QED
        BY <2>2, <3>1 DEF PublishDue, TypeInv, PublishingTypeOK, JobInv, ghosts
  <2>3. CASE RunFails(c)
      BY <2>3, Bounds
         DEF RunFails, Fault, TypeInv, PublishingTypeOK, JobInv, tables, jobVars, ghosts
  <2>4. QED
      BY <2>1, <2>2, <2>3 DEF CronStep
<1>h. CASE UNCHANGED publishVars
    BY <1>h DEF publishVars, TypeInv, PublishingTypeOK, JobInv, tables, jobVars, ghosts
<1>i. QED
    BY <1>a, <1>b, <1>c, <1>d, <1>e, <1>f, <1>g, <1>h DEF PublishingNext

\* TypeInv is an invariant.
LEMMA TypeAlways == PublishingSpec => []TypeInv
<1>1. PublishingInit => TypeInv
    BY TypeInit
<1>2. TypeInv /\ [PublishingNext]_publishVars => TypeInv'
    BY TypeStep
<1>3. QED
    BY <1>1, <1>2, PTL DEF PublishingSpec

\* Variables have the types PublishingTypeOK gives them, whatever the bounds.
THEOREM PublishingTypeCorrect == PublishingSpec => []PublishingTypeOK
BY TypeAlways, PTL DEF TypeInv

-----------------------------------------------------------------------------
(* What a step writes into the table of pages *)

\* A row has a slug only as long as it exists.
Filed(row) == row.status \in {"draft", "scheduled", "published"} \/ row.slug = 0

\* An AI page that nobody has reviewed was there from the start.
Clean(rows) ==
    \A i \in Pages :
        rows[i] = page[i] \/ (Filed(rows[i]) /\ (rows[i].gated => page[i].gated))

\* An INSERT of a clean row puts clean rows into the table.
LEMMA CleanAdd ==
    ASSUME TypeInv, NEW row \in PageRows, Add(row), Filed(row), ~row.gated
    PROVE  \E rows \in [Pages -> PageRows] : Put(rows) /\ Clean(rows)
<1>1. PICK i \in Pages :
          /\ page[i].status = "unborn" /\ Put([page EXCEPT ![i] = row])
          /\ [page EXCEPT ![i] = row] \in [Pages -> PageRows]
    BY AddPuts DEF TypeInv
<1>2. Clean([page EXCEPT ![i] = row])
    BY DEF Clean, TypeInv, PublishingTypeOK
<1>3. QED
    BY <1>1, <1>2

\* So does an UPDATE by id.
LEMMA CleanPut ==
    ASSUME TypeInv, NEW i \in Pages, NEW row \in PageRows, Put([page EXCEPT ![i] = row]),
           Filed(row), row.gated => page[i].gated
    PROVE  \E rows \in [Pages -> PageRows] : Put(rows) /\ Clean(rows)
<1>1. Clean([page EXCEPT ![i] = row])
    BY DEF Clean, TypeInv, PublishingTypeOK
<1>2. QED
    BY <1>1, EditedRows

\* Every step leaves the table alone or puts clean rows into it.
LEMMA CleanStep ==
    ASSUME TypeInv, [PublishingNext]_publishVars
    PROVE  \/ UNCHANGED page
           \/ \E rows \in [Pages -> PageRows] : Put(rows) /\ Clean(rows)
<1>p. /\ \A w \in Workers : says[w] \in Texts /\ slug[w] \in Slugs
      /\ \A i \in Pages : page[i] \in PageRows
    BY DEF TypeInv, PublishingTypeOK
<1>w. \A s \in Slugs, text \in Texts :
        /\ Published(s, text) \in PageRows
        /\ Filed(Published(s, text)) /\ ~Published(s, text).gated
    BY RowTypes DEF Filed, Published
<1>n. \A status \in PageStatuses :
        /\ NoPage(status) \in PageRows
        /\ Filed(NoPage(status)) /\ ~NoPage(status).gated
    BY RowTypes DEF Filed, NoPage
<1>f. \A form \in Forms : form \in PageRows /\ Filed(form) /\ ~form.gated
    BY RowTypes DEF Filed, Forms
<1>1. CASE \E p \in Publishers : Overwrite(p)
  <2> PICK p \in Publishers : Overwrite(p)
      BY <1>1
  <2>1. p \in Workers /\ target[p] \in Pages
      BY DEF Overwrite, TypeInv, JobInv, Workers
  <2>2. QED
      BY <2>1, <1>p, <1>w, CleanPut DEF Overwrite
<1>2. CASE \E w \in Workers : Insert(w)
    BY <1>2, <1>p, <1>w, CleanAdd DEF Insert
<1>3. CASE EditorStep
  <2>1. CASE \E form \in Forms : CreatePage(form)
      BY <2>1, <1>f, CleanAdd DEF CreatePage
  <2>2. CASE \E i \in Pages : ClonePage(i)
      BY <2>2, <1>n, CleanAdd DEF ClonePage, PageStatuses
  <2>3. CASE \E i \in Pages : DeletePage(i)
      BY <2>3, <1>n, CleanPut DEF DeletePage, PageStatuses
  <2>4. CASE \E i \in Pages, form \in Forms : SavePage(i, form)
    <3> PICK i \in Pages, form \in Forms : SavePage(i, form)
        BY <2>4
    <3> DEFINE row == [form EXCEPT !.gated = page[i].gated]
    <3>1. row \in PageRows /\ Filed(row) /\ row.gated = page[i].gated
        BY <1>p, <1>f DEF PageRows, Filed
    <3>2. Put([page EXCEPT ![i] = row])
        BY DEF SavePage
    <3>3. QED
        BY <3>1, <3>2, CleanPut
  <2>5. QED
      BY <1>3, <2>1, <2>2, <2>3, <2>4 DEF EditorStep
<1>4. CASE \E c \in Runs : PublishDue(c)
  <2> PICK c \in Runs : PublishDue(c)
      BY <1>4
  <2> DEFINE rows == [i \in Pages |-> IF i \in picked[c] /\ page[i].status = "scheduled"
                                      THEN [page[i] EXCEPT !.status = "published", !.at = 0]
                                      ELSE page[i]]
  <2>1. rows \in [Pages -> PageRows] /\ Put(rows)
      BY EditedRows DEF PublishDue
  <2>2. \A i \in Pages : [page[i] EXCEPT !.status = "published", !.at = 0].gated = page[i].gated
                           /\ Filed([page[i] EXCEPT !.status = "published", !.at = 0])
      BY <1>p DEF PageRows, Filed
  <2>3. Clean(rows)
      BY <2>2 DEF Clean
  <2>4. QED
      BY <2>1, <2>3
<1>5. CASE UNCHANGED page
    BY <1>5
<1>6. QED
    BY <1>1, <1>2, <1>3, <1>4, <1>5
       DEF PublishingNext, PublisherStep, ReviewerStep, WorkerStep, DraftStep, CronStep, Tick,
           ReadDraft, ChooseSlug, Recheck, OverwriteRefused, Approve, LookUpSlug, InsertRefused,
           MarkPublished, GiveUp, SetDraftStatus, EditDraft, DeleteDraft, SelectDue, RunFails,
           tables, publishVars

-----------------------------------------------------------------------------
(* A draft that counts as published was written *)

\* Whoever is about to mark a draft has put it on a page.
MarkInv == \A w \in Workers : pc[w] = "mark" => says[w][1] \in written

WrittenInv == MarkInv /\ MarkedWasWritten

\* A request comes to its last step only by writing the page, and only the last
\* step makes a draft published.
LEMMA MarkMoves ==
    ASSUME TypeInv, [PublishingNext]_publishVars
    PROVE  /\ written \subseteq written'
           /\ \A w \in Workers : pc'[w] = "mark" =>
                 \/ pc[w] = "mark" /\ says'[w] = says[w]
                 \/ says'[w][1] \in written'
           /\ \A d \in Drafts : draft'[d].status = "published" =>
                 \/ draft[d].status = "published"
                 \/ \E w \in Workers : pc[w] = "mark" /\ says[w][1] = d
<1> DEFINE Goal == /\ written \subseteq written'
                   /\ \A w \in Workers : pc'[w] = "mark" =>
                         \/ pc[w] = "mark" /\ says'[w] = says[w]
                         \/ says'[w][1] \in written'
                   /\ \A d \in Drafts : draft'[d].status = "published" =>
                         \/ draft[d].status = "published"
                         \/ \E w \in Workers : pc[w] = "mark" /\ says[w][1] = d
<1>f. /\ pc \in [Workers -> Places] /\ says \in [Workers -> Texts]
      /\ draft \in [Drafts -> DraftRows]
    BY DEF TypeInv, PublishingTypeOK
<1>w. Publishers \subseteq Workers /\ Reviewers \subseteq Workers
    BY DEF Workers
<1>1. ASSUME NEW w \in Workers, Leave(w), UNCHANGED <<draft, ghosts>> PROVE Goal
    BY <1>1, <1>f DEF Leave, ghosts
<1>2. ASSUME NEW w \in Workers, NEW place \in Places \ {"mark"}, Goto(w, place),
             UNCHANGED written,
             \A v \in Workers : v # w => says'[v] = says[v],
             \A d \in Drafts : draft'[d].status = "published" => draft[d].status = "published"
      PROVE  Goal
    BY <1>2, <1>f DEF Goto
<1>3. ASSUME NEW w \in Workers, Goto(w, "mark"), UNCHANGED <<draft, says>>,
             written' = written \cup {says[w][1]}
      PROVE  Goal
    BY <1>3, <1>f DEF Goto
<1>4. ASSUME UNCHANGED <<pc, says, written>>,
             \A d \in Drafts : draft'[d].status = "published" => draft[d].status = "published"
      PROVE  Goal
    BY <1>4
<1>a. ASSUME NEW p \in Publishers, PublisherStep(p) PROVE Goal
  <2>1. CASE \E d \in Drafts : ReadDraft(p, d)
      BY <1>2, <1>f, <1>w, <2>1 DEF ReadDraft, Places, tables, ghosts
  <2>2. CASE ChooseSlug(p)
      BY <1>1, <1>2, <1>4, <1>w, <2>2 DEF ChooseSlug, Places, tables, ghosts
  <2>3. CASE Recheck(p)
      BY <1>2, <1>w, <2>3 DEF Recheck, Places, tables, ghosts
  <2>4. CASE Overwrite(p)
      BY <1>3, <1>w, <2>4 DEF Overwrite
  <2>5. CASE OverwriteRefused(p)
      BY <1>1, <1>w, <2>5 DEF OverwriteRefused, tables
  <2>6. QED
      BY <1>a, <2>1, <2>2, <2>3, <2>4, <2>5 DEF PublisherStep
<1>b. ASSUME NEW r \in Reviewers, ReviewerStep(r) PROVE Goal
  <2>1. CASE \E d \in Drafts : Approve(r, d)
      BY <1>2, <1>f, <1>w, <2>1 DEF Approve, Places, DraftRows
  <2>2. CASE LookUpSlug(r)
      BY <1>1, <1>2, <1>w, <2>2 DEF LookUpSlug, Places, tables, ghosts
  <2>3. QED
      BY <1>b, <2>1, <2>2 DEF ReviewerStep
<1>c. ASSUME NEW w \in Workers, WorkerStep(w) PROVE Goal
  <2>1. CASE Insert(w)
      BY <1>3, <2>1 DEF Insert
  <2>2. CASE InsertRefused(w) \/ GiveUp(w)
      BY <1>1, <2>2 DEF InsertRefused, GiveUp, tables
  <2>3. CASE MarkPublished(w)
    <3>1. pc[w] = "mark" /\ UNCHANGED written
        BY <2>3 DEF MarkPublished, ghosts
    <3>2. \A d \in Drafts : d # says[w][1] => draft'[d] = draft[d]
        BY <2>3, <1>f DEF MarkPublished
    <3>3. \A v \in Workers : pc'[v] = "mark" => pc[v] = "mark" /\ says'[v] = says[v]
        BY <2>3, <1>f DEF MarkPublished, Leave
    <3>4. QED
        BY <3>1, <3>2, <3>3
  <2>4. QED
      BY <1>c, <2>1, <2>2, <2>3 DEF WorkerStep
<1>d. ASSUME NEW d \in Drafts, DraftStep(d) PROVE Goal
  <2>1. UNCHANGED <<pc, says, written>>
      BY <1>d DEF DraftStep, SetDraftStatus, EditDraft, DeleteDraft, jobVars, ghosts
  <2>2. \A e \in Drafts : draft'[e].status = "published" => draft[e].status = "published"
    <3>1. CASE SetDraftStatus(d)
        BY <1>f, <3>1 DEF SetDraftStatus, DraftRows
    <3>2. CASE EditDraft(d)
        BY <1>f, <3>2 DEF EditDraft, DraftRows
    <3>3. CASE DeleteDraft(d)
        BY <1>f, <3>3 DEF DeleteDraft, DraftRows
    <3>4. QED
        BY <1>d, <3>1, <3>2, <3>3 DEF DraftStep
  <2>3. QED
      BY <1>4, <2>1, <2>2
<1>e. ASSUME UNCHANGED <<pc, says, draft, written>> PROVE Goal
    BY <1>4, <1>e
<1>g. Goal
    BY <1>a, <1>b, <1>c, <1>d, <1>e
       DEF PublishingNext, EditorStep, CreatePage, SavePage, ClonePage, DeletePage, editorRest,
           Tick, CronStep, SelectDue, PublishDue, RunFails, tables, jobVars, ghosts, publishVars
<1>h. QED
    BY <1>g

\* A draft is marked only after its page was written.
LEMMA WrittenAlways == PublishingSpec => []WrittenInv
<1>1. PublishingInit => WrittenInv
    BY DEF PublishingInit, WrittenInv, MarkInv, MarkedWasWritten
<1>2. WrittenInv /\ TypeInv /\ [PublishingNext]_publishVars => WrittenInv'
    BY MarkMoves DEF WrittenInv, MarkInv, MarkedWasWritten
<1>3. QED
    BY <1>1, <1>2, TypeAlways, PTL DEF PublishingSpec

\* A draft is published only if it has been put on a page (publish-draft.ts:181-203).
THEOREM PublishedWasWritten == PublishingSpec => []MarkedWasWritten
BY WrittenAlways, PTL DEF WrittenInv

-----------------------------------------------------------------------------
(* No page that was there all the time is overwritten *)

\* A slug found free belongs to no page that has kept its own.
OldInv ==
    /\ \A i \in Pages : Filed(page[i])
    /\ \A p \in Publishers : pc[p] \in {"recheck", "insert", "update"} =>
          \A i \in old[p] : page[i].slug # slug[p]
    /\ OldPagesStand

\* What a step may mean for a publication, given that it is past its first steps.
LEMMA PublisherMoves ==
    ASSUME TypeInv, [PublishingNext]_publishVars,
           NEW p \in Publishers, pc'[p] \in {"recheck", "insert", "update"}
    PROVE  /\ slug'[p] = slug[p]
           /\ \/ pc'[p] = pc[p] /\ target'[p] = target[p]
              \/ /\ UNCHANGED <<page, old>> /\ pc[p] = "choose" /\ ~Taken(slug[p])
                 /\ pc'[p] # "update"
              \/ /\ UNCHANGED <<page, old>> /\ pc[p] = "recheck"
                 /\ pc'[p] = "update" => Bears(target'[p], slug[p])
           /\ \/ old'[p] = old[p] /\ UNCHANGED page
              \/ old'[p] = {i \in old[p] : page'[i].slug = page[i].slug}
<1> DEFINE Kept == \/ old'[p] = old[p] /\ UNCHANGED page
                   \/ old'[p] = {i \in old[p] : page'[i].slug = page[i].slug}
           Moved == \/ pc'[p] = pc[p] /\ target'[p] = target[p]
                    \/ /\ UNCHANGED <<page, old>> /\ pc[p] = "choose" /\ ~Taken(slug[p])
                       /\ pc'[p] # "update"
                    \/ /\ UNCHANGED <<page, old>> /\ pc[p] = "recheck"
                       /\ pc'[p] = "update" => Bears(target'[p], slug[p])
           Goal == slug'[p] = slug[p] /\ Moved /\ Kept
<1>f. /\ pc \in [Workers -> Places] /\ slug \in [Workers -> Slugs]
      /\ target \in [Workers -> 0..MaxPages] /\ old \in [Workers -> SUBSET Pages]
    BY DEF TypeInv, PublishingTypeOK
<1>w. p \in Workers /\ Publishers \subseteq Workers /\ Reviewers \subseteq Workers
    BY DEF Workers
<1>x. p \notin Reviewers
    BY PublishingAssumption
<1>k. ASSUME NEW rows, Put(rows) PROVE Kept
    BY <1>k, <1>w DEF Put
<1>1. ASSUME NEW w \in Workers, Leave(w), UNCHANGED page PROVE Goal
    BY <1>1, <1>f, <1>w DEF Leave
<1>2. ASSUME UNCHANGED <<pc, slug, target>>, Kept PROVE Goal
    BY <1>2
<1>3. ASSUME NEW w \in Workers, Goto(w, "mark"), UNCHANGED <<slug, target>>, Kept PROVE Goal
    BY <1>3, <1>f, <1>w DEF Goto
<1>a. ASSUME NEW q \in Publishers, PublisherStep(q) PROVE Goal
  <2>1. CASE \E d \in Drafts : ReadDraft(q, d)
      BY <1>f, <1>w, <2>1 DEF ReadDraft, Goto, tables
  <2>2. CASE ChooseSlug(q)
    <3>1. CASE ~Taken(slug[q]) /\ Goto(q, "recheck") /\ UNCHANGED <<says, slug, target, old>>
        BY <1>f, <1>w, <2>2, <3>1 DEF ChooseSlug, Goto, tables
    <3>2. CASE slug' = [slug EXCEPT ![q] = @ + 1] /\ UNCHANGED <<pc, says, target, old>>
        BY <1>f, <1>w, <2>2, <3>2 DEF ChooseSlug, tables
    <3>3. CASE Leave(q)
        BY <1>1, <1>w, <2>2, <3>3 DEF ChooseSlug, tables
    <3>4. QED
        BY <2>2, <3>1, <3>2, <3>3 DEF ChooseSlug
  <2>3. CASE Recheck(q)
    <3>1. CASE \E i \in Pages :
                  Bears(i, slug[q]) /\ target' = [target EXCEPT ![q] = i] /\ Goto(q, "update")
        BY <1>f, <1>w, <2>3, <3>1 DEF Recheck, Goto, tables
    <3>2. CASE ~Taken(slug[q]) /\ Goto(q, "insert") /\ UNCHANGED target
        BY <1>f, <1>w, <2>3, <3>2 DEF Recheck, Goto, tables
    <3>3. QED
        BY <2>3, <3>1, <3>2 DEF Recheck
  <2>4. CASE Overwrite(q)
      BY <1>3, <1>k, <1>w, <2>4 DEF Overwrite
  <2>5. CASE OverwriteRefused(q)
      BY <1>1, <1>w, <2>5 DEF OverwriteRefused, tables
  <2>6. QED
      BY <1>a, <2>1, <2>2, <2>3, <2>4, <2>5 DEF PublisherStep
<1>b. ASSUME NEW r \in Reviewers, ReviewerStep(r) PROVE Goal
  <2>1. p # r /\ r \in Workers
      BY <1>w, <1>x
  <2>2. CASE \E d \in Drafts : Approve(r, d)
      BY <1>f, <1>w, <2>1, <2>2 DEF Approve, Goto
  <2>3. CASE LookUpSlug(r)
    <3>1. CASE Leave(r)
        BY <1>1, <2>1, <2>3, <3>1 DEF LookUpSlug, tables
    <3>2. CASE Goto(r, "insert") /\ UNCHANGED <<says, slug, target, old>>
        BY <1>f, <1>w, <2>1, <2>3, <3>2 DEF LookUpSlug, Goto, tables
    <3>3. QED
        BY <2>3, <3>1, <3>2 DEF LookUpSlug
  <2>4. QED
      BY <1>b, <2>2, <2>3 DEF ReviewerStep
<1>c. ASSUME NEW w \in Workers, WorkerStep(w) PROVE Goal
  <2>1. CASE Insert(w)
      BY <1>3, <1>k, <2>1 DEF Insert, Add
  <2>2. CASE InsertRefused(w) \/ MarkPublished(w) \/ GiveUp(w)
      BY <1>1, <2>2 DEF InsertRefused, MarkPublished, GiveUp, tables
  <2>3. QED
      BY <1>c, <2>1, <2>2 DEF WorkerStep
<1>d. ASSUME EditorStep PROVE Goal
  <2>1. Kept
      BY <1>d, <1>k DEF EditorStep, CreatePage, SavePage, ClonePage, DeletePage, Add
  <2>2. UNCHANGED <<pc, slug, target>>
      BY <1>d DEF EditorStep, CreatePage, SavePage, ClonePage, DeletePage, editorRest
  <2>3. QED
      BY <1>2, <2>1, <2>2
<1>e. ASSUME NEW c \in Runs, PublishDue(c) PROVE Goal
    BY <1>2, <1>e, <1>k DEF PublishDue
<1>g. ASSUME UNCHANGED <<page, jobVars>> PROVE Goal
    BY <1>2, <1>g DEF jobVars
<1>h. Goal
    BY <1>a, <1>b, <1>c, <1>d, <1>e, <1>g
       DEF PublishingNext, DraftStep, SetDraftStatus, EditDraft, DeleteDraft, Tick, CronStep,
           SelectDue, RunFails, tables, publishVars
<1>i. QED
    BY <1>h

\* No step leaves a slug on a row that does not exist.
LEMMA FiledStep ==
    ASSUME TypeInv, \A i \in Pages : Filed(page[i]), [PublishingNext]_publishVars
    PROVE  \A i \in Pages : Filed(page'[i])
<1>1. CASE UNCHANGED page
    BY <1>1
<1>2. CASE \E rows \in [Pages -> PageRows] : Put(rows) /\ Clean(rows)
    BY <1>2 DEF Put, Clean
<1>3. QED
    BY <1>1, <1>2, CleanStep

\* Every step preserves OldInv.
LEMMA OldStep ==
    ASSUME TypeInv, OldInv, [PublishingNext]_publishVars
    PROVE  OldInv'
<1>1. \A i \in Pages : Filed(page'[i])
    BY FiledStep DEF OldInv
<1>2. ASSUME NEW p \in Publishers, pc'[p] \in {"recheck", "insert", "update"}
      PROVE  /\ \A i \in old'[p] : page'[i].slug # slug'[p]
             /\ pc'[p] = "update" => target'[p] \notin old'[p]
  <2>1. p \in Workers /\ old[p] \subseteq Pages
      BY DEF Workers, TypeInv, PublishingTypeOK
  <2>2. \A i \in old'[p] : i \in old[p] /\ page'[i].slug = page[i].slug
      BY <1>2, PublisherMoves
  <2>3. CASE pc'[p] = pc[p] /\ target'[p] = target[p]
      BY <1>2, <2>2, <2>3, PublisherMoves DEF OldInv, OldPagesStand
  <2>4. CASE /\ UNCHANGED <<page, old>> /\ pc[p] = "choose" /\ ~Taken(slug[p])
             /\ pc'[p] # "update"
    <3>1. slug[p] # 0
        BY <2>1, <2>4 DEF TypeInv, JobInv
    <3>2. \A i \in Pages : page[i].slug # slug[p]
        BY <2>4, <3>1 DEF OldInv, Filed, Taken, Bears, Live
    <3>3. QED
        BY <1>2, <2>1, <2>4, <3>2, PublisherMoves
  <2>5. CASE /\ UNCHANGED <<page, old>> /\ pc[p] = "recheck"
             /\ pc'[p] = "update" => Bears(target'[p], slug[p])
      BY <1>2, <2>5, PublisherMoves DEF OldInv, Bears
  <2>6. QED
      BY <1>2, <2>3, <2>4, <2>5, PublisherMoves
<1>3. QED
    BY <1>1, <1>2 DEF OldInv, OldPagesStand

\* OldInv is an invariant.
LEMMA OldAlways == PublishingSpec => []OldInv
<1>1. PublishingInit => OldInv
  <2> SUFFICES ASSUME PublishingInit PROVE OldInv
      OBVIOUS
  <2>1. \A i \in Pages : Filed(page[i])
      BY DEF PublishingInit, Filed, NoPage
  <2>2. \A p \in Publishers : pc[p] = "idle"
      BY DEF PublishingInit, Workers
  <2>3. QED
      BY <2>1, <2>2 DEF OldInv, OldPagesStand
<1>2. OldInv /\ TypeInv /\ [PublishingNext]_publishVars => OldInv'
    BY OldStep
<1>3. QED
    BY <1>1, <1>2, TypeAlways, PTL DEF PublishingSpec

\* Nobody publishes over a page that was there all the time (publish-draft.ts:132-134).
THEOREM OldPagesAreSafe == PublishingSpec => []OldPagesStand
BY OldAlways, PTL DEF OldInv

-----------------------------------------------------------------------------
(* What the review queue publishes *)

\* The text a request carries from its approval on has been approved.
ClearedInv ==
    \A r \in Reviewers : pc[r] \in {"look", "insert"} => says[r] = cleared[r]

\* A request of the review queue approves a text, keeps it, and writes it last.
LEMMA ReviewerMoves ==
    ASSUME TypeInv, [PublishingNext]_publishVars, NEW r \in Reviewers
    PROVE  /\ pc'[r] \in {"look", "insert"} =>
                 \/ /\ pc[r] \in {"look", "insert"} /\ says'[r] = says[r]
                    /\ cleared'[r] = cleared[r]
                 \/ says'[r] = cleared'[r]
           /\ pc[r] = "insert" /\ pc'[r] = "mark" => Insert(r)
<1> DEFINE Goal == /\ pc'[r] \in {"look", "insert"} =>
                         \/ /\ pc[r] \in {"look", "insert"} /\ says'[r] = says[r]
                            /\ cleared'[r] = cleared[r]
                         \/ says'[r] = cleared'[r]
                   /\ pc[r] = "insert" /\ pc'[r] = "mark" => Insert(r)
<1>f. /\ pc \in [Workers -> Places] /\ says \in [Workers -> Texts]
      /\ cleared \in [Reviewers -> Texts]
    BY DEF TypeInv, PublishingTypeOK
<1>w. r \in Workers /\ Publishers \subseteq Workers /\ r \notin Publishers
    BY PublishingAssumption DEF Workers
<1>1. ASSUME NEW w \in Workers, Leave(w), UNCHANGED cleared PROVE Goal
    BY <1>1, <1>f, <1>w DEF Leave
<1>2. ASSUME pc'[r] = pc[r], says'[r] = says[r], cleared'[r] = cleared[r] PROVE Goal
    BY <1>2
<1>a. ASSUME NEW q \in Publishers, PublisherStep(q) PROVE Goal
  <2>1. q \in Workers /\ q # r
      BY <1>w
  <2>2. CASE \E d \in Drafts : ReadDraft(q, d)
      BY <1>2, <1>f, <1>w, <2>1, <2>2 DEF ReadDraft, Goto, ghosts
  <2>3. CASE ChooseSlug(q)
    <3>1. CASE Goto(q, "recheck") /\ UNCHANGED <<says, slug, target, old>>
        BY <1>2, <1>f, <1>w, <2>1, <2>3, <3>1 DEF ChooseSlug, Goto, ghosts
    <3>2. CASE UNCHANGED <<pc, says, target, old>>
        BY <1>2, <2>3, <3>2 DEF ChooseSlug, ghosts
    <3>3. CASE Leave(q)
        BY <1>1, <2>1, <2>3, <3>3 DEF ChooseSlug, ghosts
    <3>4. QED
        BY <2>3, <3>1, <3>2, <3>3 DEF ChooseSlug
  <2>4. CASE Recheck(q)
      BY <1>2, <1>f, <1>w, <2>1, <2>4 DEF Recheck, Goto, ghosts
  <2>5. CASE Overwrite(q)
      BY <1>2, <1>f, <1>w, <2>1, <2>5 DEF Overwrite, Goto
  <2>6. CASE OverwriteRefused(q)
      BY <1>1, <2>1, <2>6 DEF OverwriteRefused, ghosts
  <2>7. QED
      BY <1>a, <2>2, <2>3, <2>4, <2>5, <2>6 DEF PublisherStep
<1>b. ASSUME NEW q \in Reviewers, ReviewerStep(q) PROVE Goal
  <2>1. q \in Workers
      BY DEF Workers
  <2>2. CASE \E d \in Drafts : Approve(q, d)
      BY <1>f, <1>w, <2>1, <2>2 DEF Approve, Goto
  <2>3. CASE LookUpSlug(q)
    <3>1. CASE Leave(q)
        BY <1>1, <2>1, <2>3, <3>1 DEF LookUpSlug, ghosts
    <3>2. CASE Goto(q, "insert") /\ UNCHANGED <<says, slug, target, old>>
        BY <1>f, <1>w, <2>1, <2>3, <3>2 DEF LookUpSlug, Goto, ghosts
    <3>3. QED
        BY <2>3, <3>1, <3>2 DEF LookUpSlug
  <2>4. QED
      BY <1>b, <2>2, <2>3 DEF ReviewerStep
<1>c. ASSUME NEW w \in Workers, WorkerStep(w) PROVE Goal
  <2>1. CASE Insert(w)
    <3>1. CASE w = r
        BY <1>f, <1>w, <2>1, <3>1 DEF Insert, Goto
    <3>2. CASE w # r
        BY <1>2, <1>f, <1>w, <2>1, <3>2 DEF Insert, Goto
    <3>3. QED
        BY <3>1, <3>2
  <2>2. CASE InsertRefused(w) \/ MarkPublished(w) \/ GiveUp(w)
      BY <1>1, <2>2 DEF InsertRefused, MarkPublished, GiveUp, ghosts
  <2>3. QED
      BY <1>c, <2>1, <2>2 DEF WorkerStep
<1>d. ASSUME UNCHANGED <<pc, says, cleared>> PROVE Goal
    BY <1>2, <1>d
<1>e. Goal
    BY <1>a, <1>b, <1>c, <1>d
       DEF PublishingNext, DraftStep, SetDraftStatus, EditDraft, DeleteDraft, EditorStep,
           CreatePage, SavePage, ClonePage, DeletePage, editorRest, Tick, CronStep, SelectDue,
           PublishDue, RunFails, jobVars, ghosts, publishVars
<1>g. QED
    BY <1>e

\* ClearedInv is an invariant.
LEMMA ClearedAlways == PublishingSpec => []ClearedInv
<1>1. PublishingInit => ClearedInv
    BY DEF PublishingInit, ClearedInv, Workers
<1>2. ClearedInv /\ TypeInv /\ [PublishingNext]_publishVars => ClearedInv'
    BY ReviewerMoves DEF ClearedInv
<1>3. QED
    BY <1>1, <1>2, TypeAlways, PTL DEF PublishingSpec

\* The row a request of the review queue inserts has the text it approved.
LEMMA ApprovedStep ==
    ASSUME TypeInv, ClearedInv, [PublishingNext]_publishVars,
           NEW r \in Reviewers, pc[r] = "insert", pc'[r] = "mark",
           NEW i \in Pages, page'[i] # page[i]
    PROVE  page'[i].says = cleared[r]
<1>1. Insert(r)
    BY ReviewerMoves
<1>2. Published(slug[r], says[r]) \in PageRows
    BY RowTypes DEF TypeInv, PublishingTypeOK, Workers
<1>3. PICK j \in Pages : page' = [page EXCEPT ![j] = Published(slug[r], says[r])]
    BY <1>1, <1>2, AddPuts DEF Insert, Put, TypeInv
<1>4. page'[i].says = says[r]
    BY <1>3 DEF TypeInv, PublishingTypeOK, Published
<1>5. QED
    BY <1>4 DEF ClearedInv

\* The review queue publishes what it approved (ai-content/route.ts:225-266).
THEOREM ReviewedIsPublished == PublishingSpec => ApprovedTextOnly
<1>1. TypeInv /\ ClearedInv /\ [PublishingNext]_publishVars
        => [\A r \in Reviewers : pc[r] = "insert" /\ pc'[r] = "mark" =>
              \A i \in Pages : page'[i] # page[i] => page'[i].says = cleared[r]]_publishVars
    BY ApprovedStep
<1>2. QED
    BY <1>1, TypeAlways, ClearedAlways, PTL DEF PublishingSpec, ApprovedTextOnly

-----------------------------------------------------------------------------
(* What the cron publishes *)

\* A page the cron has selected does not wait for a review, then or later.
PickedInv == \A c \in Runs : \A i \in picked[c] : ~page[i].gated

\* Every step preserves PickedInv: no row ever begins to wait for a review.
LEMMA PickedStep ==
    ASSUME TypeInv, PickedInv, [PublishingNext]_publishVars
    PROVE  PickedInv'
<1>f. picked \in [Runs -> SUBSET Pages]
    BY DEF TypeInv, PublishingTypeOK
<1>1. \A i \in Pages : page'[i].gated => page[i].gated
  <2>1. CASE \E rows \in [Pages -> PageRows] : Put(rows) /\ Clean(rows)
      BY <2>1 DEF Put, Clean
  <2>2. QED
      BY <2>1, CleanStep
<1>2. ASSUME \A c \in Runs : picked'[c] \in {picked[c], {}} PROVE PickedInv'
    BY <1>f, <1>1, <1>2 DEF PickedInv
<1>3. CASE \E c \in Runs : SelectDue(c)
    BY <1>f, <1>3 DEF SelectDue, PickedInv, tables
<1>4. CASE \E c \in Runs : PublishDue(c) \/ RunFails(c)
    BY <1>f, <1>2, <1>4 DEF PublishDue, RunFails
<1>5. CASE UNCHANGED picked
    BY <1>2, <1>5
<1>6. QED
    BY <1>3, <1>4, <1>5
       DEF PublishingNext, PublisherStep, ReviewerStep, WorkerStep, DraftStep, EditorStep, CronStep,
           ReadDraft, ChooseSlug, Recheck, Overwrite, OverwriteRefused, Approve, LookUpSlug,
           Insert, InsertRefused, MarkPublished, GiveUp, SetDraftStatus, EditDraft, DeleteDraft,
           CreatePage, SavePage, ClonePage, DeletePage, editorRest, Tick, publishVars

\* PickedInv is an invariant.
LEMMA PickedAlways == PublishingSpec => []PickedInv
<1>1. PublishingInit => PickedInv
    BY DEF PublishingInit, PickedInv
<1>2. PickedInv /\ TypeInv /\ [PublishingNext]_publishVars => PickedInv'
    BY PickedStep
<1>3. QED
    BY <1>1, <1>2, TypeAlways, PTL DEF PublishingSpec

\* A step of the cron changes a page only if it is still scheduled.
LEMMA CronStepWaits ==
    ASSUME TypeInv, PickedInv, [PublishingNext]_publishVars,
           NEW c \in Runs, picked'[c] # picked[c], NEW i \in Pages, page'[i] # page[i]
    PROVE  page[i].status = "scheduled" /\ ~page[i].gated
<1>1. picked' # picked /\ page' # page
    OBVIOUS
<1>2. PICK r \in Runs : PublishDue(r)
    BY <1>1
       DEF PublishingNext, PublisherStep, ReviewerStep, WorkerStep, DraftStep, EditorStep, CronStep,
           ReadDraft, ChooseSlug, Recheck, Overwrite, OverwriteRefused, Approve, LookUpSlug,
           Insert, InsertRefused, MarkPublished, GiveUp, SetDraftStatus, EditDraft, DeleteDraft,
           CreatePage, SavePage, ClonePage, DeletePage, editorRest, Tick, SelectDue, RunFails,
           tables, publishVars
<1>3. i \in picked[r] /\ page[i].status = "scheduled"
    BY <1>2 DEF PublishDue, Put
<1>4. QED
    BY <1>3 DEF PickedInv

\* The cron publishes only what is scheduled and needs no review
\* (publish/route.ts:139-148, 154-165).
THEOREM CronPublishesScheduled == PublishingSpec => CronWaits
<1>1. TypeInv /\ PickedInv /\ [PublishingNext]_publishVars
        => [\A c \in Runs : picked'[c] # picked[c] =>
              \A i \in Pages : page'[i] # page[i] =>
                  page[i].status = "scheduled" /\ ~page[i].gated]_publishVars
    BY CronStepWaits
<1>2. QED
    BY <1>1, TypeAlways, PickedAlways, PTL DEF PublishingSpec, CronWaits

-----------------------------------------------------------------------------
(* The pages implement their ledger *)

\* A request carries a version of its draft, and not a later one than there is.
TextInv ==
    \A w \in Workers : pc[w] # "idle" => says[w][2] <= draft[says[w][1]].text

LedgerInv == TypeInv /\ TextInv /\ PickedInv /\ WrittenInv

\* A step sets the status of a draft, or edits its text.
LEMMA DraftMoves ==
    ASSUME TypeInv, [PublishingNext]_publishVars
    PROVE  \/ UNCHANGED draft
           \/ \E d \in Drafts, status \in DraftStatuses :
                 draft' = [draft EXCEPT ![d].status = status]
           \/ \E d \in Drafts : EditDraft(d)
<1>1. CASE \E w \in Workers : MarkPublished(w)
    BY <1>1 DEF MarkPublished, TypeInv, JobInv, DraftStatuses
<1>2. CASE \E r \in Reviewers, d \in Drafts : Approve(r, d)
    BY <1>2 DEF Approve, DraftStatuses
<1>3. CASE \E d \in Drafts : DraftStep(d)
    BY <1>3 DEF DraftStep, SetDraftStatus, DeleteDraft, DraftStatuses
<1>4. CASE UNCHANGED draft
    BY <1>4
<1>5. QED
    BY <1>1, <1>2, <1>3, <1>4
       DEF PublishingNext, PublisherStep, ReviewerStep, WorkerStep, EditorStep, CronStep, Tick,
           ReadDraft, ChooseSlug, Recheck, Overwrite, OverwriteRefused, LookUpSlug, Insert,
           InsertRefused, GiveUp, CreatePage, SavePage, ClonePage, DeletePage, editorRest,
           SelectDue, PublishDue, RunFails, tables, publishVars

\* The text of a draft never goes back to an earlier version.
LEMMA TextsGrow ==
    ASSUME TypeInv, [PublishingNext]_publishVars, NEW d \in Drafts
    PROVE  draft[d].text \in Nat /\ draft'[d].text \in Nat /\ draft[d].text <= draft'[d].text
<1>1. \A e \in Drafts : draft[e] \in DraftRows /\ draft[e].text \in Nat
    BY Bounds DEF TypeInv, PublishingTypeOK, DraftRows
<1>2. CASE \E e \in Drafts, status \in DraftStatuses :
              draft' = [draft EXCEPT ![e].status = status]
    BY <1>1, <1>2 DEF TypeInv, PublishingTypeOK, DraftRows
<1>3. CASE \E e \in Drafts : EditDraft(e)
    BY <1>1, <1>3 DEF EditDraft, TypeInv, PublishingTypeOK, DraftRows
<1>4. QED
    BY <1>1, <1>2, <1>3, DraftMoves

\* A request keeps the text it read, as the draft was then.
LEMMA RequestMoves ==
    ASSUME TypeInv, [PublishingNext]_publishVars, NEW w \in Workers, pc'[w] # "idle"
    PROVE  \/ pc[w] # "idle" /\ says'[w] = says[w]
           \/ \E d \in Drafts : says'[w] = <<d, draft[d].text>>
<1> DEFINE Goal == \/ pc[w] # "idle" /\ says'[w] = says[w]
                   \/ \E d \in Drafts : says'[w] = <<d, draft[d].text>>
<1>f. pc \in [Workers -> Places] /\ says \in [Workers -> Texts]
    BY DEF TypeInv, PublishingTypeOK
<1>w. Publishers \subseteq Workers /\ Reviewers \subseteq Workers
    BY DEF Workers
<1>1. ASSUME NEW v \in Workers, Leave(v) PROVE Goal
    BY <1>1, <1>f DEF Leave
<1>2. ASSUME NEW v \in Workers, NEW place, pc[v] # "idle", Goto(v, place), UNCHANGED says
      PROVE  Goal
    BY <1>2, <1>f DEF Goto
<1>3. ASSUME NEW v \in Workers, NEW place, NEW d \in Drafts, Goto(v, place),
             says' = [says EXCEPT ![v] = <<d, draft[d].text>>]
      PROVE  Goal
    BY <1>3, <1>f DEF Goto
<1>4. ASSUME UNCHANGED <<pc, says>> PROVE Goal
    BY <1>4
<1>a. ASSUME NEW p \in Publishers, PublisherStep(p) PROVE Goal
    BY <1>a, <1>1, <1>2, <1>3, <1>4, <1>w
       DEF PublisherStep, ReadDraft, ChooseSlug, Recheck, Overwrite, OverwriteRefused
<1>b. ASSUME NEW r \in Reviewers, ReviewerStep(r) PROVE Goal
    BY <1>b, <1>1, <1>2, <1>3, <1>w DEF ReviewerStep, Approve, LookUpSlug
<1>c. ASSUME NEW v \in Workers, WorkerStep(v) PROVE Goal
    BY <1>c, <1>1, <1>2 DEF WorkerStep, Insert, InsertRefused, MarkPublished, GiveUp
<1>d. QED
    BY <1>a, <1>b, <1>c, <1>4
       DEF PublishingNext, DraftStep, SetDraftStatus, EditDraft, DeleteDraft, EditorStep,
           CreatePage, SavePage, ClonePage, DeletePage, editorRest, Tick, CronStep, SelectDue,
           PublishDue, RunFails, jobVars, publishVars

\* Every step preserves TextInv.
LEMMA TextStep ==
    ASSUME TypeInv, TextInv, [PublishingNext]_publishVars
    PROVE  TextInv'
<1> SUFFICES ASSUME NEW w \in Workers, pc'[w] # "idle"
             PROVE  says'[w][2] <= draft'[says'[w][1]].text
    BY DEF TextInv
<1>1. CASE pc[w] # "idle" /\ says'[w] = says[w]
  <2>1. says[w][1] \in Drafts /\ says[w][2] \in Nat /\ says[w][2] <= draft[says[w][1]].text
      BY <1>1, Bounds DEF TypeInv, PublishingTypeOK, JobInv, Texts, TextInv
  <2>2. QED
      BY <1>1, <2>1, TextsGrow
<1>2. CASE \E d \in Drafts : says'[w] = <<d, draft[d].text>>
    BY <1>2, TextsGrow
<1>3. QED
    BY <1>1, <1>2, RequestMoves

\* The invariants that the refinement needs hold always.
LEMMA LedgerInvAlways == PublishingSpec => []LedgerInv
<1>1. PublishingInit => TextInv
    BY DEF PublishingInit, TextInv
<1>2. TextInv /\ TypeInv /\ [PublishingNext]_publishVars => TextInv'
    BY TextStep
<1>3. QED
    BY <1>1, <1>2, TypeAlways, PickedAlways, WrittenAlways, PTL DEF PublishingSpec, LedgerInv

\* A write of one row is a write of that row of the ledger.
LEMMA Becomes ==
    ASSUME TypeInv, NEW i \in Pages, NEW row \in PageRows, Put([page EXCEPT ![i] = row])
    PROVE  Ledger!Become(i, Ledger!Row(row.status, row.gated, row.says))
BY DEF TypeInv, PublishingTypeOK, Put, Ledger!Become, Ledger!Row

\* A human's write saves the page, and keeps the gate.
LEMMA SaveRefines ==
    ASSUME TypeInv, NEW i \in Pages, NEW row \in PageRows, Put([page EXCEPT ![i] = row]),
           page[i].status # "deleted", row.status \in Ledger!LiveStatuses, row.says = Typed,
           row.gated = (Live(i) /\ page[i].gated), Edit, UNCHANGED <<draft, written>>
    PROVE  Ledger!PageNext
<1>1. Ledger!Become(i, Ledger!Row(row.status, row.gated, row.says))
    BY Becomes
<1>2. Ledger!Save(i)
    BY <1>1
       DEF Ledger!Save, Ledger!Ask, Ledger!Become, Ledger!Row, Ledger!Live, Ledger!LiveStatuses,
           Live, Edit
<1>3. QED
    BY <1>2 DEF Ledger!PageNext

\* What a publication writes is a version of its draft.
LEMMA PublishRefines ==
    ASSUME LedgerInv, NEW w \in Workers, pc[w] # "idle", NEW i \in Pages,
           Put([page EXCEPT ![i] = Published(slug[w], says[w])]), page[i].status # "deleted",
           written' = written \cup {says[w][1]}, UNCHANGED <<draft, edits>>
    PROVE  Ledger!PageNext
<1>1. Published(slug[w], says[w]) \in PageRows
    BY RowTypes DEF LedgerInv, TypeInv, PublishingTypeOK
<1>2. PICK d \in Drafts, v \in Nat : says[w] = <<d, v>> /\ v \in 0..draft[d].text
    BY Bounds DEF LedgerInv, TypeInv, PublishingTypeOK, JobInv, Texts, TextInv, DraftRows
<1>3. PICK row \in PageRows : row = Published(slug[w], <<d, v>>)
    BY <1>1, <1>2
<1>4. Ledger!Become(i, Ledger!Row(row.status, row.gated, row.says))
    BY <1>2, <1>3, Becomes DEF LedgerInv
<1>5. row.status = "published" /\ row.gated = FALSE /\ row.says = <<d, v>>
    BY <1>3 DEF Published
<1>6. \E u \in 0..draft[d].text : Ledger!Become(i, Ledger!Row("published", FALSE, <<d, u>>))
    BY <1>2, <1>4, <1>5
<1>7. written' = written \cup {d}
    BY <1>2
<1>8. Ledger!Publish(i, d)
    BY <1>6, <1>7 DEF Ledger!Publish
<1>9. QED
    BY <1>8 DEF Ledger!PageNext

\* The cron releases what it has selected and still finds scheduled.
LEMMA ReleaseRefines ==
    ASSUME LedgerInv, NEW c \in Runs, PublishDue(c)
    PROVE  Ledger!PageNext
<1>0. PICK due \in SUBSET Pages :
          due = {i \in Pages : i \in picked[c] /\ page[i].status = "scheduled"}
    OBVIOUS
<1>1. \A i \in due : page[i].status = "scheduled" /\ ~page[i].gated
    BY <1>0 DEF LedgerInv, PickedInv
<1>2. \A i \in Pages : page[i] \in PageRows
    BY DEF LedgerInv, TypeInv, PublishingTypeOK
<1>3. Ledger!Release(due)
    BY <1>0, <1>1, <1>2 DEF PublishDue, Put, PageRows, ghosts, Ledger!Release
<1>4. QED
    BY <1>3 DEF Ledger!PageNext

\* A draft whose status is set comes to count as published, or ceases to.
LEMMA MarkRefines ==
    ASSUME LedgerInv, NEW d \in Drafts, NEW status \in DraftStatuses,
           draft' = [draft EXCEPT ![d].status = status], UNCHANGED <<page, written>>,
           Edit \/ UNCHANGED edits,
           status = "published" => d \in written /\ UNCHANGED edits
    PROVE  Ledger!PageNext
<1>1. draft \in [Drafts -> DraftRows]
    BY DEF LedgerInv, TypeInv, PublishingTypeOK
<1>2. /\ \A e \in Drafts : draft'[e].text = draft[e].text
      /\ \A e \in Drafts : draft'[e].status = IF e = d THEN status ELSE draft[e].status
    BY <1>1 DEF DraftRows
<1>3. CASE status = "published"
  <2>1. Ledger!Mark(d)
      BY <1>2, <1>3 DEF Ledger!Mark
  <2>2. QED
      BY <2>1 DEF Ledger!PageNext
<1>4. CASE status # "published"
  <2>1. Ledger!Unmark(d)
      BY <1>2, <1>4 DEF Ledger!Unmark, Ledger!Ask, Edit
  <2>2. QED
      BY <2>1 DEF Ledger!PageNext
<1>5. QED
    BY <1>3, <1>4

\* A step that leaves pages and drafts alone is none of the ledger.
LEMMA Stutters ==
    ASSUME UNCHANGED <<tables, written, edits>>
    PROVE  UNCHANGED Ledger!pageVars
BY DEF tables, Ledger!pageVars

\* Every step is a step of the ledger, or none.
LEMMA RefinesPages ==
    ASSUME LedgerInv, [PublishingNext]_publishVars
    PROVE  [Ledger!PageNext]_(Ledger!pageVars)
<1> USE DEF LedgerInv
<1>w. Publishers \subseteq Workers /\ Reviewers \subseteq Workers
    BY DEF Workers
<1>n. \A status \in PageStatuses :
        NoPage(status) \in PageRows /\ NoPage(status).status = status
          /\ NoPage(status).says = Typed /\ NoPage(status).gated = FALSE
    BY RowTypes DEF NoPage
<1>f. \A form \in Forms : /\ form \in PageRows /\ form.status \in Ledger!LiveStatuses
                          /\ form.says = Typed /\ form.gated = FALSE
    BY RowTypes DEF Forms, Ledger!LiveStatuses
<1>1. CASE \E p \in Publishers : Overwrite(p)
  <2> PICK p \in Publishers : Overwrite(p)
      BY <1>1
  <2>1. target[p] \in Pages /\ page[target[p]].status # "deleted" /\ pc[p] # "idle"
      BY <1>w DEF Overwrite, TypeInv, JobInv, Live
  <2>2. QED
      BY <1>w, <2>1, PublishRefines DEF Overwrite
<1>2. CASE \E w \in Workers : Insert(w)
  <2> PICK w \in Workers : Insert(w)
      BY <1>2
  <2>1. Published(slug[w], says[w]) \in PageRows
      BY RowTypes DEF TypeInv, PublishingTypeOK
  <2>2. PICK i \in Pages : /\ page[i].status = "unborn"
                           /\ Put([page EXCEPT ![i] = Published(slug[w], says[w])])
      BY <2>1, AddPuts DEF Insert, TypeInv
  <2>3. QED
      BY <2>2, PublishRefines DEF Insert
<1>3. CASE EditorStep
  <2>0. Edit /\ UNCHANGED <<draft, written>>
      BY <1>3 DEF EditorStep, CreatePage, SavePage, ClonePage, DeletePage, editorRest, ghosts
  <2>1. ASSUME NEW row \in PageRows, Add(row), row.status \in Ledger!LiveStatuses,
               row.says = Typed, row.gated = FALSE
        PROVE  Ledger!PageNext
    <3>1. PICK i \in Pages : page[i].status = "unborn" /\ Put([page EXCEPT ![i] = row])
        BY <2>1, AddPuts DEF TypeInv
    <3>2. QED
        BY <2>0, <2>1, <3>1, SaveRefines DEF Live
  <2>2. CASE \E form \in Forms : CreatePage(form)
      BY <1>f, <2>1, <2>2 DEF CreatePage
  <2>3. CASE \E i \in Pages : ClonePage(i)
      BY <1>n, <2>1, <2>3 DEF ClonePage, PageStatuses, Ledger!LiveStatuses
  <2>4. CASE \E i \in Pages : DeletePage(i)
    <3> PICK i \in Pages : DeletePage(i)
        BY <2>4
    <3>1. "deleted" \in PageStatuses /\ Live(i)
        BY DEF PageStatuses, DeletePage
    <3>2. Ledger!Become(i, Ledger!Row("deleted", FALSE, Typed))
        BY <1>n, <3>1, Becomes DEF DeletePage
    <3>3. Ledger!Remove(i)
        BY <2>0, <3>1, <3>2
           DEF Ledger!Remove, Ledger!Ask, Ledger!Live, Ledger!LiveStatuses, Live, Edit
    <3>4. QED
        BY <3>3 DEF Ledger!PageNext
  <2>5. CASE \E i \in Pages, form \in Forms : SavePage(i, form)
    <3> PICK i \in Pages, form \in Forms : SavePage(i, form)
        BY <2>5
    <3>0. PICK row \in PageRows : row = [form EXCEPT !.gated = page[i].gated]
        BY <1>f DEF TypeInv, PublishingTypeOK, PageRows
    <3>1. /\ row.gated = page[i].gated
          /\ row.status \in Ledger!LiveStatuses /\ row.says = Typed
        BY <1>f, <3>0 DEF PageRows
    <3>2. Put([page EXCEPT ![i] = row]) /\ Live(i) /\ page[i].status # "deleted"
        BY <3>0 DEF SavePage, Live
    <3>3. page[i].gated \in BOOLEAN
        BY DEF TypeInv, PublishingTypeOK, PageRows
    <3>4. QED
        BY <2>0, <3>1, <3>2, <3>3, SaveRefines
  <2>6. QED
      BY <1>3, <2>2, <2>3, <2>4, <2>5 DEF EditorStep
<1>4. CASE \E c \in Runs : PublishDue(c)
    BY <1>4, ReleaseRefines
<1>5. CASE \E w \in Workers : MarkPublished(w)
  <2> PICK w \in Workers : MarkPublished(w)
      BY <1>5
  <2>1. says[w][1] \in written /\ says[w][1] \in Drafts /\ UNCHANGED <<page, written, edits>>
      BY DEF MarkPublished, TypeInv, JobInv, WrittenInv, MarkInv, ghosts
  <2>2. CASE UNCHANGED draft
      BY <2>1, <2>2, Stutters DEF tables
  <2>3. CASE draft' = [draft EXCEPT ![says[w][1]].status = "published"]
      BY <2>1, <2>3, MarkRefines DEF DraftStatuses
  <2>4. QED
      BY <2>2, <2>3 DEF MarkPublished
<1>6. CASE \E r \in Reviewers, d \in Drafts : Approve(r, d)
    BY <1>6, MarkRefines DEF Approve, DraftStatuses
<1>7. CASE \E d \in Drafts : DraftStep(d)
  <2> PICK d \in Drafts : DraftStep(d)
      BY <1>7
  <2>1. CASE EditDraft(d)
    <3>1. /\ UNCHANGED <<page, written>>
          /\ [e \in Drafts |-> draft'[e].text]
               = [[e \in Drafts |-> draft[e].text] EXCEPT ![d] = @ + 1]
          /\ \A e \in Drafts : draft'[e].status = draft[e].status
        BY <2>1 DEF EditDraft, TypeInv, PublishingTypeOK, DraftRows, ghosts
    <3>2. Ledger!Revise(d)
        BY <2>1, <3>1 DEF Ledger!Revise, Ledger!Ask, EditDraft, Edit
    <3>3. QED
        BY <3>2 DEF Ledger!PageNext
  <2>2. CASE SetDraftStatus(d)
      BY <2>2, MarkRefines DEF SetDraftStatus, DraftStatuses, ghosts
  <2>3. CASE DeleteDraft(d)
      BY <2>3, MarkRefines DEF DeleteDraft, DraftStatuses, ghosts
  <2>4. QED
      BY <2>1, <2>2, <2>3 DEF DraftStep
<1>8. CASE UNCHANGED <<tables, written, edits>>
    BY <1>8, Stutters
<1>9. QED
    BY <1>1, <1>2, <1>3, <1>4, <1>5, <1>6, <1>7, <1>8
       DEF PublishingNext, PublisherStep, ReviewerStep, WorkerStep, CronStep, Tick, ReadDraft,
           ChooseSlug, Recheck, OverwriteRefused, LookUpSlug, InsertRefused, GiveUp, SelectDue,
           RunFails, ghosts, publishVars

\* Publishing implements the ledger of pages: whatever a request or a run has read before,
\* its write is one that the ledger has (publish-draft.ts:132-206, publish/route.ts:139-165).
THEOREM PublishingImplementsLedger == PublishingSpec => ImplementsPageLedger
<1>1. PublishingInit => Ledger!PageInit
  <2> SUFFICES ASSUME PublishingInit PROVE Ledger!PageInit
      OBVIOUS
  <2>0. PICK row : /\ page = [i \in Pages |-> IF i = 1 THEN row ELSE NoPage("unborn")]
                   /\ row \in {NoPage("unborn")} \cup
                         [status : {"scheduled"}, slug : {1}, at : {MaxTime},
                          gated : BOOLEAN, says : {Typed}]
      BY DEF PublishingInit
  <2>1. \A i \in Pages : /\ page[i].status \in {"unborn", "scheduled"}
                         /\ page[i].gated \in BOOLEAN /\ page[i].says = Typed
    <3>1. /\ NoPage("unborn").status = "unborn" /\ NoPage("unborn").gated = FALSE
          /\ NoPage("unborn").says = Typed
        BY DEF NoPage
    <3>2. row.status \in {"unborn", "scheduled"} /\ row.gated \in BOOLEAN /\ row.says = Typed
        BY <2>0, <3>1
    <3>3. QED
        BY <2>0, <3>1, <3>2
  <2>2. QED
      BY <2>1 DEF PublishingInit, Ledger!PageInit
<1>2. LedgerInv /\ [PublishingNext]_publishVars => [Ledger!PageNext]_(Ledger!pageVars)
    BY RefinesPages
<1>3. QED
    BY <1>1, <1>2, LedgerInvAlways, PTL
       DEF PublishingSpec, ImplementsPageLedger, Ledger!PageSpec
=============================================================================
