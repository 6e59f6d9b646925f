# TinyMRP: specifications

TLA+ models of the parts of TinyMRP whose correctness depends on the order in
which things happen, the TLC configurations that check them on small instances
and, for part numbering, imports, reviews, API tokens and eleven pages of the front end,
proofs for every size of the instance that TLAPS checks.  `PROJECT.json` lists
components, runs, theorems and, for each definition, the source lines it stands for.

To check a module: `tlc -config numbering.cfg MCNumbering`; to check the proofs:
`tlapm NumberingProofs.tla`, and likewise `ImportProofs`, `ReviewsProofs`, `BrowserProofs`,
`SettingsProofs`, `PagesProofs`, `PartProofs` and `MarkupProofs`.

## 1. The system

TinyMRP keeps parts, their bills of material (BOMs), their deliverables (drawings,
models) and the work around them.  A Flask application keeps documents in MongoDB
through MongoEngine and deliverables on a disk; a React front end and a SolidWorks
add-in are its clients.

What makes it hard is the deployment.  gunicorn runs several worker processes
with several threads each (`src/docker/app/entrypoint.sh:76-107`), there are no
transactions and no locks, and no state is shared between workers but the
database and the disk.  So a handler is a sequence of database and file
operations that interleaves with every other handler, and that ends wherever its
worker is killed.  What keeps documents consistent is only

* unique indexes (claims of numbers, part/revision pairs, annotation and markup
  documents),
* a few conditional updates (markup versions, token revocation, session versions),
* compensation after an error (imports), and
* histories such as the import journal, for a person to read.

MongoEngine writes only the fields changed in memory.  Two requests that change
different fields of a document do not disturb each other; two that change the
same list lose one change; a document deleted while another request holds it
comes back with the changed fields alone.  The models say this where it matters.

The front end has the same problem in the small.  A page stays mounted while one
follows a link; every handler sees the state of the rendering it was made in; the
answers of its requests come in any order, late, or not at all; and many of the
handlers do not ask whether their answer is still wanted.

### Components

| Component | State | Operations | Hard behaviour | What makes it correct | Here |
|---|---|---|---|---|---|
| Part numbering | schemes, permanent claims, parts, revision history | preview, allocate, create part, edit and delete a scheme | allocations racing for a value, claims read once, crash after a claim, calendar resets | no value twice, no gaps, a failure costs one value at most | modelled, proved |
| Upload-pack import | parts, BOM links, file records, disk, journal | plan, authorise, execute, compensate, tell the uploader | two stores without a transaction, two imports at once, failures of single operations, killed workers | the journal bounds what was done; a clean rollback restores; a commit delivers; approved parts are protected | modelled, proved |
| Annotations, markups, review status | annotation document, markup layers, fields of the part | notes, comments, canvas and thread requests, counting | whole lists saved from old copies, versions compared by some requests only, drawing replaced | reviews are lost or overwritten only in named ways; the part shows its reviews | modelled, proved |
| API tokens | token documents, active accounts | create, rotate, revoke, sweep | look, insert and conditional update apart; deactivation in two operations | a rotation has one successor; what outlives an account was late | modelled, proved; sessions and impersonation planned |
| Page: import | pack, policy, picks, plan, confirmation | choose, preview, apply, confirm | everything can be changed while a request is out | only the plan of what is selected, and not yet applied, may be applied | modelled, proved |
| Page: field configuration | the configuration as edited, as stored | edit, save, reset, rebuild | edited and stored as a whole; identifiers are counted | presets name fields there are | modelled, proved |
| Page: schemes and client tokens | tokens of a user, switches, a pattern | load, switch, save, edit pieces | overlapping lists; a piece known by its position | tokens are the named user's; one automatic counter | modelled, proved |
| Page: a part | part, notes, comments, files, links, flags | follow links, save, comment, upload, share, export, delete | answers land on the part shown by then | no part gets another one's notes; nothing stays busy | modelled, partly proved |
| Page: BOM | tree, unfolded branches, flat list, where-used | unfold, expand all, switch | branches answered into another tree | every row is below its parent, of this part | modelled, proved |
| Page: list of parts | question, rows, total | search, filter, sort, turn pages | superseded fetches, outages | no rows means no parts | modelled, proved |
| Columns of the tables | configuration, preferences | choose, order, reset | one value for all tables, shown before stored | a choice for one table leaves the others | modelled |
| Document packs, exports | choices, options of a part and depth | tick, build, cancel | choices kept from part to part | a pack is of what its part offers | the page is modelled, rendering is not |
| Markup editor | canvas, draft, history, layer | draw, undo, hide, save, reload, review | drawing, leaving and other saves while one is out | work is on the canvas or in the draft | modelled, proved |
| Mentions | what is typed, suggestions, timer | type, choose, close | a timer and answers that are late | suggestions are for what is typed | modelled |
| Orders and jobs | order, job, supplier and customer documents | create, edit, change status, complete stages | numbers read before the insert; checks before whole saves | status flow followed; numbers unique | planned |
| Part deletion | parts, BOM links, files, reviews | plan a subtree, delete step by step | failure between steps; BOM changing meanwhile | nothing still used is deleted | planned; its request from the page is modelled |
| File store and rescans | file records, flags of parts, disk | scan, rescan, serve | one state per worker; storage offline | flags agree with storage | later |
| Notifications | items per recipient | create, archive | two current items of a conversation | one current item each | later |
| Part shares | share documents | create, resolve, revoke | scope computed while the BOM changes | a share reaches its subtree only | links as the page lists them; scope later |
| Authorisation and record scope | roles, permissions | decision functions | none of its own | decisions agree between list and record | not modelled |
| Artifacts of exports | files on disk | render, store, load | crash between data and metadata | no artifact served to another owner | not modelled |
| Attributes, processes, field policies | configuration | normalise, validate | none of its own | data transformation | not modelled |
| Purge, backups, samples | all collections | bulk deletion | run by an operator on a quiet system | counters follow what is deleted | not modelled |
| Limits, settings, audit, metrics | counters, settings, log | append, read | budgets per worker | - | not modelled |
| Startup | roles, first user | reconcile, seed | two first starts | one first administrator | not modelled |
| Viewers, dashboard, add-in, deployment | - | - | - | - | not modelled |

The components meet in the part: numbering creates it, imports create and
overwrite it, reviews keep derived fields on it, deletion takes it with
everything that refers to it.  `Numbering` has the other writers of parts as
actions of its environment (`ImportPart`, `DeletePart`); `Reviews` composes
`Annotations` and `Markups`, which share the part's number of pending reviews.
`FrontEnd` composes the pages, which share the tab, its requests and its server.

## 2. Modules

| Module | Models | Extends |
|---|---|---|
| `NumberRegister` | abstract: a value is free, held, issued or lost | - |
| `Numbering` | `app/services/numbering.py`, `app/views/numbering.py` | - |
| `MCNumbering` | instance | `Numbering` |
| `NumberingProofs` | theorems | `Numbering` |
| `ImportPlan` | pure: plan and permissions of `app/services/upload_pack.py` | - |
| `ImportPack` | execution, journal, compensation, answer | `ImportPlan` |
| `MCImportPack` | instances | `ImportPack` |
| `ImportProofs` | theorems | `ImportPack` |
| `ReviewDesk` | documents and requests of reviews | - |
| `Annotations` | `app/services/part_annotations.py` | `ReviewDesk` |
| `Markups` | `app/services/part_drawing_markups.py`, its routes, the editor | `ReviewDesk` |
| `Reviews` | both, with `app/services/part_review_status.py` | `Annotations`, `Markups` |
| `MCReviews` | instances | `Reviews` |
| `Browser` | a page, its requests on their way, its server, lost requests (`lib/api.ts`) | - |
| `UploadPage` | `pages/UploadPackPage.tsx`, `lib/importPlan.ts` | `Browser` |
| `TokensPage` | `pages/ApiTokensPage.tsx`, `app/services/api_tokens.py`, its routes | `Browser` |
| `FieldsPage` | `pages/AdminFieldsPage.tsx`, the sanitizer of `app/services/field_config.py` | `Browser` |
| `AddinPage` | `pages/AdminAddinPage.tsx`, `lib/numbering.ts` | `Browser` |
| `PartPage` | `pages/PartDetailPage.tsx`: part, notes, comments, files, links, exports, deletion | `Browser` |
| `BomView` | `pages/BomPage.tsx` and the BOM table of a part, `lib/bomTree.ts` | `Browser` |
| `ColumnsPage` | `lib/fieldConfig.ts`, `components/FieldSelector.tsx`, user preferences of the server | `Browser` |
| `PartsTable` | `pages/PartsPage.tsx` | `Browser` |
| `PackForm` | the document packs of `pages/PartDetailPage.tsx` | `Browser` |
| `MarkupEditor` | `components/markups/*`, and what the page of a part keeps for the editor | `Browser` |
| `MentionBox` | `components/MentionTextarea.tsx` | `Browser` |
| `FrontEnd` | all of these, any page being the one that is open | the pages |
| `MCFrontEnd` | instances | `FrontEnd` |
| `ReviewsProofs` | theorems | `Reviews` |
| `BrowserProofs` | lemmas on lists and on the requests on their way | `Browser` |
| `SettingsProofs`, `PartProofs` | theorems | `TokensPage` and `AddinPage`, `PartPage` |
| `PagesProofs` | theorems: imports, list of parts, BOMs, packs, fields, columns, mentions | `FrontEnd` |
| `MarkupProofs` | theorems: the markup editor | `FrontEnd` |

An action is one database or file operation with what the handler computes up to
the next one.  Definitions with a comment "Mutant" are what a plausible mistake
would make of the definition below them; no specification uses them, they exist
to show that the properties notice.

### Numbering

`claims` is the collection `numbering_counters`: since every value ever used is a
document under a unique index, the counter has no next value.  A request
(`LoadScheme`) fixes its series and start, reads the claims of the series once
(`ReadClaims`), and walks upward (`CheckCandidate`): a value whose number is in use
is claimed on the way (`MarkTaken`), a value somebody else claims first is passed
(`LoseRace`), otherwise it is claimed (`ClaimValue`), looked up again (`Recheck`) and
saved with its history (`SavePart`, `RecordHistory`).  `Crash` may come before any of
these.  Administrators (`CreateScheme`, `EditScheme`/`SaveScheme`,
`DeleteCounters`/`DeleteScheme`), other writers of parts and the calendar are the
environment.  `editor` splits the read and the save of a scheme, so that a save
after a deletion brings the scheme back with default fields.  Such a document may be
without segments, and a request for it has no counter to draw on: its number is empty
(`ServeBlank`, `RecordBlank`), claims nothing, and is the number of one part of each revision
at most.

Numbers are pairs of text and value, `MaxSeq` is what the padding can show.  Left
out: patterns with two counters, the generation of revisions, presets.

### Import

`run[i]` is what one execution of `import_upload_pack` has in memory; `pc` is its
place between two operations.  `ImportPlan` computes from the pack, the policies
and what was read the redline of every part (`Plan`), what is written (`ToSave`,
`BomParents`, `FileTargets`) and what the user must be allowed to do (`Required`,
`Tiers`, `Resources`).  A part that is not approved has a value all the same
(`HasValue`), so that approving a draft changes it and takes the advanced tier.
`ImportPack` executes it: journal, parts, links, files moved
aside and placed, records, commit; on `Fault` the files placed are put back, created
parts and their links deleted, and the journal says what is left.  `Crash` stops a
run anywhere after its journal is open.  `effects` and `raced` are history: what an
import did to which part, and which parts another import wrote since it looked.

Abstractions: the journal is always written; existing parts carry the seed tag of
the import, so that they may be overwritten; links have no quantities; one field
and one deliverable per part; file records and the storage scan are read at one
moment; putting a file back is one step unless it fails.  Left out: parsing of
archives, files beside the managed ones, dry runs, the sweep after a commit, and
the recognition of a repeated pack, which is only reported.

### Reviews

`ReviewDesk` has the documents and `work[u]`, the request a browser has on the way.
`Annotations` serves notes, comments, status, replies and removal: the document is
read once (`LoadAnnotation`), a search text that disagrees is repaired first
(`RepairSearch`), the document is inserted, updated or, when both notes and comments
are empty, deleted, and the part's search texts follow (`SavePart`).  `Markups` has
the editor (`tabs[u].page`: base version, canvas, what counts as saved, conflict) and
the handlers: a canvas is saved against its version twice, when read and in the
update (`LoadLayer`, `SaveCanvas`); thread requests write what they computed from the
layer they read (`SaveThread`).  Fields of one thread are written under the thread's
position in the list (`WriteAt`), which is how MongoEngine saves a change in a list
of embedded documents; together with the rule that only changed fields are written
(`Field`) it is modelled from how the code uses that library.  `Reviews` adds the
count of pending reviews, in three operations, and the drawing that is replaced.

Abstractions: priorities and the links of threads to objects are left out; every
user may do everything; one page; one request per browser at a time, and no editing
while it is out; part and annotation are read at one moment.  Left out: legacy
attributes, notifications, audit, purging and the deletion of parts, drafts kept
when the editor is closed.

### Front end

`Browser` is what the pages share.  `page` is a record of the state of the mounted
components, one record per page; `calls` are the requests on their way, each with
what its handler closed over (`args`), what the server's handler has in memory
(`work`) and the answer (`reply`); `server` is what the requests of the page read and
write.  The answers of different requests are served and taken in any order, and any
of them may be lost (`Lose`).  The operators of an answer that the code guards with a
flag, an abort or a comparison have that guard; those that the code does not guard
have none.  A route is one step, except in `TokensPage`, where its database
operations are steps.  `left` bounds what users, other clients and the network do.

* `UploadPage`: edits of the pack, the tier, the categories, approvals and picks
  among duplicate rows; `ClickPreview`, `ClickApply`, `ConfirmApply`; the server plans
  (`PlanImport`) or imports (`ExecuteImport`), and may find other rights than the page
  has (`ChangeRights`).  A plan is what it was computed from.
* `TokensPage`: the owner is looked up (`CheckOwner`), the token stored
  (`InsertToken`), for a rotation the old one ended if it is still valid
  (`ReplaceToken`) or the new one taken back (`UndoReplacement`).  `Deactivate` and
  `RevokeUserTokens` are two operations.
* `FieldsPage`: a field is its identifier, a configuration the built-in field and the
  custom ones, those allowed and shown by default in one table, and one further setting.
  `RenameCustomField` takes any identifier, the built-in one too, and changes every entry
  that has the old one; `SaveFieldConfig` is the server's sanitizer, which puts the built-in
  and the required fields back.
* `AddinPage`: three parts that share an error and nothing else, used one at a time:
  the tokens of a selected user, the switches of schemes, the builder of a pattern.
  Pieces have identities that the code does not have, so that it can be said which
  piece an update hits.
* `PartPage`: `Render` is what the effects of the page do when address, part or
  refresh counter change; `Navigate` follows a link.  Each use of the page (notes,
  comments, files, share links, exports, deletion) is a part of its own.
* `BomView`: rows are nodes keyed by their path; "Expand all" goes branch by branch
  over its copy of the tree.  `own` tells the page of its own, which is
  cancelled, from the table under a part, which is not.
* `ColumnsPage`: the choice of columns with what is allowed, required and stored;
  an administrator may withdraw a column meanwhile (`WithdrawField`).
* `PartsTable`: the question is an offset, a size, an order and tags that narrow;
  every change aborts the fetch before it.
* `PackForm`: types and processes are treated alike and are one choice.
* `MarkupEditor`: marks and which of them are hidden, history, draft, base version;
  mounted anew per part and drawing.  `Markups` has the handlers in detail and two
  editors; here there is one, and others save in single steps.
* `MentionBox`: the 140 ms of silence are a step (`AskMentionable`) that may come
  between any two others.

History variables say what the user or the network did that the code has no answer
to; the properties except it by name and say where it is.  They are `doubt` of
several pages, `risky` of the editor, `late` and `beside` of mentions, `stray`, `outage`
and `flatLeft` of the BOM, `taken` of the fields, `blind` of the columns, `ahead` of the list, `kept` of packs and `strayed` of
patterns.

## 3. Runs

| Run | Instance | Shows |
|---|---|---|
| `numbering` | 2 workers, 1 scheme of two settings or without segments, values 1..2, 2 requests, 2 events, 2 periods, crashes | `TypeOK`, `IssuedOnce`, `GapsFilled`, `FailureLosesAtMostOne`, `ScanAdvances`, and that the documents implement `NumberRegister` |
| `numbering_ceiling` | 1 worker, 3 requests | `RefusalAllocatesNothing` is violated |
| `import` | 2 imports of 4 kinds, 4 stores, 1 mishap | `TypeOK`, `JournalBounds`, `RollbackRestoresDatabase`, `CommitDelivers` |
| `import_alone` | 1 import, every combination of policies, users that lack a permission, 2 mishaps | `ApprovedProtected`, `EffectsAuthorised`, `JournalSettles` |
| `import_rollback` | 2 imports that create the same parts | `OnlyCreatedPartsRemoved` is violated |
| `import_fill` | a fill-only and an approving import | `FillOnlySparesApproved` is violated |
| `import_undone` | 1 import, 1 mishap | `UndoneKeepsNothing` is violated |
| `reviews` | 2 users, 2 contents of the drawing, 2 objects, 8 situations with 2 or 3 more requests | `TypeOK`, `PartFollowsReviews`, `NotesApartFromComments`, `CommentsLostOnlyByOverlap`, `ReplacedNotesAreReturned`, `CanvasReplacesWhatWasLoaded`, `MessagesStayInTheirThread` |
| `reviews_canvas` | 2 users, a layer with a thread, 3 requests | `NobodyIsOverwritten` is violated |
| `reviews_closing` | 2 users, an empty part, 2 requests | `PendingCanBeClosed` is violated |
| `frontend` | each page, and each use of a page, alone with 2 to 5 acts | the 20 properties below |
| `frontend_confirm` | the import page with a destructive plan previewed, 4 acts | `OnlyPreviewedIsApplied` is violated |

| Properties of `frontend` | What they show |
|---|---|
| `PlanIsOfTheSelection`, `AppliedPlanIsSpent` | the plan that may be applied is of what is selected, and not yet applied |
| `RotationHandsOver`, `OnlyLateTokensSurvive` | a rotated token has ended and has one successor; what survives a deactivation raced with it |
| `PresetsNameFields` | adding, renaming into another's identifier and removing fields leaves no preset dangling, and the stored presets keep what is required |
| `TokensBelongToUser`, `OneAutoCounter`, `UpdateHitsOpenedPiece`, `ExampleIsOfPattern` | the administrator's page acts on what it shows |
| `ShownPartIsTheRequested`, `NotesStayWithTheirPart` | following links fast shows and saves the right part |
| `TreeIsOfThePart`, `BranchesBelongToNodes` | BOM rows are of this part and below their parents |
| `ShownColumnsAllowed`, `OtherTablesKeepTheirColumns` | columns under a changing configuration; one table's choice leaves the others |
| `NoRowsMeansNoParts` | "No parts found" is true |
| `PackIsOfWhatIsOffered` | a pack asks for what its part has at its depth |
| `WorkIsKept` | what was drawn is on the canvas, in the draft or saved |
| `QuietPageIsIdle` | no page stays busy, whatever failed or was superseded, the flag of an abandoned flat list apart |
| `QuietPageShowsTheStored` | when no request is out, each page shows what is stored or answered (nine pages, one conjunct each) |

### Why the bounds are enough

*Numbering.*  Two workers race for two values: one of them can lose the race and
then find the range exhausted, reach its own requested start (2), or meet a value
whose part was imported.  The second setting starts a new series each period under
the same text, so that a number may be in use by a part of another series.  Two
events let an edit overlap with a deletion only across its read and its save, or a
part be imported and deleted; the proofs cover more.  Scopes, dated texts and
several schemes only make more keys, which the run does not need and the proofs
include.  Symmetry (workers here, users in `reviews`) is used in safety runs only.

*Import.*  An assembly and a component are enough for a pack that describes one part
and only lists another, a link, a created and an existing part, and the second item
of every loop at which a failure leaves the first one done.  One mishap with two
imports gives every single failure at every point of every interleaving; two
mishaps alone add a failure within the compensation.  One of the stores has links whose
parent is gone, which a death between the two halves of a rollback leaves behind
(`upload_pack.py:1917-1918`).

*Reviews.*  Every lost update needs two requests, one of which reads before the
other writes; the third request shows what is left to a later reader.  Each start is
a state that requests lead to, with `MaxRequests - sent` left to be served; which
requests are asked differs by start, since all of them together from an empty part
would exceed what can be explored.  Two threads make positions differ.

*Front end.*  The hazards are of two requests, or of a request and an edit, and the
acts allow a third one and a lost answer.  Two packs, users, schemes, drawings and
tables are enough to confuse one with another, three parts (two revisions of one)
for the page of a part, whose links may lead back before the first answer is there.
The BOM has a part that occurs twice, at different depths.  The list has three
parts and pages of one and two rows, so that a page may lie beyond the end.  Longer
sequences matter for patterns, fields, imports, packs, mentions and the list of parts, which have
4 or 5 acts.  Pages of which several uses are independent are checked use by use; the use is
fixed at the start (`uses`, `parts`), because all of them together exceed what can be
explored.  A tab has one page open; pages of different tabs meet in the server only,
where `OthersSave`, `OtherSaves`, `WithdrawField`, `ChangeRights` stand for them.

### Fairness

Numbering, reviews and the front end are checked for safety only.  A user need not
go on, and a request need not be answered; what must come to an end in the front end,
its busy states, is said of the states in which no request is out.  For numbering, `ScanAdvances`
and the bound `MaxSeq` are the argument that a request ends: every step of it moves
to a later stage of the same value or to a larger value.  Imports assume weak
fairness of each import's own steps (`WF_vars(Step(i))`): a worker that lives carries
its request on, and the death of a worker is a step of its own, `Crash`, to which no
fairness applies.  `JournalSettles` is checked for one import; imports do not wait for
each other.

`CHECK_DEADLOCK FALSE` is given everywhere: all requests and acts are bounded, and when
the last one is served nothing is left to do.

## 4. What the runs found

The violated properties quote what the program says about itself.

* `RefusalAllocatesNothing` - `numbering.py:552` says that reaching the ceiling of a
  scheme "allocates nothing at all"; the value is claimed for ever before the ceiling
  is looked at, so refused retries use up the series.
* `OnlyCreatedPartsRemoved` - `upload_pack.py:1908` says that a rollback removes only
  parts created by this run; it removes by pair, and an import that lost the race to
  create a part removes the winner's.
* `FillOnlySparesApproved` - `upload_pack.py:1011` says that fill-only never touches
  approved parts; whether a part is approved is decided on an old copy, and saving it
  takes an approval given meanwhile back.
* `UndoneKeepsNothing` - the uploader reads "Nothing was kept. The import was undone
  completely." (`views/upload_pack.py:135`) although a deliverable that had been moved
  aside when its replacement failed is gone.
* `NobodyIsOverwritten` - the help says that a reload is asked for "instead of
  overwriting their work"; an editor that writes into a thread takes over the version
  of a canvas it does not show, and its next save passes.
* `PendingCanBeClosed` - the help says that one can always resolve one's own review
  thread; a thread on the former content of a drawing is counted, and no request
  reaches it.
* `OnlyPreviewedIsApplied` - `UploadPackPage.tsx:634` says that applying a stale plan
  "is exactly the mistake the preview exists to prevent"; the card that confirms a
  destructive import stays open while another pack or policy is chosen, and its button
  imports that without a preview.

Some passing properties say what the code promises only under a condition, and
name the condition.  `CommentsLostOnlyByOverlap`: of two comments saved at the same
time one may be lost.  `PartFollowsReviews`: with overlapping requests the number of
pending reviews may stay wrong until the next one.  `MessagesStayInTheirThread`: a
message racing with the removal of a thread may land in another thread, or in an
entry without an id.  `CanvasReplacesWhatWasLoaded`: except where a version was used
twice.  `CommitDelivers` and `RollbackRestoresDatabase`: except for parts that another
import wrote meanwhile.  `RollbackRestoresDatabase` and `EffectsAuthorised`: except for
links found under the pair of a part the import created; its rollback deletes all links
of that pair (`upload_pack.py:1918`), whoever inserted them, and asks nobody who may
change BOMs.  `EffectsAuthorised` counts the removal of a created part as covered by the
right to create it.  Its last two conjuncts are about the tiers: who imports at all may
execute imports, an effect that takes something away from a draft, its approval status
included, was done with `imports.execute_approved`, and one on an approved part with
`imports.override_approved` as well.  `ImportPlan` leaves out two things of the approval:
its older attribute names, and packs whose columns contradict each other about it.

Proving the import corrected its model in four places, and a comparison with the code in a
fifth: approving a draft used to count as adding a value.  The decisions of a redline
(`PropertyAction`, `ApprovalAction`, `BomAction`, `FileAction`) were arms of a CASE that
overlap, among which TLA+ chooses freely and only TLC takes the first; they are
now the chain of early returns of the code.  A pack links parts it lists and
nothing else (`upload_pack.py:587-588`).  The links without a parent above were in no store
of the runs.  And the removal of a created part was
taken to be covered by any permission at all.

The front end's conditions are each a way in which the code does lose or confuse
something:

* `OnlyLateTokensSurvive`: a token whose owner was looked up before the sweep of a
  deactivation and stored after it stays valid (`api_tokens.py:121, 138`).
* `NoRowsMeansNoParts`: "Job parts only" keeps the place in the list
  (`PartsPage.tsx:400`), and turning the page while a fetch is out, or after an outage
  that left the old rows, trusts the count before it (`:451`); the list is then empty
  although parts match.  The outage was found with a fourth act.
* An outage has the message of a cancelled request, so `isCancelledRequest`
  (`lib/api.ts:41`) takes it for one: the rows of the former question stay without an
  error, although its comment says that a genuine outage still surfaces.  The
  conditions `failed` of `PartsTable` and `outage` of `BomView` are this.
* `TreeIsOfThePart`: "Expand all" puts its copy of the tree back when another part is
  shown (`PartDetailPage.tsx:1514`).
* `NotesStayWithTheirPart` and what a quiet page of a part shows: answers to saves,
  uploads and loads of files and links land on the part shown by then
  (`PartDetailPage.tsx:1178-1240, 2224`), and the next save carries it on.
* `OtherTablesKeepTheirColumns`: preferences sent before they were loaded replace
  those of all tables (`PartDetailPage.tsx:1881`).
* `UpdateHitsOpenedPiece`: moving or removing another piece leaves the editor of a
  pattern at its position (`AdminAddinPage.tsx:500-519`).
* `PackIsOfWhatIsOffered`: choices made for another part or depth are sent
  (`PartDetailPage.tsx:1310`).
* `PresetsNameFields`: a custom field may be given the identifier of a built-in one
  (`AdminFieldsPage.tsx:218-242`); the next keystroke renames both, and "Remove" takes both and
  the required default with them.  The page shows that until it saves, the server puts
  it back.
* `QuietPageIsIdle`: whoever goes back to the tree while the flat list loads leaves the
  flag of that load up (`PartDetailPage.tsx:1389-1413`); until the flat list is opened
  again, a part without children shows an empty BOM section (`:2163-2164`).
* `WorkIsKept`: marks drawn while a save is out are in no draft when the tab is left
  before its answer, and there is one draft for all drawings.  Two more conditions were
  found by its proof, beyond the three acts of the run.  "Reload" clicked twice in a
  conflict loads twice, the second time over what was drawn after the first
  (`DrawingMarkupWorkspace.tsx:444-463`).  And an answer about a review that a
  reload and a save overtake puts its older layer in the page, from which the editor
  starts when the tab is opened again (`:465-487`).  The proof also found the model wrong in
  one place: it let marks be hidden in an editor without a canvas, which `:338-340`
  does not.
* `QuietPageShowsTheStored`: suggestions that arrive after their menu was closed open
  it again (`MentionTextarea.tsx:57`).

## 5. Proofs

`NumberingProofs` proves, for any sets of workers, schemes, settings and starts and
any bounds, under `NumberingAssumption`:

| Theorem | Statement |
|---|---|
| `TypeCorrect` | `Spec => []TypeOK` |
| `LedgerCorrect` | `Spec => []IInv`, the inductive invariant |
| `NumbersUnique` | `Spec => []IssuedOnce` |
| `NoGaps` | `Spec => []GapsFilled` |
| `ImplementsRegister` | `Spec => RegisterSpec`, refinement of `NumberRegister` |
| `ScanMovesOn` | `Spec => ScanAdvances` |
| `LossesCounted` | `Spec => []FailureLosesAtMostOne` |

`NumberingAssumption` asks that the bounds are naturals, that settings are
well-formed and that the empty revision is a revision.  TLC evaluates it on the
runs.

*The argument.*  Neither `IssuedOnce` nor `GapsFilled` is inductive: both speak of
values that are held or answered, and a step may begin to hold a value only because
of what the scan saw before.  `IInv == Types /\ Ledger` adds what a scan knows.
`Types` is `TypeOK` with the type of an administrator's pending edit.  `Ledger` says,
for series whose scheme was not retired: what a worker saw claimed is claimed
(`SeenClaimed`); everything between the start and the current place of a scan is
claimed (`ScannedClaimed`); what is held is claimed (`HeldClaimed`) and held by one
worker (`HeldAlone`); what was answered is claimed with everything below it down to
its start (`AnsweredClaimed`) and was answered once (`AnsweredOnce`).  It is preserved
because claims of a live series are only ever added, and because a value becomes held
only when its claim is new, so that nobody holds it and nobody was answered it.
`DeleteCounters` removes claims but retires the scheme, which is why every part of the
ledger is about live series.  The refinement maps held, answered and lost values of
live series; each step of `Numbering` is then one step of the register or none, where
the case that needs the ledger is again `ClaimValue`: the value must be free.

The values lost are counted by cardinalities of finite sets.  What is lost is defined by
what is claimed, held, answered, found in use and retired, so that a step that touches any
of them may change it; `LossStep` says that a step leaves nothing lost that was not lost
before, or one value more and one failure more.  The second happens where a worker lets go
of what it holds without an answer, or claims and ends at once.  It needs that whoever
holds a value is no preview, whose failures are not counted (`LossBound`).

### Import

`ImportProofs` proves, under `PlanAssumption` and `ImportAssumption`, for any numbers of
imports and mishaps and any pairs, values, requests and stores:

| Theorem | Statement |
|---|---|
| `ImportInvariant` | `SafetySpec => []IInv` |
| `ImportTyped` | `SafetySpec => []TypeOK` |
| `ImportJournal` | `SafetySpec => []JournalBounds` |
| `ImportPromises` | `SafetySpec => []Promises`, the second inductive invariant |
| `ImportApproved` | `SafetySpec => []ApprovedProtected` |
| `ImportAuthorised` | `SafetySpec => []EffectsAuthorised` |
| `ImportDelivers` | `SafetySpec => []CommitDelivers` |
| `ImportRestores` | `SafetySpec => []RollbackRestoresDatabase` |

The assumptions ask that imports and pairs are finitely many, that packs, policies and
stores have their types, and that `Absent` is neither a number nor a document, a journal
entry or a store.  TLC
evaluates them on the runs.

*The argument.*  `JournalBounds` compares what was done with what was noted, and is not
inductive: the note that ends the first stage lists the parts that were changed, and the
writes that come later go to parts the plan chose much earlier.  `IInv` closes the gap
with four invariants of each import.  `LoopOK`: while parts are saved, those already changed and
those left are exactly the parts the plan saves, so at the end of the loop the
changed parts are all of these; every later loop visits BOM parents,
file targets or created parts.  `PlanSaves`: BOM parents and file targets are among
the parts to save, because a part with a BOM or file to write counts as changed.
`JournalOK`: the journal is at the stage of the import, is absent before the first write,
and from the second stage on names the parts to save and the created ones.
`Covered`: during the first stage everything done is among the changed
parts.  Each write to a store shows in the history at one pair and in kinds of that store
(`EffectOnPart`, `EffectOnLinks`, `EffectOnDisk`, `EffectOnRecords`), so one import cannot
spoil what is known of another, and a mishap leads to a place for which
nothing more is asked.  That a loop has a first pair, and the list of placed files a
last, is `FirstIn` and `LastIn`, from the well-foundedness of the naturals.

The other four properties are about the end of an import, or about all it did, and
none of them is inductive: what is written late was decided when the plan was made, and
may only be compared with the plan if nobody else wrote there.  `Promises` says, for
every pair of the pack that no other import wrote since this one looked (`Own`), what
parts, links, file and record are at each place of the run.

* `RunOK`: the plan is of what was read and was not refused; the journal's follow-up is
  what a rollback could not remove, or the existing parts that were changed.
* `Untouched`: a part not saved so far, and its BOM, are as they were read.
* `PartOK`: from its save on, a part has the planned fields, until a failure.
* `BomOK`: a BOM that is rewritten is emptied, then has exactly the links that were
  inserted, and in the end those of the pack.
* `FileOK`: a deliverable is stored from its placing on, and recorded at the end.
* `UndoneOK`: a created part the rollback has dealt with is gone, with its links, unless
  it is on the list of those it could not remove.
* `Planned`: every effect on the pair is one the plan has for it, or of the rollback.

That one import cannot spoil the promises of another is one lemma (`OthersKeep`): a write
to a pair shows in `raced` of every import that has begun to read, so the pair stops
being its own.  An import that has not begun has no promises, and
whatever it reads later is what is there.  `ApprovedProtected` and `EffectsAuthorised`
then follow from the plan alone: `Planned` says what the plan has, and two
lemmas about the redline what that means for an approved part (`ApprovedPlan`), and which
permissions and tiers are asked for it (`AskedFor`, with `DraftPlan` for what a draft has).  `CommitDelivers` is `PartOK`, `BomOK` and `FileOK` at the
last place; that no BOM names a missing part holds because a pack that links a child lists it,
and what it lists is there or is saved.  `RollbackRestoresDatabase` is `UndoneOK` and
`Untouched`, with the follow-up saying that nothing but created parts was changed.

### Reviews

`ReviewsProofs` proves, for any users, contents of the drawing, objects, starts and
number of requests:

| Theorem | Statement |
|---|---|
| `ReviewsTyped` | `Spec => []TypeOK` |
| `NotesStayApart` | `Spec => NotesApartFromComments` |
| `CommentsAreKept` | `Spec => CommentsLostOnlyByOverlap` |
| `NotesAreReturned` | `Spec => ReplacedNotesAreReturned` |
| `MessagesStay` | `Spec => []MessagesStayInTheirThread` |
| `CanvasReplacesItsOwn` | `Spec => CanvasReplacesWhatWasLoaded` |
| `PartShowsReviews` | `Spec => []PartFollowsReviews` |

They assume `ReviewAssumption`, that `Absent` is none of the documents
(`AbsentAssumption`), and that the documents a run starts with were made by as many
requests as it says: numbered at most that far, with ids of their own, and counted on the
part (`StartsAssumption`).  TLC evaluates all three on the runs.

*The argument.*  All need `Typed`, that documents, requests on their way and
editors are well formed (`SpecTyped`); it is `TypeOK` without the bounds, which say
how far counts and versions may go.  `NotesStayApart` and `CommentsAreKept` are then about single
saves: a save writes only the fields its request has changed (`AnnotationKept`), and who
saves a document that is still the one it has read knows all its comments
(`WithoutOK` says what is left of a list).  The others compare what a request remembers
with what is stored by the time it writes, so their invariants follow a request through
its phases:

* `LoadedNotes`.  No stamp is given twice, so an editor whose stamp is not behind
  that of the annotation was loaded with its notes.
* `PositionsOK`.  Ids are numbers of requests; while no thread has left its
  layer, lists only grow at their end, and what a request has read is a prefix of what
  is stored (`Matches`).  So a write by position hits the thread of its id.
* `CanvasKnown`.  While no version was used twice, a version an editor or an
  answer on its way has is not ahead of the layer, and if it is the layer's, so is
  the canvas beside it (`Precedes`).  It is kept because a layer that
  changes its canvas takes a higher version (`Succeeds`).
* `Following`.  While requests do not overlap there is one at most, and for each of its
  phases it is known which of the documents are ahead of the part: the texts
  until the part is saved, the number of pending reviews until it is stored
  (`InStep`).  That an invalid entry never makes a layer unreadable then follows,
  since entries become so by overlapping writes only.
* `Bounded`, for the bounds of `TypeOK`.  Ids do not count what overlapping writes leave: an
  entry made by position has none, a list that was read is written back over a shorter
  one, and a removed comment makes room for another at its position.  So positions are
  counted instead: those of every list that is stored, that a request has read and may
  still write, or whose open entries it has counted (`Places`), and likewise the versions
  up to those stored or read (`Versions`).  A save adds one of each at most, and only a
  request that had saved nothing before saves (`Saves`, `GoesOn`), so neither are ever more
  than the requests that may have saved something (`Spent`).  The comments a request has
  counted and the threads open by the time it counts them are among the places, and
  differ, so their sum is a number of requests too, whatever was saved in between (`OpenPaid`).

### Pages of the browser

`SettingsProofs`, `PartProofs`, `MarkupProofs` and, for seven pages, `PagesProofs` prove
about one page at a time (`TokensSpec`, `TableSpec` and so on): `FrontEnd!Spec`, started
on that page, takes only steps of that page or `Lose`, since every action of a page asks
which page is open.  The proofs bound nothing: tokens, packs, rights, schemes, patterns,
parts, trees, columns, marks, requests on their way and acts are arbitrary.  Six pages have
assumptions, which TLC evaluates on the runs: the list of parts that the catalogue is a
list of parts and a page has rows (`TableAssumption`), the BOM that assemblies are
finitely many and made of assemblies (`BomAssumption`), the columns that the required
ones are listed once (`ColumnsAssumption`), the text field that no value is not something
typed (`MentionAssumption`), the editor that no value, a failure and the answer 409 are no
layers (`MarkupAssumption`), the page of a part that a part is its number and revision, and
that no value is neither a comment, nor a list of them, nor a failure
(`PartAssumption`).  One theorem, `QuietColumnsShowTheStored`, has a hypothesis
that TLC cannot evaluate, since `Absent` is a model value there: that it is not itself a
configuration.  What becomes of the requests when some are
sent, served, answered and taken is proved in `BrowserProofs`, once for the pages; so is
what is left of a list when some places of it are picked (`PickedIs`, `FirstOnesAre`).

| Theorem | Statement |
|---|---|
| `TokensInvariant` | `TokensSpec => []TokensInv` |
| `RotationCorrect` | `TokensSpec => []RotationHandsOver` |
| `DeactivationCorrect` | `TokensSpec => []OnlyLateTokensSurvive` |
| `UploadInvariant` | `UploadSpec => []UploadInv` |
| `PlanMatchesSelection` | `UploadSpec => []PlanIsOfTheSelection` |
| `PlanMatchesStore` | `UploadSpec => []AppliedPlanIsSpent` |
| `TableInvariant` | `TableSpec => []TableInv` |
| `RowsAnswer` | `TableSpec => []RowsAnswerTheQuestion` |
| `EmptyMeansNone` | `TableSpec => []NoRowsMeansNoParts` |
| `BomInvariant` | `BomSpec => []BomInv` |
| `TreeOfThePart` | `BomSpec => []TreeIsOfThePart` |
| `BranchesHang` | `BomSpec => []BranchesBelongToNodes` |
| `PackInvariant` | `PackSpec => []PackInv` |
| `PackOfTheOffered` | `PackSpec => []PackIsOfWhatIsOffered` |
| `FieldsInvariant` | `FieldsSpec => []FieldsInv` |
| `PresetsAreNamed` | `FieldsSpec => []PresetsNameFields` |
| `ColumnsInvariant` | `ColumnsSpec => []ColumnsInv` |
| `ColumnsAreAllowed` | `ColumnsSpec => []ShownColumnsAllowed` |
| `ChoicesAreKept` | `ColumnsSpec => []OtherTablesKeepTheirColumns` |
| `MentionInvariant` | `MentionSpec => []MentionInv` |
| `QuietPagesShowTheStored` | `[]QuietPageShowsTheStored`, of the list of parts, fields and mentions |
| `QuietColumnsShowTheStored` | `ColumnsSpec => []QuietPageShowsTheStored` |
| `QuietPagesAreIdle` | `[]QuietPageIsIdle`, of imports, list of parts, BOM, packs and fields |
| `AddinInvariant` | `AddinSpec => []AddinInv` |
| `AddinTokensBelong` | `AddinSpec => []TokensBelongToUser` |
| `AddinOneAuto` | `AddinSpec => []OneAutoCounter` |
| `AddinUpdate` | `AddinSpec => []UpdateHitsOpenedPiece` |
| `AddinExample` | `AddinSpec => []ExampleIsOfPattern` |
| `PageOfNumbersIsIdle` | `AddinSpec => []QuietPageIsIdle` |
| `QuietSettingsShowTheStored` | `[]QuietPageShowsTheStored`, of the tokens and the page for part numbers |
| `MarkupInvariant` | `MarkupSpec => []MarkupInv` |
| `WorkStays` | `MarkupSpec => []WorkIsKept` |
| `SavedWorkIsStored` | `MarkupSpec => []SavedMarkupsAreStored` |
| `QuietEditorIsIdle` | `MarkupSpec => []QuietPageIsIdle` |
| `QuietEditorShowsTheStored` | `MarkupSpec => []QuietPageShowsTheStored` |
| `PartInvariant` | `PartSpec => []IInv` |
| `PartIsRequested` | `PartSpec => []ShownPartIsTheRequested` |
| `PartNotesStay` | `PartSpec => []NotesStayWithTheirPart` |
| `QuietPart` | `PartSpec => [](QuietPageIsIdle /\ QuietPageShowsTheStored)` |

*Tokens.*  `RotationHandsOver` is about tokens, but a rotation is in three operations,
and what it will do next is in the memory of its handler.  `RequestsOK` says what a
request on its way knows: the token it names is stored; the one it has inserted was
made for it; the owner was found active before the last sweep, unless the account is
still in use or about to be swept.  `Rotated` adds to `RotationHandsOver` that what was
replaced is a token at all.  `Survivors` is `OnlyLateTokensSurvive`.  A step either
leaves the tokens or only ends some, adds one, or counts a sweep (`Grown`), which keeps what
the other requests know.  The case that needs it is `ReplaceToken`: its condition is
that the old token is not ended, so nobody has replaced it, and ending it excludes
everybody after.

*Imports.*  A plan carries what it was computed from.  `PlansAreTrue` says that of the
plan on screen and of every answer on its way; it holds while the selection changes
because the page remembers what it sent, not what is selected
when the answer comes.  `PlansAreNew` says that without a doubt one request is
out at most, and that a plan is of what is stored until that request is an import;
the plan of a preview goes with the answer of an import.

*List of parts.*  Every change of the question cancels the fetches that are out and sends
one, so a fetch that was not cancelled asks what the page asks (`FetchOK`); its answer is
therefore the one to the present question, in whatever order answers come.  That
an empty list means no parts needs one thing more: the place in the list is within the
count shown, which is that of the question unless a failure kept an older one (`ahead`).
How many rows a page then has is `RowsOfPage`.

*BOM.*  A load that was not cancelled is of the part in the address, and cancelling goes
with rendering, as on the page of a part.  A branch is put below the row it was asked for, whose
key ends with its part (`RowOK`), so its rows hang where they belong (`Hangs`) in
any tree that still has the row, and in none that has not.  "Expand all" works on a copy; the
invariant says that every copy on its way is a tree, and of the part it names.  What
stays below the roots of a part when branches are added, replaced or merged is a fact about
prefixes of keys.

*Document packs.*  Options on their way are of the part and depth they were asked for, and
those that were not cancelled of the ones shown; `kept` remembers when a choice outlives
its part or depth, and only then is what was chosen not among what is offered.

*Field configuration.*  `PresetsNameFields` speaks of the page and the server; its
invariant says of every configuration on its way that the presets name its fields
(`PresetsOK`).  Renaming keeps that because all entries of the old identifier change with
the presets, and removing because all of them go.  What is stored or answered has
in addition the built-in field under its identifier, which no custom field has, and the
required fields in its presets (`ConfigOK`); the page has that too until a custom
field takes the built-in identifier (`taken`), and again with the next answer.

*Columns.*  Preferences shown, sent, stored and answered are lists, and the configuration has the
required columns; what is shown is then a matter of the operators: picking
keeps what is allowed, the first of equals is kept, and the required ones that are missing
are put before (`WithRequiredIs`).  That a choice for one table leaves the others
needs a second invariant (`KeptInv`): for a table not chosen for, what was loaded and is
still allowed stays in the preferences shown, sent, stored and answered.  It survives
sanitizing because that drops only what is not allowed (`Keeps`), and it is lost when
something is sent before the preferences were loaded (`blind`).

*Text field with mentions.*  Suggestions may come when the menu was closed, or stay when
the text was sent (`late`).  Until then an open menu has its place in the text known, and
while that is known only what is typed is asked for (`MenuIsDue`, `AsksTheTyped`).

*Quiet pages.*  Without a doubt there is one request at most, and its answer, when it
has one, is what is stored (`FieldsShownInv`, `ColumnsShownInv`); taking it empties the
list of requests (`Alone`), which is when the page has to agree with the store.  The
pages of the settings may have many requests out.  There the page, and every list that is
answered, agrees with the store unless a change is out or the list is being read
(`ListOK`, `SwitchesOK`); a change that is answered sends the list before it is gone.

*Being busy.*  Each of these invariants also says what the page waits for: as long as it
is loading, saving or building, the request that ends it is out and was not cancelled
(`BusyIsOut`, `FetchIsOut`, `Awaited`, `BuildIsOut`).  For the flat list that holds while it is
the list shown; a flag that is up beside the tree is one that was left (`BomPageOK`).

*Part numbers and tokens of a user.*  `OneAutoCounter` rests on a lemma about the
operator: `Normal` says that normalising a pattern of any length keeps its pieces and leaves one automatic
counter if it has counters, the least of those that were (`LeastNumber` finds it).  A
scheme is created long after its pattern was sent, so the invariant says the same of every
creation on its way.  `UpdateHitsOpenedPiece` is inductive with the range of the editor's
position: a piece that is moved takes the editor along, and one that crosses it is
what `strayed` remembers.  `ExampleIsOfPattern` and `TokensBelongToUser` need what the
answers on their way carry (`ExampleOK`, `AddinRequestOK`): without a doubt every check on its
way is of the pattern on screen.

*The page of a part.*  That the part on screen is the one in the address is not
inductive, nor is it a matter of the last answer alone: the invariant says that a load
that was not cancelled is of the part in the address.  It is kept because whatever changes
the address renders the page (`Rendered`), and rendering cancels every load that is out
before it sends its own (`LoadsCanceled`, `Effects`).  For the notes the invariant follows a
text everywhere it may be, in the editor, in a save, stored, and in the answer of a load,
and says that without a doubt it was typed for the part it is beside there.

What a quiet page shows needs a second invariant (`QuietInv`).  `Waits` relates flags and
requests: the page loads exactly as long as a load is out that was not cancelled, a
comment is saved exactly as long as its request is out, neither twice, and the other
flags are up only with a request of theirs.  `CommentsOK` follows the comments without a
doubt: those on screen are those stored, up to the change that is out, whose answer
makes up the difference (`Afterwards`), and a load that counts brings the stored ones.
It is kept because the page asks for one change at a time and a load that meets one is
a doubt.  Files and share links are read again after every change, so a list is right, or it
is being read, or a change is out (`FilesOK`, `SharesOK`); of an answer on its way the same is
said for the part it was asked for, and rendering asks again for whatever is no longer of the
selected part (`RenderedLists`).

*The markup editor.*  `WorkIsKept` follows a mark from the canvas to a save, the store or
the draft and back, through editors that are mounted anew.  `WorkSafe` adds to it what
the page knows while nothing named in the statement has happened: an editor with a canvas has its
layer, of the drawing it is mounted for; one that says "Saved" has nothing to keep; and
a draft is of the drawing it names.  Which answers an editor takes is decided by the mount they
were asked from, so requests are followed too (`OfMount`): what is out for the present mount
is of the drawing on screen, there is one save at most, and it holds the marks of the
canvas (`CallSafe`).  That "Saved" is true needs the store: while nobody else saves, a
layer that is shown or will be has the stored canvas, except while the answer to a
save is due (`UpToDate`), which the quiet editor of `SavedMarkupsAreStored` has not.

*Only model-checked.*  `JournalSettles` is liveness under fairness, which, with `ENABLED`, the proof system
does not treat.  No proof by induction over data is attempted, since the library's
induction theorems take an operator as a parameter, and no module with a theorem
reaches a RECURSIVE operator.  Every other property of the passing runs is stated by a theorem
above.

## 6. Not modelled, and the plan

*Known and not covered.*  These are places where the order of things matters and no
module looks yet.

* `upload_pack.py:1728`: links have no unique index, so two imports that both deleted a
  parent's links leave every row twice.
* `upload_pack.py:1177`: whether a deliverable exists is asked of its record, so that a
  stored file that was never scanned is overwritten under add-missing.
* `upload_pack.py:766`: cycles are refused within one pack; two packs can make one.
* `session_lifecycle.py:41`: a session version is replaced by compare-and-set in five
  attempts.
* `biz_utils.py:88`: the next job or order number is read before the insert, in the
  order of strings.
* `api_jobs.py:724`: completing the last stage completes the job beside the status flow.
* `parts_delete.py:155`: a deletion that fails midway leaves some of what refers to it.
* `notifications.py:269`: two items at a time leave two current ones of a conversation.
* `purge.py:84`: purging one kind of reviews clears counters that the other kind needs.
* `export_artifacts.py:88`: a worker that dies between data and metadata leaves a file.
* `container_bootstrap.py:96`: two first starts both count no users.

*Not modelled.*  Viewers of models and drawings, the dashboard, thumbnails, formatting
and the normalisation of approvals and processing tokens in the front end have no
state that outlives a rendering, or transform texts; the bundles under
`src/app/static` are generated from the front end.  Authorisation, attributes and
field policies are decision or transformation functions; the parts of them that a
handler's control depends on are in its module.  Limits, settings, audit and
metrics read and append.  The SolidWorks add-in is a client of the interfaces
modelled here; the deployment scripts run outside the program.

*Plan.*  Done: numbering, the import and the reviews with their proofs; the front end with
the tokens and the proofs of its eleven pages.  In this order come

1. `Sessions`: session versions and impersonation beside the tokens.  The
   compare-and-set never repeats a version.
2. `Orders`: number generation and status flow.  A number names one order; a status
   changes along the flow; a completed job has its quantity.
3. `PartDelete`: the deletable subtree as a greatest fixpoint against its definition
   over all BOMs of up to four parts; the deletion step by step against imports.
4. Revisions in `Numbering`: which revision is the latest, and two requests that
   revise the same part.
5. Notifications, the scope of shares and the flags of parts.
