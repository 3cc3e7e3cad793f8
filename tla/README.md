# Models of the Digital Media Center

TLA+ models of DMC, a Rails application (with a Backbone client) in which
accounts keep media assets in folders of galleries and share them with
sub-users and visitors. The models are about what unit tests of this code hardly
reach: requests, Sidekiq workers, daily schedules, the encoding service and
browser callbacks that run in between each other's reads and writes, and what is
left when one of them fails.

Paths are relative to the repository. Every definition that stands for code is
listed in PROJECT.json under `map` with its lines.

## 1. Inventory

| Component | State | Operations | Interacts with |
| --- | --- | --- | --- |
| Asset life cycle (`app/models/asset.rb`, `resources/assets`, `support/workers`, `support/schedules`, `services/video_handler.rb`) | row with `processed`, `folder_id`, `created_at`, `deleted_at`; files on S3; Redis queues; HeyWatch jobs | create, upload, update_multiple, delete, admin destroy and restore, process, ping, daily purge | upload dialog, positions |
| Positions of assets (`resources/assets/my_resource.rb`) | `position`, `folder_id`, the folder's `assets_sort_order` | update_multiple, update, reorder, sort | sorting dialog, asset form |
| Manual sorting dialog (`backbone/views/backend/modals/sort_assets`) | one-place queue, `busy`, `pending`, timers | drag, timer, answer, close | positions |
| Upload dialog (`backbone/views/backend/folder/uploader`) | `@assets` with `uploaded` and `stored`, the button | add, completed, Save Files, delete, answers | asset life cycle |
| Roles and permissions (`services/permissions_assigner.rb`, `resources/sub_users`) | `account_users`, `user_roles`, `users_permissions` | create, invite, update, remove; sections that bring and take permissions | galleries, folders |
| Galleries (`resources/galleries`, `models/galleries.js.coffee`) | `show_first`, `featured`, the protections, the list in the browser | create, update, toggle_first, delete, admin restore, answers | library |
| Library and trash (`models/gallery.rb`, `folder.rb`, `resources/folders`, `admin/`) | `deleted_at` and `gallery_id` of galleries and folders, permissions of folders | create, upload without a folder, move, delete with cascade, restore, purge | assets, permissions |
| Folder router (`backbone/routes`, `views/shared/asset`) | address, `pending`, `@folder_id`, the collection with its fetches, the list that is drawn, the open dialog | routes, search, pages, sort, page size, dialogs, answers | assets, folders |
| Invitations (`services/gallery_inviter.rb`, `invitation_recover.rb`) | invitation requests, gallery members | invite, register | registration, mail |
| API tokens (`resources/api/user_tokens`, `controllers/api`) | active token, `times_used` | create, authenticate | API |
| Admin passwords (`models/admin_user.rb`) | history of three, expiry | change | |
| Registration, sign-in, authorizers, events, reports, announcements, blog, mail, views, deployment, vendored code | see PROJECT.json `components` | | |

What is hard, and where:

* **Transcoding** takes minutes between a worker's check and its write; jobs are
  duplicated, retried and lost; HeyWatch pings come late, twice or for a row in
  the trash; the daily cleanup loads rows and destroys them one by one.
* **Positions** are read, computed from and written in separate statements, and
  forms post back what a page showed minutes ago.
* **The dialogs** are event loops: timers, drags, uploads and answers come in
  every order, and each keeps flags that claim something about the server.
* **PermissionsAssigner** reads what other accounts gave, then replaces the whole
  list, for a user that several accounts administer at one time.
* **Flags that must be unique** (`show_first`, `featured`) are cleared for all and
  set for one in separate statements, by users who see different galleries.
* **Deletions with a cascade** load the folders of a gallery before they take them
  along, while others create, move and restore folders.
* **The folder page** has one collection that folders, pages, searches and sorts fill
  in turn; answers overtake each other, and a flag keeps most, not all, of them apart.
* The rest of the list, with lines, is PROJECT.json `hazards`. Six have no
  property, each with the reason in its note; the notes of the others say how far
  the properties reach, and which overlaps they name as exceptions because the code
  does not survive them.

What makes each component correct, in one line: an asset is shown only when it
can be played and is kept as long as promised; a folder has one order, the one
last asked for; a closed dialog has lost nothing; nobody holds what no account
gave; one gallery at most is first, and an open one; a folder that is not in the
trash is where its users find it; a pending page is waiting for something, and
the list shows what the address says.

## 2. Modules

| Module | About | Proofs |
| --- | --- | --- |
| `AssetLifecycle` | an asset's row, files, jobs, encoding and the daily schedules | `AssetLifecycle_proofs` |
| `AssetOrder` | positions of the assets of folders under overlapping requests | `AssetOrder_proofs` |
| `SortQueue` | the manual sorting dialog | `SortQueue_proofs` |
| `LatestOrder` | abstract: choices are numbered, the server holds one, never goes back, ends with the last | |
| `Uploader` | the upload dialog and its update_multiple requests | `Uploader_proofs` |
| `Grants` | roles and permissions of sub-users of several accounts | `Grants_proofs` |
| `Galleries` | which gallery is first and which featured, statement by statement | `Galleries_proofs` |
| `Library` | galleries and folders: cascade, trash, restores, moves, default folders, permissions | `Library_proofs` |
| `FolderRouter` | the page of a gallery: address, fetches, list, dialogs | `FolderRouter_proofs` |
| `MC...` | the small instances, with symmetry sets and constant values | |

`SortQueue` implements `LatestOrder` by the mapping `wanted <- drags`. The
components meet at a few requests, and each module models its own side of them:
update_multiple is `Store` in `AssetLifecycle` (a job is queued), `Store`,
`Write` in `AssetOrder` (a position is computed), `UpdateMultiple` in `Uploader`
(all assets of one request, answer included); reorder is `Reorder`, `ReadOffset`,
`Write` in `AssetOrder` and `Reorder` in `SortQueue`; the deletion of a gallery is
`DeleteGallery`, `CommitDelete` in `Library` (its folders), `Delete` in `Galleries`
(its flags) and the end of a section in `Grants`; the router's `RemoveFolder` is
`DeleteFolder` in `Library`.

Operators described as *broken* stand next to the definitions they spoil. They
are what the properties are tried against: with the broken operator in place of
the definition after it, the property named in PROJECT.json `mutants` fails.

## 3. From state to code

### AssetLifecycle

`row` is the row as paranoia sees it: live, trashed (`deleted_at` set), gone.
`shelf` is `folder_id`, with "stored" for an asset that update_multiple has
placed. `queue[a]` counts the jobs of `a` in Redis, retries included; `thread[t]`
is what a Sidekiq thread has read and not yet written: "reprocess" is the time
between the early return of `perform` and the end of `file.reprocess!`, "flag"
the time until `update_column(:processed, true)`, "clear" the time between the two
`asset.first` of AssetClearance. `answering` holds the rows that a HeyWatch ping
has loaded; `liveBatch` and `trashedBatch` the rows that
`ClearUnprocessedAssets` has loaded, apart because paranoia's `destroy` of a row
that was loaded as deleted removes it. `lost` remembers assets one of whose jobs
or answers a fault has swallowed; it guards nothing and only says about which
assets a property may be silent.

Time is counted in days: both schedules run at noon and both conditions are in
days, so only the number of noons since `created_at` and `deleted_at` matters.
Ages stop at `RetentionDays + 1`. The retention period runs from `deleted_at`
(`clear_deleted_entities.rb:8`), so `RetentionKept` measures `trashedFor`. The code breaks it
in one case: AssetClearance looks only whether its row is deleted, so a row that is
restored and deleted again while its job waits is removed early. `renewed` holds these
rows, and no others; it is history, and the property is silent about them.

### AssetOrder

`job[r]` is a page with its
request: "form" and "dialog" hold what the page shows,
"offset" what reorder has loaded before it reads the smallest position, "write"
what a request has computed and, as `save`, the rows that ActiveRecord will write
because the value differs from the one that was loaded; `list` keeps the numbers
that the dialog gave, for the property about its order. Rows are created without
validation, and `reorder` ignores what `save` returns (`my_resource.rb:157`), so a row with a
title that is too long is not written: `refused` holds the rows that this happens to, any
subset, and `ReorderIsHonoured` compares the others. All actions but `Write`
only read. `intact` holds the pages since whose opening no row was written and
`loose` the assets whose position no undisturbed request computed, refused rows among
them; both are history, no action's guard reads them. The action properties speak of intact
requests, but these start from whatever positions earlier overlaps have left: they say
that the next undisturbed request repairs the folder, not that overlaps do no harm.

### SortQueue

`next`, `busy`, `pending` are the fields of `queues.sorting`; `fresh` and `retries`
count the 1 ms and 100 ms timers; `wire` and `answers` are PUT reorder requests
before and after the server. A list is named by the number of its drag.

### Uploader

`stored` and `upload` are attributes of the Backbone models in `@assets`;
`attrs` abstracts the form's fields to two groups, because `asset.changed`, from
which Save Files derives `stored`, tells only of the last field set. A call
carries the files it names and who waits for its answer: a file (its own
`fileuploadcompleted`) or a click on Save Files. `batch` is the plugin's group of
uploads, whose end shows the button. `assumed` is history: files whose mark does
not stem from an answered request that named them.

The mark that Save Files sets from `asset.changed` can be wrong in both
directions, and that is in the model: a file whose last field happens to be
unchanged is marked stored. The files
that it may have marked wrongly are `assumed`, and both properties exempt them: such a
file can stay unplaced for good. What they say of all others holds in spite of it. When
nothing is left to store, `storeAssetsOnServer` returns `true`, `.success` of that
is a TypeError and the dialog stays open with its button disabled (the disjunct
`files = {}` of `Save`).

### Grants

`member` and `primary` are rows of account_users, `granted` rows of both join
tables. `job[r]` goes through the statements of PermissionsAssigner for roles and
then for permissions: "read" (before the ids are read), "compare" (before
`role_ids=` finds the items again and compares), "write". `update` saves the
roles before it reads the permissions; `destroy` writes both at the end of its
transaction.

A section (a gallery or a folder) is created in steps of its own: `CreateSection` saves
it with its items and gives them to its creator, `ReadPrimary` loads the account's
primary users, `Share` inserts their rows one by one, and `StopSharing` is the end of the
request, finished or not. `unshared` and `offered` are what is still to do. A user who is
removed from the account in between (`permission_resource.rb:25`) gets the permissions
afterwards and keeps them: the code does not look again. `overlapped` is set for a user who
is removed with such an offer under way, or whose requests overlap otherwise, and
`NoGrantsOutside` exempts exactly these. `intact` and `overlapped` are history.

### Galleries

`first`, `featured` and `protected` are columns, of rows in the trash as well:
`update_column` and `save` write a row that was loaded before it was deleted.
`req[r]` is a request between two statements. A toggle goes from the check of
`toggle_first` to "unset" (`update_column(:show_first, false)`), or to "clear"
(`resource_scope.update_all`) and "set", and then to "answer" until the browser
draws it; it is refused for a protected gallery. An update reads the row, clears
the other featured galleries in `build_resource` and saves, or is refused, when
they are cleared already. `scope` is what the user may read, chosen anew in each
request, since a sub-user sees some galleries only. `form` holds what differs from
the row as it was read, because ActiveRecord writes only that. The dialog of the
list posts the protection and the page of settings the featured flag; the dialog
in which a gallery is created posts no featured flag. `shown` is the list in one
browser: `Galleries#toggleFirst` draws in `.always`, so a failure, whose data is
the request, shows no gallery as first.

`alone`, `calm`, `current`, `twoFirst`, `twoFeatured` and `loose` are history. They
say exactly which overlaps the code does not survive: another gallery became
first between this request's clear and its set; one could not see the other's
gallery; the trash brought one back; a toggle and an update of one gallery were
open at one time. Without these, uniqueness holds, and after the next
undisturbed toggle it holds again (`twoFirst' = ~alone`); a gallery is `loose` until a
request clears its flag (`StillLoose`).

### Library

`live` and `trash` hold galleries and folders. `default` are the folders that an
upload has created, `granted` those with rows in permissions. `req[r]` is a request
between its reads and its writes: "create" after the gallery was found, "grant"
between the insert of a folder and its `create_permissions`, "upload" after
`first_or_create` has found nothing, "move" after the form's gallery was looked up (a
gallery that was deleted since is nil, and the folder is saved without one), "delete"
after `dependent: :destroy` has loaded the folders and before the transaction commits.
Two deletions of the same folder differ: the folder's own dialog calls `delete`, which
runs no callbacks and keeps the permissions; the cascade and the admin call `destroy`,
which takes them. An admin's restore brings back one row and nothing of what it had.
Folders find their account through their gallery, so a gallery in the trash hides
them.

`stray`, `crowded`, `destroyed` and `half` are history: folders in sight that came
into a gallery in the trash or on its way there, galleries in which two default
folders may meet, folders that a destroy has stripped, folders whose permissions were
never, or not wholly, created. A gallery is no longer crowded as soon as an upload
finds no folder in it and no other upload into it is between its two statements.

### FolderRouter

A step is one turn of the browser's event loop, with all handlers that it runs:
a route, the end of a dialog, an answer, a click in a menu. `fragment` is the address,
of which the model tells folders, searches and the rest apart; `active` is
`@folder_id`, `pending` is `@pending`. `assets` is what the one collection asks for
(folder, query, page), `live` its fetches that are out, `dropped` the number of
those of earlier collections that a search has replaced, whose answers still end a
wait. `ends` tells whether the answer calls `onFetchFinish`. `shown` is the answer that
was drawn last, `pager` whose pages its links change, `selector` and `sorting` the menu
of orders, which is dead after the results of a search were cleaned up
(`shared/folder.js.coffee:83`). `mixed`, `unsure`, `lost`, `stray` are history.

The address can name a folder that the list does not show, and `stray` tells when: a
link that `showFolder` ignores, a folder that is gone, a page size that is changed over the
results of a search (which makes the address `!folders/0`, one of `Route`), and a dialog that is
closed over such results: `navigate('!folders/<id>')` without a trigger
(`routes/backend/folder.js.coffee:27`) writes the address of the active folder, while the
list still has the results, and the link of that folder does nothing. Until a folder
or a search is shown again, `AddressNamesFolder` is silent; in every other state a folder in the address is the
active one and the one that the list asks for. A link that is ignored over a search clears
the query all the same (`ClearQuery`), which makes the list `unsure`.

`showFolder` sets `pending` before it looks the folder up: a folder that has left
the collection leaves the router waiting (`ShowFolderFails`, `StartAtGone`), and
`AnswerBreaks` is the answer with an asset of a removed folder, whose item cannot be
drawn. The page of the backend is modelled. Links to page 1 count as links
without a page; a dialog that does not close the one before it is opened only
when none is open; all dialogs about assets are one kind, and the uploader's
behaves as the folder manager's.

## 4. Runs

| Run | Instance | Shows |
| --- | --- | --- |
| `lifecycle` | 1 asset of any kind, 2 threads, 2 jobs, 1 fault, 1 day's retention | types, flag, pending work, fresh assets spared, retention since the deletion; liveness |
| `lifecycle_listing` | 1 asset, no fault | violation, see section 6 |
| `sort_queue` | 6 drags, up to 2 failures allowed | flags, a failure is final, refinement of LatestOrder with its liveness |
| `sort_queue_failure` | 2 drags, 1 failure | violation |
| `asset_order` | 2 assets, 2 folders, 2 pages, positions up to 3, rows refused | types, distinct positions across folders, an upload comes first, the dialog's order |
| `asset_order_sort` | 2 assets, 1 folder, 2 pages, 2 sort orders | the order asked for, whichever it was before |
| `grants` | 2 accounts, 1 shared user, 2 requests (the creation of a section counts as one), a role, a permission, a gallery | membership and grants, exact updates |
| `grants_others` | same | violation |
| `uploader` | 2 files, 2 clicks, 1 failure | marks and uploads |
| `galleries` | 2 galleries, 2 requests, every scope and form | one first, one featured, first is open, the list |
| `library` | 2 galleries, 2 folders, 2 requests | where folders are, default folders, permissions |
| `folder_router` | 2 folders, a search, 2 pages, 2 fetches out at a time, 1 sort | fetches, list, `pending`, address |

**Why the bounds are enough.** No action of `AssetLifecycle` touches two assets but
the schedules, which treat each row by itself, so one asset with every kind, two
threads that may hold two jobs of it, and a fault (a lost job, a crash, a failed
encoding) meet every pair of actors that can meet; the proofs cover any number of each
and any retention for the safety properties, and liveness is checked with the two
threads and the fault. In `AssetOrder` a disturbance needs two requests and a
collision two assets; two folders let an asset leave while another arrives, and positions up to 3 let two
assets be reordered above an offset. No request reads a folder's label, so the view of
`asset_order` leaves it out (`Unlabelled`). Six drags
exceed the four phases of a list in `SortQueue` (queued, sent, answered, saved) with a
timer left over. In `Grants` each half of the assigner, own and foreign items and an
item that vanishes occur with three items; a constraint of the instance keeps the
requests and the creation of the section to two at one time, and the requests to one
once the gallery has been destroyed, so that a gallery that vanishes under two requests
is left to the proofs. In `Uploader` two files and two clicks let
every mark be set and taken back while the file's own request is out. In `Galleries`
and `Library` a flag is contested by two requests, and two rows of a kind are what
uniqueness, a move and a cascade need; both are proved for any number. In
`FolderRouter` two folders are the one that is shown and the one that is wanted, two
fetches are an answer and the one it overtakes, and with a page that a link names, a
search and a sort there is every reason for a fetch that the router has. Every bound
is a constant whose name begins with `Max`; a guard that uses one stops the
environment or a counter, never a reaction of the code, with two exceptions: `MaxJobs`
holds back a further update_multiple while two jobs of the asset are under way, and
`MaxPosition` a request that would compute a higher position.

Deadlock is checked in the runs of `AssetLifecycle`, `AssetOrder`, `Galleries`,
`Library` and `FolderRouter`, which never stop. A dialog that is closed, and a set of
users all of whose sections are created, do stop.

## 5. Fairness

* `AssetLifecycle`: Sidekiq runs what is queued, sidetiq what is due, and a thread
  goes on with its step (weak fairness). Taking a job is strongly fair per asset: the
  queues are polled by weight and every queued job is fetched in its turn, but
  a thread may be busy in between. HeyWatch answers in the end. Nothing is assumed
  about users or admins, nothing about the clock: the properties that need noons
  to pass say so themselves (`DaysPass =>`).
* `SortQueue`: a browser runs its timers, a server answers. Drags, failures and
  closing are not fair. `LatestListIsSaved` asks for the liveness of `LatestOrder`
  only where no request fails.
* `Galleries`, `Library`, `FolderRouter`, `Uploader`, `AssetOrder` and `Grants` state no
  fairness: users begin what they like, and nothing in the code runs by itself.

## 6. Disagreements found

* `lifecycle_listing`: a comment of the uploader says that update_multiple makes an
  asset visible. The first request already saves the folder, and a document is
  born processed, so it is listed before its file is uploaded.
* `sort_queue_failure`: a failed reorder has no callback; the page says "Database
  updating in progress!" for ever and later drags only queue up. `FailureIsFinal`
  says how much is lost: the first failure is the last request of the dialog.
* `grants_others`: "should not change permissions from other account" fails when the
  other account writes between the read and the comparison of the ids.

## 7. Proofs

TLAPS proves, for every value of the constants that the named assumptions allow:

* **AssetLifecycle** — `TypeCorrect`, inductive as it stands. `RenderedCorrect`
  needs `FlagAfterStyles` (a thread at "flag" has written the styles).
  `WorkCorrect` needs `DocumentsProcessed`, because documents are never queued.
  `FreshCorrect` needs `AgeInv`: loaded batches only hold rows that were old enough
  when selected, and an id is never reused, so they stay old enough. `RetentionCorrect`
  needs `ClearanceInv` as well: a row with an AssetClearance queued or at work has been in the
  trash for longer than the period, has had its `deleted_at` written since (`renewed`), or is gone.
* **SortQueue** — `OneRequest` (what is on the wire is newer than the table, and
  nothing is out unless busy) and `NothingForgotten` (what waits is the last list
  and a timer or the pending flag stands for it) are inductive together. They give
  `QuietCorrect`, and `ImplementsLatest`: every step is a step of `LatestOrder` or
  a stutter, failures included. `FailureCorrect` is inductive as it stands.
* **AssetOrder** — `Undisturbed`: what an intact page shows is still what the table
  holds, and what an intact request is about to write keeps positions apart.
  This is what makes it sound to skip the rows that did not change, refused rows apart.
  `PlacedApartCorrect` follows, and the action properties `PlacedOnTopCorrect`,
  `ReorderCorrect` and `SortCorrect`: an undisturbed reorder lists the folder as the
  dialog had it, which is what the server of `SortQueue` does with a list in one step.
* **Grants** — `OnlyCreated` (nothing refers to an item that never was), `OnlyOffered`
  (what is still to be shared is of a section that was created, and goes to members or to
  users who overlapped) and
  `Undisturbed` (an intact request's lists lead to what was asked for and to what
  others gave). `NoGrantsOutsideCorrect` and `UpdateIsExactCorrect` follow.
* **Uploader** — `OkIsPlaced`: an answer "ok" tells that all files of its request
  are in a folder. With it `StoredIsPlaced` and `UploadsAreKept` are inductive.
* **Galleries** — each open request has its part (`Fits`): a toggle that is alone has
  left no other gallery first that its `update_all` could see, a request that has
  read a protection is in time or its gallery is `loose`, an answer that is calm
  tells what is first. With `RowsFit` (a first and protected gallery is `loose`, in the
  trash as well) and `ListFits` (a list that is
  up to date shows nothing that is not first) this is
  inductive and gives the four properties, for any finite set of galleries.
* **Library** — `Fits`: a deletion has loaded every folder that is seen in its gallery,
  but for those that are `stray`, and every permission of theirs that was complete;
  an upload that found no folder has no default folder next to it unless the
  gallery is `crowded`. `Apart`: two requests never create permissions of one folder,
  nor the default folder of one gallery. What arrives in a gallery (a moved or a
  restored folder) and what leaves it (the three deletions) are one lemma each.
* **FolderRouter** — `Alone`: while only the router fetches, one fetch at most is out,
  the router waits for it, and none of an earlier collection is left to end that wait.
  `Fetching`: what is shown, or the only answer that is out, is what the collection
  asks for. With `Collection` (it asks for the active folder or for a search),
  `PendingIsAwaited` and `AddressNamesFolder` these are inductive. A handler hands a
  record of the state on to the next; `Handed` says what `showFolder` needs of it, so
  that one lemma serves all its callers.

Several of these invariants carry history variables that say when they are silent
(section 3): the proofs hold for every interleaving, but say nothing of what the named
overlaps leave until a later request repairs it. `PendingTellsTheFetchCorrect` of
`FolderRouter_proofs` is about the runs in which nothing is to be exempted: with links to folders
that are there and to their pages, answers that can be drawn, and no search, sort or
page size, `@pending` is set exactly while the one fetch is out, and the list ends
with what the collection asks for.

Each module first gets one lemma per action, then one step lemma, then the temporal
theorem. The assumptions are the named ASSUMEs of the modules: bounds are natural
numbers, "none" values are not ids, files are not numbers (`Uploader` tells the two
kinds of callers apart by that), an item belongs to one account (`Grants`), sort keys
are integers (`AssetOrder`), galleries are finitely many (`Galleries`), no id is both
a gallery's and a folder's (`Library`).

**Only model-checked:** the liveness properties `UnprocessedSettles`,
`TrashIsEmptied`, `StoredIsProcessed` and the liveness half of `LatestListIsSaved`.

## 8. Assumptions about what is not in the repository

* paranoia: destroying a live row stamps `deleted_at`, destroying a row that was
  loaded as deleted removes it (`spec/schedules/clear_deleted_entities_test.rb`
  uses both); the default scope hides deleted rows; `delete` stamps without
  callbacks, `destroy` runs them, `restore!` of one row restores nothing else; a
  `has_many through:` does not see what is behind a deleted row.
* ActiveRecord writes only the attributes that changed since the row was loaded; a
  transaction's writes appear together; another transaction that wants the same
  rows waits. `ids=` finds the items, loads the list, compares, deletes, inserts.
* Sidekiq loses the jobs that a killed process had fetched and declares a job dead
  after its last retry; HeyWatch may repeat a ping.
* Backbone's `set` forgets earlier `changed`; `jQuery.ajax` calls success or error
  once; the plugin reports the end of a group of uploads when all have ended.

* cyrax, which is not in the repository either, is taken not to wrap `create!` and its
  block in one transaction: the statements are separate steps in `Grants` and `Library`.

Not modelled inside the modelled components: failed validations of an asset in
update_multiple (`AssetOrder` has those of reorder), the branch of
`ClearUnprocessedAssets` for an asset without an account (`clear_unprocessed_assets.rb:11`; nothing
destroys an account), a later change of its content type, the 1000 rows the sorting dialog loads at most,
the upload dialog of the asset list, the selection of a file apart from the
answer to its POST (`Add` is both), the editing of a role, an admin's edit of a
user. Documents are never queued; audio is processed like images. In `Galleries`:
positions, texts and images, and how an account decides who reads what. In
`Library`: the purge of folders and galleries after the retention period and an
admin's destroy of a row that is deleted already, whose effect on a folder's
children depends on the version of paranoia; positions; the permissions of
galleries, which `Grants` has. In `FolderRouter`: folders that the manager adds, folders that the manager adds, the redraw
of the list when one asset is destroyed in it (`shared/asset/list.js.coffee:14`), what when an answer is refused, and the contents of forms.

## 9. Not modelled, and what is left to do

* **Invitations** are on their way out: `app/models/gallery_member.rb:1` calls the model
  "required only for access in data migration", and the lists of memberships and the
  recovery of a link are commented out in their controllers.
* **API tokens, admin passwords, registration** are a counter, a history kept by one
  callback and one transaction: what can go wrong is in the hazards, and a model
  would be one action long.
* **File names and video urls** are string handling in one step.
* Presentation, mail texts, configuration, migrations, reports and the authorizers,
  which decide in one step over data they do not change, are left out for good.
* **Vendored JavaScript**: all `.js` files but the two manifests are third-party
  libraries; the application itself is Ruby and CoffeeScript. Only what the router
  leans on in Backbone and its pagination (fetch, loadUrl, navigate, sync) is
  modelled, with the router.

Left to do, in this order: the purge of folders and galleries, once paranoia's
behaviour is pinned down by a test, composed with the row of `AssetLifecycle` (what a
purged folder leaves behind, `app/models/folder.rb:47`); the positions of galleries
and folders, which `reorder` writes as `AssetOrder` has it for assets; the gallery
choice in the asset list's upload dialog, composed with `CreateDefault` of `Library`.
