# artifact-site in TLA+

TLA+ modules of the parts of artifact-site where several requests, replicas or background workers
meet: uploads and the package lease, idempotent publication, durable package jobs, the versions of
a site until it is purged, OAuth grants and account disabling, the images of comments, discussions
with their read state and inbox, and who may read a site. TLC checks the modules on small
instances; TLAPS proves every property of the passing runs that is not a liveness property, for
all instances. Paths below are relative to `src/lib/` of the repository unless they start with
another directory.

## The system

artifact-site is a Next.js application. Postgres holds the metadata, a local directory or an
S3 bucket holds the files, and several replicas serve the same database and storage without any
state of their own. Everything that can go wrong between two requests goes wrong between two
`await`s, or between two statements of different connections.

| Component | State it keeps | Operations | What makes it correct |
| --- | --- | --- | --- |
| Upload sessions (`upload-session.ts`, `application/upload-*.ts`) | `upload_sessions` row: receipts of the files, `created_at`, package lease | open, PUT (begin, stream, record), commit, discard, complete, sweep after six hours | a receipt is backed by the bytes it names; the ledger keeps its limit and loses nothing; every session ends |
| Package lease (`package-processing.ts`) | `package_lease`, `package_lease_until` | take, 10 s heartbeat, assert in the transaction, release | one holder at a time; what is published is what was acknowledged |
| Publication commit (`sites.ts`, `publication-commit.ts`, `authorized-commit.ts`) | `versions`, `sites` pointers, audit rows | commit an upload, create, edit, rollback, fork | a version row appears with its whole tree, and the tree never changes |
| Idempotent publication (`publish-operation.ts`) | `publish_operations` row per key: fingerprint, lease, state, result | claim, take over, replay, record, release, tombstone | one publication per key, recoverable for seven days |
| Package jobs (`package-jobs.ts`) | `package_jobs` row: state, lease, attempts, payload | enqueue, claim, heartbeat, complete, fail, retry, delete | completes with its version and operation, keeps its key, always ends |
| Storage (`storage.ts`, `storage-s3.ts`) | the tree `sites/<site>/<version>/` | streamed write, abort, measure, remove, list with mtimes | local writes are in place, S3 objects appear whole |
| Reconciler (`reconcile.ts`) | none | list trees, look versions up, remove orphans older than an hour | never takes a tree somebody still needs |
| Sites and versions (`official-version.ts`, `application/*.ts`) | current and official pointer, `official_revision` | edit with `expected_version`, designate, rollback, fork | no lost update; pointers name versions of the site |
| Site lifecycle (`admin.ts`, `maintenance.ts`) | `deleted_at`, `purged_at`, take-down | delete, undelete, purge, expire | a restored site has its files |
| OAuth and sessions (`oauth.ts`, `session.ts`, `oidc-callback.ts`, `app/api/device`) | clients, authorizations, tokens, sessions, devices | sign in, approve, redeem, rotate, revoke, disable account | one live pair per grant; a spent grant stays spent; a disabled account gains nothing |
| Comment images (`comments/attachments.ts`) | `comment_attachments` rows, bytes | reserve, write, make ready, bind, discard, sweep | what is shown is stored; what is stored is on record; what was given up is collected |
| Discussions (`comments/service.ts`, `comments/mentions.ts`) | threads, messages, mentions, `comment_read_*` | post, reply, edit, delete, poll, mark read | one message per request id; nothing is hidden unread |
| Notifications (`notifications/`) | subscriptions, events, notifications | follow, announce, read, prune | an unfollow stands; one notification per mention |
| Sharing and reading (`share.ts`, `application/share-item.ts`, `sharing-mutations.ts`, `comments/access.ts`) | audience, passcodes, links with `access_revision`, receipts | set audience, change or revoke a link, stop sharing, enter a passcode, read, comment | the gates agree; nothing handed out opens more than a fresh request would |
| Preview (`preview-access.ts`, `preview-key.ts`) | none; keys are signed and carried in the path | make a key, check a key | a key opens what it was made for and no more than its holder may read |
| Search index, settings, quotas, rate limits | derived or advisory | | |
| Conversion, text editing, CLI, UI | none shared | | |

`PROJECT.json` lists every component with its status and, under `hazards`, each place where the
code can go wrong in a way a unit test hardly reaches.

How they meet: a PUT and a commit of the same session share its row, its lease and the tree; a
commit publishes in one transaction under a global advisory lock (`rbacTransaction`), which other
statements do not take; `withPublishOperation` wraps the commit and its result is written by that
transaction; a job is enqueued by one request, run by any worker, and publishes through the same
transaction; the sweep runs in every worker every second and on every new session; the reconciler
looks only at storage and at `versions`. Disabling an account meets whatever its credentials are
doing; a sweep of images meets the comments that bind them; a preview key and a receipt are used
long after the request that made them, when audience, link, roles and versions may have changed.

## Modules

| Module | Models | Actors |
| --- | --- | --- |
| `UploadSession` | one session, its tree and the version it may become | `Requests`: any mix of PUTs, commits (of strangers too), cancels, sweeps and requests that only close the session; the reconciler; time |
| `PackageUpload` | what a chunked package upload promises: files acknowledged and withdrawn one at a time, published at one moment, never changed, reclaimed only for a reason | |
| `UploadSession_proofs` | its inductive invariant, its theorems and the refinement of `PackageUpload` | |
| `OncePublication` | what a key promises: at most one publication, every success names it | |
| `PublishOperation` | `withPublishOperation` for one key | `Requests` of one owner |
| `PublishOperation_proofs` | its theorems and the refinement of `OncePublication` | |
| `PackageJobs` | the job of one package together with the operations of several keys, the package lease and the version | commit requests, workers, a competing writer of the session, time |
| `DurableJob` | what a 202 promises: run until published or failed, published once and in time, with exactly its own key settled | |
| `PackageJobs_proofs` | its inductive invariant, its theorems and the refinement of `DurableJob` | |
| `SiteVersions` | one site with its versions, pointers, files, deletion and purge | `Requests`: any mix of replacements, edits, rollbacks, forks and designations; administrators; `Purgers`; the reconciler; time |
| `VersionedSite` | what a site promises its readers: versions that never change and are lost only after its removal was decided, exact copies | |
| `SiteVersions_proofs` | its invariants, its theorems and the refinement of `VersionedSite` | |
| `Credentials` | the session, the devices and the OAuth grants of one account with one client | a browser, `Requests` to the token and revocation endpoints, devices, an administrator who disables and enables |
| `Connection` | what a connected application holds: a grant is redeemed once, passes from hand to hand, ends once | |
| `Credentials_proofs` | its inductive invariant, its theorems and the refinement of `Connection` | |
| `CommentImages` | the rows and bytes of one person's images and the comments they belong to | uploads, comments, `Sweepers` (replicas that run the maintenance), time |
| `PictureTray` | what somebody who writes comments is promised about pictures: from the tray to one comment, and never back | |
| `CommentImages_proofs` | its inductive invariant, its theorems and the refinement of `PictureTray` | |
| `Discussion` | the messages of one site, one reader's progress in each scope, subscriptions, mentions and inbox | `Requests` that post and are repeated, the reader's pages, pruning |
| `UnreadTracking` | what a reader is promised: which messages are unread in which scope | |
| `Discussion_proofs` | its inductive invariant, its theorems and the refinement of `UnreadTracking` | |
| `ReaderAccess` | the main address of one site, one link, one reader with a preview key and receipts | owner, administrators, reader, time |
| `ReaderAccess_proofs` | its inductive invariant and theorems | |
| `MC*` | symmetry sets for TLC | |

Seven small modules (`PackageUpload`, `OncePublication`, `DurableJob`, `VersionedSite`, `Connection`,
`PictureTray`, `UnreadTracking`) say what a component promises to somebody outside, with none of its leases,
transactions, listings and watermarks; the component's module instantiates it with a refinement
mapping and the proofs show every step to be one of its steps or a stutter.

`PackageJobs` composes `UploadSession` and `PublishOperation`: it repeats the lease of
`UploadSession` and the operation of `PublishOperation` at the grain the job needs, and adds the
job's own lease and the transaction that compares all three. It leaves the files out;
`UploadSession` has them.

`SiteVersions` begins where `UploadSession` ends: a version of the site is one request, whose files
are written in one step before its commit, as the routes for small bodies do. It has what the other
modules leave out, several versions of a site and the life of the site itself. `ReaderAccess` takes
the versions and the take-down of a site as given and asks who may read them.

### State and code

- An action is what a handler does between two `await`s. `pc` (in `PackageJobs` also `step`) says
  where a request stands; it goes back to `"idle"` (or to `"ended"`) when it is answered, refused
  or its replica dies (`Crash`).
- A `*_until` column and the clock are one Boolean ("has not passed yet"). `LeaseElapses`,
  `TtlElapses`, `Expire` and their like are the passing of time. A heartbeat sets the Boolean again,
  also after it fell, as the UPDATE of the code does.
- `MayStall` says whether a running holder may miss its heartbeats for 45 seconds (a stopped event
  loop, a database it cannot reach). A dead one always does.
- A file's content is the request that streamed it. `Torn` is a file that is not one whole upload:
  half written by the local driver, or mixed from two writers.
- A random lease token is the request or the worker that drew it. A worker's earlier attempt is
  over when it draws its next one, so the two cannot be confused.
- `rbacTransaction` holds an advisory lock, so transactions exclude each other (`LockFree`, the
  guard of `TxCheck`) but not single statements. Where a transaction reads what it does not lock,
  the read and the COMMIT are two steps: `assertPackageLease` in `UploadSession`, the INSERT ...
  SELECT of a job in `PackageJobs`. `PackageJobs.Publish` asks for the lease in the step that
  commits; a takeover between the two is in `UploadSession` only.
- Some neighbouring statements are one step, where none of the properties can tell: `DiscardRow`
  (the row, its child sessions, the DELETE), `ReadUnderLease` (version and row),
  `PackageJobs.Complete` (the session's end and the release of the lease), `Credentials.Answer`
  (the session check and the decision). The competing writer of `PackageJobs` has no heartbeat.
- Refusals that come from parts outside the model (permission, quota, rate limit, validation) are
  nondeterministic alternatives of the handlers (`CommitRefused`, `WorkFails`, `Look`, ...).
- In `SiteVersions` a tree is the set of the edits its files contain, so that "nothing was lost" is
  `\subseteq`: an edit of a folder site adds itself to a copy, a replacement adds itself to what its
  caller had exported, a rollback is a copy. An edit of a single-file site replaces the whole
  document and is a replacement here. Callers send versions and designations they were shown.
- `lapsed` is the retention window of a deleted site having passed. `restoreDeletedSite` does not
  ask for it, nor whether a job is removing the files: only the mark that follows stops it.
- A purge removes any of a site's trees before it fails (`PurgeRemove`), or all of them. A tree that
  lost some of its files counts as lost. The other removals take one tree, in one step.
- `CopiesNothing` is the storage driver: S3 copies an absent tree without an error, `cp` throws.
- Requests of `SiteVersions` are shorter than the reconciler's one-hour grace (`PastGrace`); what
  happens to longer ones is in `UploadSession`.
- The catch of the commit route looks the session up again with the caller's owner key
  (`DropDraft`). A package counts as absent there for a caller who is not its owner or whose bearer
  has died meanwhile, and is discarded. `CommitRejected` is a request that comes to the catch before
  the route has looked at the session at all; the catch of a commit under way is `CatchFailure`.
- History variables are never read by an action. `history` in `UploadSession` remembers that the
  session was discarded by a cancel or for a stranger's commit, or its tree reconciled away; `fate`
  in `SiteVersions` that a purge or the reconciler has decided to remove the site (`"doomed"`), and
  that it was restored after that (`"torn"`). So do `admitted` and `late` in `Credentials`, `acked`
  and `marked` in `Discussion`, and the terms kept in a receipt of `ReaderAccess`.
- `Credentials`: every statement of the token endpoint is an action, since each is a transaction of
  its own. A request that mints a pair gives the pair its name, an approved authorization is the
  grant of its name. `admitted` and `late` are the requests, approvals and sign-ins that had passed
  their account check when credentials of their kind were revoked; the redemption of an approved
  device asks for no account, so an approval counts.
- `CommentImages`: rows change in transactions that exclude each other, bytes between them. Every
  write, removal and clean-up may fail. `old` is the image's seven days having passed; no upload
  takes that long.
- `Discussion`: a transaction reads the clock when it begins and is visible when it ends. Two
  transactions under the lock never read the same millisecond, and the clocks of the replicas
  agree. The reader has any number of pages, and the pages have any number of requests under way,
  which arrive late and in any order: an acknowledgement (`MarkSeen`) names any messages of its
  scope, and a baseline or "mark all read" (`MarkThrough`) has the snapshot of any earlier answer. What
  the pages show is therefore not part of the state. A poll takes no lock, so its snapshot may be
  later than a message it cannot see; the code marks up to that snapshot, which is why
  `HiddenWasRead` starts at `marked`. `acked` is what an acknowledgement found unread when it
  arrived, as the statement at `comments/service.ts:916` does.
- `ReaderAccess.NewRevision` counts a change of terms. `application/share-item.ts:102` also advances
  `access_revision` when it is sent the same grants again, which only closes more receipts.
- `ReaderAccess`: `changes` numbers the changes and names what they make (sessions, passcodes,
  times of a link), so that nothing is drawn twice. A key is checked against the state of its use,
  as `authorizePreview` does. The three gates (`Readable`, `KeyOpens`, `CommentsAtMain`/`AtLink`)
  are written apart because the code writes them apart.

## Runs

| Run | What it asks | Result |
| --- | --- | --- |
| `upload_package` | What does the package lease guarantee, and who may still discard a package? 3 requests, 2 files, local driver, reconciler, crashes | all hold, refinement included; 1.2 million states |
| `upload_ledger` | Do the receipts survive parallel PUTs, stalls and expiry, for both kinds of session, and does a published tree settle? `MaxFiles = 1` so that the limit bites | all hold; 0.5 million states |
| `upload_discard_race` | Does a discard spare a published version? | violated |
| `upload_reconcile_race` | Does the grace window spare open uploads? | violated |
| `publish_once` | Does a key publish once, and never again after its retention? 4 requests, 2 contents | all hold, refinement included |
| `package_job` | Do job, version and operation complete together, does a job keep its key, and is it what its 202 promises? 2 requests, 2 keys, 2 workers | all hold, refinement included; 1.4 million states |
| `package_job_ends` | Does every accepted job end? 1 request, 1 key, 2 workers | holds |
| `site` | Do `expected_version` and `expectedRevision` protect what they promise, do files outlive the window of a deleted site, and what does a restore that comes too late cost? 2 requests, 2 purging replicas, the reconciler | all hold, refinement included; 1.4 million states |
| `credentials` | Do rotation, replay, revocation and disabling keep a grant to one pair and a disabled account out? 3 requests, 2 grants, 1 device | all hold |
| `comment_images` | Are images shown stored, stored on record, and collected when given up? 2 images, 2 comments, 2 replicas | all hold |
| `discussion` | Is a repeat posted once, and is unread what should be, whatever pages send and when? 2 requests, 3 keys, 2 scopes, 4 transactions | all hold, refinement included |
| `reader_access` | Does anything handed out open more than a fresh request would, or anything at all after "stop sharing"? 2 versions, 3 changes | all hold; 2.2 million states |

### Properties

- `LeaseExclusive`: no two requests stand in the steps the package lease guards. Assumes kept
  heartbeats. A crash, an expiry or a discard hands the lease on only after the old holder is gone.
- `ReceiptsBackedByBytes`: a receipt names the request whose bytes are on disk. It is what
  `beginUploadedFile` is for.
- `PublishedNeverAltered`, `PublishedInFull`: the tree of a published package is what its commit
  measured, and is all there unless the session was cancelled, discarded for the commit of a caller
  who does not own it, reconciled or expired. Commits of its owner that fail, are repeated or come
  too late take nothing.
- `UploadsAsPromised`: the session is a `PackageUpload`. It says in one formula what the separate
  properties say of single states, and what they leave out: a publication takes exactly the ledger
  of that moment (`PublishesTheLedger`), a commit under way may outlive the row it read, and
  nothing else adds, changes or removes an acknowledged or a published file.
- `PublishedSettles`: what remains of `PublishedNeverAltered` without the lease, for websites and for
  holders that stalled. Only PUTs admitted before the commit can still alter a published tree; once
  they are over it stays as it is until it is removed as a whole.
- `ReceiptsWithinLimit`, `ReceiptsOnlyOwn`: the compare-and-set ledger. These hold whatever stalls.
- `SessionEnds`: every session is closed in the end.
- `Recoverable`, `AnsweredIsReleased`, `OncePublished`: what a client that lost its answer may rely
  on. `TombstoneStands`: after the seven days nothing is published under the key, not even by a
  request that claimed it before and comes to its commit late.
- `CompletedTogether`, `JobKeepsOperation`, `JobEnds`: the job, its version and the operation of its
  key have their results at once; a retry never takes the key from a queued job; every job ends.
- `JobAsPromised`: to its client the job is a `DurableJob`, whose key is settled in the step that
  publishes and no other key ever is, and which is dropped only after its six hours. It implies
  `SettledStands`: an attempt that lost its claim does not reopen what another has settled.
- `KeepsItsVersions`: to its readers the site is a `VersionedSite`. Trees are written before the
  transaction that makes them a version and removed outside of any, and none of it shows until a
  job decides to remove the site after its window. Whoever restores it before that, late or not,
  gets all of it back; after that versions may be missing, but what is left is what was published.
- `RestorableIsWhole`: while a site is live or within its window, every version it ever had is
  stored, not as an empty copy either, and its discussion is there, unless it was restored when a job
  had already decided to remove it (`fate = "torn"`); a fork keeps its files even then. Commits
  prepared before a deletion, purges of two replicas that may fail half way, a restore between any
  two of their steps, and a reconciler that looks the site up once per pass all meet here.
- `NothingBuried`: an edit under `expected_version` contains all that the version it replaces
  contained, in a torn site too unless one of the two trees is itself lost. Exempt is
  `baseVersionId`, whose caller chose another starting point.
- `DesignationSeen`: a designation under `expectedRevision` replaces the designation its caller was
  shown, although the pointer may have moved away and back.
- `OneLivePair`: of all requests that present the code and the refresh tokens of a grant, one holds
  it, and one access token is live. The account page, which shows one connection per grant, relies
  on it.
- `SpentStaysSpent`: once nothing of a grant is live or under way, nothing brings it back: no replay
  within the rotation grace, no late revocation, no second consent.
- `NoNewcomers`: when `disableUser` is through, a disabled account acts only with what was past its
  check when that kind of credential was revoked. The exemption is the window that the code leaves:
  `assertAccountActive` and the INSERT of the tokens are separate statements, so the comment at
  `oauth.ts:195-196` holds for everything but a request between the two.
- `HandedOn`: the endpoint is a `Connection`, in which a grant has one holder at a time. It is proved;
  TLC confirms it on the instance of `credentials`, in about the five minutes that run takes with
  it, and it is not a standing part of the run.
- `ReadyIsStored`, `BytesOnRecord`, `Collected`: rows and bytes of images through failing writes,
  removals and dying replicas. `PendingWithinLimit`: the cap counts reservations, so parallel uploads
  do not overshoot it.
- `PicturesAsPromised`: seen from outside, where a picture is a row that is ready and its bytes, all
  this is a `PictureTray`: a picture goes from the tray to one comment and stays there, complete,
  until an edit or the deletion of the comment gives it up, and what was given up, swept or is too
  old never comes back. It implies `StaysAttached`, that no sweep takes the image of a live comment.
- `PostedOnce`: a request id posts one message although the first look is outside the transaction.
- `HiddenWasRead`: a message stays unread until an acknowledgement finds it unread or it is marked.
- `UnreadAsPromised`: watermarks, receipts, late snapshots, pruning and requests that overtake each
  other amount to `UnreadTracking`: a message is unread from its arrival in every opened scope that
  shows it, until it is withdrawn, looked at in a scope where it is still unread, or given up in
  this one, and never again in a scope that is open. It implies `ReadEverywhere`: what an
  acknowledgement finds unread in one scope is read in all, and does not come back in an open one
  after the receipts were pruned.
- `UnfollowStands`, `MentionedOnce`: the inbox respects an unfollow and notifies of a mention once,
  whatever is posted and edited.
- `KeyNoWider`, `FreshKeyOpens`: the key of a preview against the gate of requests, both ways.
- `CommentersRead`: whoever may discuss a version may read it. `ReceiptsAsVerified`: a receipt that
  opens was made under the present terms of the link, since every change of terms advances
  `access_revision`, a change back to earlier terms included. `StopEndsAll`: stopping the sharing
  closes link, passcode, receipt and key at once, in all three gates.

### What the violated runs show

- **A discard can remove a published tree.** `discardUploadSession` looks the version up and then
  removes (`upload-session.ts:138`). A commit between the two publishes a version without bytes,
  against `upload-session.ts:21-22`.
- **The reconciler can empty an open upload.** The grace window is one hour, a session lives six
  (`reconcile.ts:22`, `upload-session.ts:36`).

### What else the models show

No run is kept for these; each is found by changing one constant or asking one more question.

- **A published website can still change.** Only packages take the lease. With
  `Kinds = {"website"}` TLC refutes `PublishedNeverAltered`: a PUT that passed `getUploadSession`
  before the commit writes into the published tree when its stream ends
  (`application/upload-file.ts:78`), against README.md:173 and ARCHITECTURE.md:40. What does hold for
  it is `PublishedSettles`.
- **A key can stay in progress for six hours.** `enqueuePackageJob` extends the operation's lease
  even when it inserted no job (`package-jobs.ts:61-64`). A request that dies before its answer
  leaves the key held, against `src/content/publish-skill.md:120-121`.
- **A stranger's commit can discard a package.** `executePost` discards what `getUploadSession`
  does not show to the caller (`application/upload-commit.ts:92`, `upload-session.ts:82`), and
  `discardUploadSession` asks for no owner. A commit of somebody else that runs into the rate limit, or
  the owner's own whose bearer has died, deletes an open package with its bytes, also while another
  commit of it is publishing. `history` records it: without `"discarded"` for a stranger's commit TLC
  refutes `PublishedInFull` and `UploadsAsPromised`. The comment above the discard speaks of bytes
  "nobody claims".
- **A restore after the window can lose the site.** `undeleteSite` refuses only a purged site, and
  the purge does not look again between its listing and the removal (`admin.ts:170-172`); the
  reconciler does not either. Without the exemption of `fate = "torn"` TLC refutes
  `RestorableIsWhole`, against `admin.ts:148` and `app/api/admin/sites/[slug]/route.ts:3`. The
  comment at `db.ts:263-264` knows the race of the purge.
- **An acknowledgement that is overtaken is lost to the other scopes.** The page sends "mark all
  read" while an acknowledgement is under way (`components/comments/use-comment-unread.ts:88-126`).
  If the former commits first, the latter finds nothing unread in its scope and writes no receipt
  (`comments/service.ts:906-916`), so what the reader has looked at stays unread in the aggregate. This
  is why `acked` and `looked` are what was still unread.
- **A scope opened late may show what was looked at elsewhere.** Its baseline is the snapshot of an
  earlier answer; receipts below the watermarks of the scopes there were by then have been pruned.
  TLC refutes `UnreadAsPromised` if `Open` of `UnreadTracking` may show only what was not looked at.
- **A late mention is pruned with the reply it was added to.** It reuses the event of the reply
  (`comments/mentions.ts:66`), and pruning goes by the age of the event.
- **A loaded document of a current-version link does not keep its snapshot.** `docs/RBAC.md:64-65`
  says its key lasts for thirty minutes; `preview-access.ts` refuses a key whose version is no
  longer current or official, which is the stricter reading and the one `KeyOpens` has.

### Bounds

- Three requests in `upload_package`: one holds the lease, one waits with a stale session, and a
  third sweeps or cancels beside them. Two files: one being replaced while another stands.
- Two requests suffice in the violated runs and in `upload_ledger`, where the contention is over
  one row. The S3 driver is used there; the local one, whose writes have more intermediate states,
  is used in `upload_package`.
- Four requests in `publish_once`: two takeovers and a replay.
- Two workers and two attempts in `package_job`: an attempt that fails and is queued again, and one
  that fails for good. `MaxAttempts` is 3 in the code; the counter is cut at the bound because only
  `attempts < MaxAttempts` is asked.
- Two requests in `site`: one prepares an edit while the other moves the pointer; or one has a
  version in storage while the other stands between its write and its commit. A pointer that moves
  away and back takes three, which the theorems cover. Two replicas purge, so that one can mark what
  the other is removing.
- Three requests and two grants in `credentials`: a redemption, a rotation and a replay or a
  revocation of the first grant while the second supersedes it. The client is `Registered`, which
  adds the superseding; the proofs cover both kinds.
- Two images with `MaxPending = 1`, two comments and two replicas in `comment_images`: an image
  changes hands, the cap is reached, and two sweeps claim the same row.
- Two requests over three keys in `discussion`: a repeat, two authors, the reader's own message;
  one version beside the aggregate makes two scopes. `MaxClock = 4` transactions: two messages, a
  baseline and an acknowledgement.
- `MaxChanges = 3` in `reader_access`: a change before the key is made, one after it, and one that
  undoes an earlier one. One request changes one term of the link; the first state is any of a
  handful of common settings. Passcodes entered, keys and receipts made are not counted.
- The number of compare-and-set retries (16) is not counted: giving up is always possible.
- The `site` run has a state constraint, `TornOnce`: what becomes of a site restored too late is
  followed until it is deleted once more. Without it the run has 3.9 million states and takes
  longer than it is worth; the proofs have no such bound. No other run has a constraint: all state
  spaces are finite. The theorems hold for all values of these constants, `MaxClock` and
  `MaxChanges` included.

`CHECK_DEADLOCK FALSE` where requests, images, transactions or changes run out: when the session is
closed and every request has ended, nothing is left to do. The `site` run checks for deadlock: its
reconciler can always run.

### Fairness

Safety needs none. `SessionEnds` assumes that Node runs an accepted request to its end
(`WF` of `Proceed`), that some replica's worker sweeps (`package-jobs.ts:141` re-arms its timer
every second) whatever else goes on between two ticks (`SF` of `Sweep`: the workers have a timer of their own,
while in the model a sweep waits for one of the few `Requests` to be idle), that time passes, and `SF`
of `DiscardRow`: replicas may die at any step, but a sweep repeated every second is not killed each
time just before its DELETE. `JobEnds` assumes that
workers run their attempts on, that the tick deletes expired jobs and that time passes. Neither
assumes anything of the clients.

`Collected` assumes that `maintenanceTick` starts a sweep in some replica again and again, which
`after-response.ts` does at most hourly as long as requests come in (`WF` of `Claim`), and that
removing bytes and deleting a row succeed now and then if they are tried for ever (`SF` of `Remove`
and `Forget`); each single attempt may fail, and any replica may die in it.

## Proofs

`UploadSession_proofs` proves `TypeOK`, `ReceiptsOnlyOwn`, `ReceiptsWithinLimit` and
`PublishedSettles` for all values of the constants, and the package properties, the refinement of
`PackageUpload` among them, for

    ASSUME Fenced == ~MayStall
    PackageSpec == Spec /\ kind = "package"

which is what the code claims the lease for. With either part dropped, TLC refutes them
(a website that is overwritten after its commit; a PUT that stalled past its lease). The kind of a
session is drawn in `Init`, so the theorems hold whatever other kinds the instance has.

`LeaseExclusive` and the properties about bytes are not inductive by themselves. `IInv` adds, in
layers that each rest on the ones below:

1. `TypeOK`.
2. `LeaseInv`: whoever stands in a guarded step holds the lease or has lost the row it was in. It
   gives `LeaseExclusive`.
3. `LedgerInv`: the ledger belongs to the holder. What a writer or a committer read under the lease
   is still the ledger, nothing is published before the commit, and a discard has its reason.
4. `BytesInv`: what the holder finds in storage is its own or was collected: files being streamed
   have one writer, receipts and checked snapshots name the bytes or nothing. It contains
   `PublishedNeverAltered`.
5. `WholeInv`: until something is collected, none of it is missing. It contains
   `ReceiptsBackedByBytes` and `PublishedInFull`.

`Inductive` combines one lemma per layer, and each theorem follows from `IInv` or, for the action
properties, from `IInv` and one step.

The refinement maps the session's row to `open`, the tree to `served` once it is published, and
`expired` or a non-empty `history` to `doomed` (so a stranger's commit dooms an upload as a cancel
does). The ledger is the receipts; after the row was deleted under a commit that has passed
`TxCheck`, it is what that commit has seen (`Ledger`), since this is what it will publish.
`LedgerInv` and `WholeInv` make the mapped steps those of `PackageUpload`: `PutBegin` is `Withdraw`,
`PutRecord` is `Acknowledge`, `TxCommit` is `Publish`, the deletion of the row is `Close`, and every
removal is `Reclaim`.

`PublishOperation_proofs` strengthens the row's state with `RowTrue` (what each state of the row
says about `published`, `result` and the requests that stand after their commit), and proves the
refinement of `OncePublication` step by step: `Commit` is `Publish`, every reply is `Answer`,
everything else stutters. Beside `RowTrue` the invariant says that whoever works under the key works
on the row's content (`SameContent`), and who has answered and published (`StepsTrue`).

`SiteVersions_proofs` has two invariants, and neither has an assumption about administrators.
`RequestsInv`: types, that a version is committed by the last step of its request
(`EndsWithCommit`), that requests work from versions of the site (`WorksFromVersions`), and, for
`NothingBuried`, that an edit whose `expected_version` is still current was copied from just that
version (`LockedOnBase`). `SeenIsTrue` (a designation shown at a revision is the designation as long as
the revision stands) gives `DesignationSeen`.

`FilesInv` turns on the decision to remove the site, which `fate` remembers: every purge under way and
every dead entry of the site cache was preceded by that decision, and the decision by the end of
the window (`RemovedWhenDoomed`); the reconciler condemns no tree that may still be committed or
served, unless the site is doomed (`CondemnedIsDead`); and until the decision nothing published or
about to be published is missing (`FilesPresent`). It gives `RestorableIsWhole`. For `NothingBuried` a
torn site needs more than `FilesPresent`: trees that exist still hold what they were copied from.

The site implements `VersionedSite`: the COMMIT of a version puts its tree on the shelf, the decision
to remove the site is `Vanish`, a restore after it is `Tear`, and every removal of a published tree is
`Lose`. `AboutToCommit` says what the refinement needs of a request between its write and its commit:
the tree it will publish is there, and holds its own edit or is that of the version it copied, which
is still on the shelf. That removals take nothing of a live or restorable site is
`RequestsSparePublished` and `FilesInv`.

`PackageJobs_proofs`: `CompletedTogether` and `JobKeepsOperation` are nearly inductive.
`Inserting` adds what the INSERT of a job relies on between its read and its COMMIT: it is alone, it
sees no job, and nobody has taken its key, because the claim of a key waits for the same lock
(`LockFree`). `NoneAssumption` and `"writer" \notin Workers` keep the model's names apart. The same
invariant carries the refinement of `DurableJob`: `Publish` is `Complete` because nothing was
published, hence by `CompletedTogether` no key was completed, before it; all claims, lapses and
requeues are stutters.

`Credentials_proofs`: `OneHolder` says that a grant whose code is unspent has no request, that one
request at most holds it, and that whoever is about to mint has retired the access tokens before it;
`Contained` follows `disableUser` statement by statement and says what each has closed. In the
refinement of `Connection` the holder of a grant is *the* request that holds it, a CHOOSE that
`OneHolder` makes unique: a redemption is `Redeem`, a rotation is `Pass`, the INSERT of the tokens is
`Act`, and everything else can only be `Lose`.

`CommentImages_proofs`: `UnderWay` (an upload works on a reserved row that is not bound, and has
written its bytes before it is made ready) and `Swept` (a sweep holds tombstones only, and a row
about to go has lost its bytes). The limit is a count, so `FewPending` is carried through one lemma
about what a step may add. `StaysAttached` follows from one step. The refinement of `PictureTray`
needs `BoundPosted` besides (an image is bound to a message that was posted, so a new message has no
pictures but its own): `MarkReady` is `Finish`, age and a discard are `Drop`, and a sweep is a
stutter, because its claim takes what is in no tray and no live comment (`ClaimStep`) and removes
bytes only of what it claimed (`UnseenStep`, by `ReadyIsStored` before and after).

`Discussion_proofs`: `OneTransaction` (who posts holds the lock and nobody has posted its key),
`BehindClock` (no message or watermark is ahead of the clock, and a watermark is behind a message
that is being posted: this is where the lock meets the timestamps). Nothing is said of pages: a
request that is late or was overtaken finds less unread than its page showed. `LeastTime`, that a
set of times has a least element, rests on well-founded induction. The refinement of
`UnreadTracking` reads what is unread off watermark and receipts: the first watermark of a scope is
`Open`, an acknowledgement is `Look` at what was still unread (`SeenTracked`), a later `MarkThrough`
is `GiveUp` (`ThroughTracked`), the COMMIT of a message is `Arrive`. A message arrives behind no
watermark (`BehindClock`), and one lemma (`ProgressTracked`) shows that moving a watermark and
dropping the receipts below all of them takes from every scope what was looked at and nothing else.
`ReadEverywhere` follows from the same steps (`StaysRead`).

`ReaderAccess_proofs`: `ReceiptsBehind` (a receipt with the link's revision has the link's terms)
and `KeyProven` (a key holds a passcode its reader has entered). `CommentersRead` needs no
invariant: it compares three definitions of the code in every state there is.

`TombstoneStands`, `PublishedSettles`, `SettledStands` and `StopEndsAll` are action properties, each
proved from one step, taken action by action: `TombstoneStands` from the guards alone,
`PublishedSettles` and `StopEndsAll` with the types, `SettledStands` with `Inserting`. Four theorems
state properties no run checks by itself, because a refinement that is checked implies them
(`LedgerIsPublished`, `SettledForGood`, `ReadStaysRead`, `ImagesStay`).

Assumed: only the `ConstantsAssumption` of each module, `NoneAssumption` and `Fenced`. The first two
say that the model's names are distinct (`None` is no request and no time, `"offered"` is no
request) and the bounds are numbers; neither restricts the code.

Only model-checked: liveness (`SessionEnds`, `JobEnds`, `Collected`), which is out of TLAPS's reach,
and the properties of the two violated runs. Every module's type
invariant is proved; the run of `credentials` repeats it because there it says more than types:
every token belongs to a grant.

## Not modelled

- Archive packages: extraction, its limits and its two slots per process. The checks of a folder
  package stand for both.
- The parts of an MCP chunk upload (child sessions and their assembly).
- Who may change what. A refusal is possible wherever the code may refuse; reading and discussing
  are in `ReaderAccess`.
- In `ReaderAccess`: the mode "edit" of a link, which opens no more to reading and discussing than
  "comment" does; operators and administrators, who read everything; anonymous sites of a
  browser; several links of one site; sharing inherited from folders and defaults; roles given to
  everyone.
- In `Discussion`: mentions of people other than the reader, likes, resolving, anchors and evidence,
  the grouping and paging of the inbox, replicas whose clocks differ. The database also has
  UNIQUE(author_user_id, client_request_id) (`migrations/0001-comments.ts:17`); it is left out, so
  `PostedOnce` is shown without its help.
- In `CommentImages`: the sweep's LIMIT of 100 rows, which postpones and does not lose rows, and
  decoding and resizing.
- In `Credentials`: `POST /api/me/tokens`, by which a signed-in user mints a publish token
  (`app/api/me/tokens/route.ts:24-37`). It checks the session and inserts later, as the redemption
  of a device does, so what `NoNewcomers` exempts exists there too. Also client registration,
  redirect and PKCE checks (refusals of a redemption), sliding session expiry, the OIDC exchange.
- Rows written beside the version in its transaction (audit, comment settings): they commit or roll
  back with it.
- Quotas, renaming and claiming of a site, and which sites the anonymous expiry picks; the expiry
  itself is a `Delete`.
- The search index and the settings snapshot, listed as components; quotas and rate limits are
  checked before they are written and refuse, no more.
- A removal of one tree that stops half way, by a loser, a discard or the reconciler. What a purge
  leaves of a site is modelled, tree by tree.
- Conversion, HTML splicing, document archives, the CLI and the user interface: sequential work on
  bytes and strings, or clients of the interfaces modelled here. They are most of the repository's
  lines.
- SQLite, which serves development and tests.

## Plan

1. Done: `UploadSession`, `PublishOperation`/`OncePublication`, `PackageJobs`, `SiteVersions`.
2. Done: `Credentials`, `CommentImages`, `Discussion`, `ReaderAccess`.
3. Done: the proofs of all of them.
4. Done: what seven of them promise (`OncePublication`, `PackageUpload`, `DurableJob`,
   `VersionedSite`, `Connection`, `PictureTray`, `UnreadTracking`), and the proofs that they keep it.
5. Left: a promise for readers (one decision behind the three gates); the chunks of an MCP upload
   assembled from child sessions; the search index (`site-text.ts`), the write of a late extraction
   against newer versions; the settings snapshot; sharing inherited from folders.
