# zooffice: models, checks and proofs

This directory holds TLA+ models of the zooffice web application (Java, Spring 3.1,
Hibernate 4, Liquibase 2, ehcache 2.5; in the browser JavaScript with jQuery 1.7.2), the TLC runs that check them on small instances
and the proofs TLAPS checks about them. Paths are relative to the repository root
(`src/`); `P` stands for `src/src/main/java/org/zooffice`
and `W` for `src/src/main/webapp`.

## 1. The system

zooffice is the skeleton of a web application: a controller process (several of them in a
cluster) that shares one database and one home directory with its peers, keeps user
accounts, lets plugins take part in login and request filtering, and reads its
configuration from files it watches. Its pages bring a script editor, forms with uploads, a
date picker and a test runner, all of them in the repository.

### The server

| Component | State it keeps | Operations | Talks to |
|---|---|---|---|
| Changelog lock and schema upgrade (`liquibase/lockservice/LockServiceEx`, `P/infra/init/LiquibaseEx`, `LockExDatabaseChangeLogGenerator`, `DatabaseUpdater`) | row 1 of DATABASECHANGELOGLOCK, DATABASECHANGELOG, `hasChangeLogLock` | wait for, acquire and release the lock, run change sets | the database; every other booting node |
| Default users (`P/infra/init/DBInit`) | rows of NUSER | create admin, user, superuser, system at boot | `UserRepository`, password encoder |
| User accounts (`P/user/**`, `P/model/User`, `BaseEntity`) | rows of NUSER, the ehcache `users` | read, save, modify, delete, merge of form data | database, cache, cache peers, login |
| Login (`P/security/Zooffice*`) | session, last timezone and language in the user row | authenticate through the plugins, provision a plugin's user, save the row | user accounts, plugins |
| Configuration (`P/infra/config/Config`, `P/operation/service/*`) | system properties, announcement, cluster flag, the two files | load, watch, save, announce | the file system, log4j's `FileWatchdog` |
| Cluster setup (`P/infra/config/DynamicCacheConfig`, `P/infra/init/ClusterConfigurationVerifier`) | peer list of the cache | build peer URLs, verify settings at boot | configuration |
| Plugins and pluggable filters (`P/infra/plugin`, `P/infra/servlet`, `P/security/PluggablePreAuthFilter`) | plugin registry, filter snapshots | start, finish, hot deploy | atlassian plugin framework |
| Scheduler and listeners (`P/infra/schedule/ScheduledTask`, `P/common/util/ListenerSupport`) | lists of listeners | add, remove, inform | timer thread, callers |
| Log monitor (`P/operation/cotroller/LogMonitorController`) | tail buffer, counters | tail, read, switch verbose | tailer thread, web requests |
| Thread stopping (`P/common/util/ThreadUtil`) | none | stop a thread quietly | threads |
| Home directory (`P/model/Home`, `P/common/util/PropertiesWrapper`) | files below `${ZOOFFICE_HOME}` | copy defaults, read and write properties | file system |
| Utilities (`P/common/util/*`) | none, but for the cached time zones | zip and tar, dates, paths, selections | - |
| Security manager (`P/sm/ZoofficeSecurityManager`) | allowed directories and hosts | check a path, a host | JVM |
| Messages (`P/infra/config/UserMessageSource`), controllers, SQL and dialect classes, scripts | none or a view cache | formatting, I/O | - |

### The pages

| Component | State it keeps | Operations | Talks to |
|---|---|---|---|
| Script editor: document and undo (`W/plugins/codemirror/codemirror.js`) | lines and their fragments of marks, the tree of chunks, groups of changes | replace a range, undo, redo, compound changes, mark, clear, line queries | screen, selection, highlighting |
| Script editor: screen and selection (same file) | window shown, nodes, gutter, open operation with its changes; selection, shift, drag | operations, scroll, refresh; move, delete, drag, hide lines | document, folding |
| Script editor: input and highlighting (same file) | hidden field, poll timer, what was read last; task list, cached states and styles | poll, key, click, focus, context menu; highlight in slices | document, modes |
| Editor add-ons (`W/plugins/codemirror/util/{foldcode,search,searchcursor,dialog}.js`) | folded regions, search state and marks, open dialogs and their timers | fold, find, replace, ask, confirm | document, marks |
| JavaScript mode (`W/plugins/codemirror/lang/javascript.js`) | stacks of combinators, blocks and scopes | parse a token, start a line, indent | highlighting |
| Form plugin (`W/js/jquery.form.js`) | uploads and their timers, jQuery's count of requests; the element clicked last | submit, abort, load, time out, retry; gather, clear, reset, select | server, page callbacks |
| Test runner (`W/jstest/qunit-1.10.0.js`) | queue, semaphore, timeout, running test | queue a test, process a slice, stop, start, time out, done | tests, global errors |
| Date picker (`W/plugins/datepicker/js/bootstrap-datepicker.js`) | date, month viewed, view mode, field | show, update, navigate, click | its field |
| Other scripts (`W/js/*`), modes and add-ons (`W/plugins/codemirror/lang/*`) | little or none | charts, time zones, images; tokenizers | libraries |

### What is hard here

* Several nodes boot against one database: the lock row is the only thing between them,
  and a crash, a commit whose answer is lost or a release that is only logged leaves it
  locked.
* Boot work that is not covered by the lock: the default users are created one
  transaction at a time.
* A user row is read through a cache whose fills and evictions are not ordered with the
  commits they belong to, and the login filter writes whole rows past that cache.
* Configuration files are written by one node while its own and other nodes' watchdogs
  poll their modification time, whose unit is a second.
* Filters take a snapshot of the plugins and subscribe for updates in two steps.
* The log monitor swaps the object it synchronises on.
* The editor keeps by hand what others compute: sizes and heights in a tree of chunks, the
  window drawn, the ends of a selection, fragments of marks on line objects, cached parser
  states. A long sequence of legal edits decides whether they are still right.
* Timers race with events in the pages: the poll of the hidden field with keys, clicks and
  input methods; the highlighter's slices with edits; an upload's load event with its
  deadline, probe, retries and abort; a test's timeout with its late `start`; a
  confirmation's timer with the next dialog; the memory of the clicked button with the next
  click.
* Arithmetic at edges: columns and lines where an edit joins or breaks them, days a month
  does not have, January and December, fragments of marks that become empty.

The `hazards` of `PROJECT.json` list these at their lines, with the properties that watch
them.

### What makes each component correct

* Lock and upgrade: one node upgrades at a time; the row is the upgrading node's until it
  gives it back; a change set is executed once and after its predecessors; who serves has
  the full schema; who waits stops waiting.
* Default users: they are created on a full schema, never wiped again, and all of them
  exist once the application serves.
* User accounts: a role in a row or a cache was submitted in a committed request of someone who
  may set it, no general user; writers that do not overlap lose nothing; a cache differs from the row only for a known reason.
* Configuration files: a copy at rest is the file's; the saver sees what was saved; a node
  never goes back to an older copy; every node shows the file in the end.
* Document: undo gives back the text; a compound change is one step, and its own; marks stay on their
  characters; the tree of chunks is a list of lines.
* Screen and selection: after an operation the nodes are those of the lines as they are
  now; the selection is a valid range and its ends stay with their text.
* Input and highlighting: what is typed gets into the text once; colours at rest are those
  of a parse from line to line, but where the worker's rule of thumb cannot tell two states
  apart, and the worker comes to rest.
* Folding, search, dialogs: no line is lost; what is found is there and what is replaced is
  that; no dialog stays behind or answers twice.
* JavaScript mode: blocks on its stack are the brackets that are open; what was pushed is
  owed a pop.
* Form plugin: an upload is reported once and in the end; the busy indicator shows for a
  reason; a form sends what a browser would send.
* Test runner: tests keep apart, none is cut short, the end is reported once and comes.
* Date picker: a month is shown whole, a click picks what it shows, what was written is read
  back.

## 2. Plan and what became of it

Most important first: what several nodes do to shared persistent state, then the parts of
the pages that keep state by hand or race with timers.

| Order | Modules | Question | Bounds of the runs | Proofs |
|---|---|---|---|---|
| 1 | `SerialUpgrade` (abstract), `ChangeLogLock`; proofs in `BootProofs` | Does the lock serialise the upgrade, whatever fails? | 3 nodes, 2 change sets, 2 attempts, 2 faults; liveness 2 nodes, 1 fault | all safety properties, refinement |
| 2 | `Boot` (composes `ChangeLogLock` with `DBInit`), `BootProofs` | Is a node that serves a node with its accounts? | 2 nodes, 4 accounts, 2 faults | all safety properties |
| 3 | `FileWatch`, `FileWatchProofs` | Does every node come to show the file? | 2 nodes, 2 saves, 3 seconds, 1 crash | all safety properties |
| 4 | `UserStore`, `UserStoreProofs` | What may a cached, unversioned row lose? | 3 requests, 2 nodes, 1 fault | all safety properties but the refuted one |
| 5 | `EditHistory`, `EditingProofs`, `TextMarks` | Do undo and marks survive any sequence of edits? | 3 edits with undo 2 deep; 2 edits with 2 marks | `EditHistory`: all |
| 6 | `LineList` (abstract), `LineTree` | Is the tree of chunks a list of lines? | 6 lines in chunks of 2 and 3, 3 operations | - (RECURSIVE) |
| 7 | `EditorView`, `EditorViewProofs`, `EditorSelection`, `EditingProofs` | Is the screen current, the selection valid? | 4 lines, 2 steps; 3 lines of 2 characters, 3 events | both: all |
| 8 | `EditorInput`, `EventProofs`, `HighlightWork` | Are typed text and colours right in spite of timers? | 3 characters; 5 lines, 3 edits | `EditorInput`: all |
| 9 | `FoldCode`, `TextSearch`, `Dialogs`, `EditorViewProofs` | Do the add-ons lose, miss or leave anything? | see `MCEditor` | `Dialogs`: all |
| 10 | `ScriptMode` | Does the parser know its blocks? | 8 programs, 3 free tokens | - (RECURSIVE) |
| 11 | `UploadForm`, `FormFields`, `PageProofs` | Does an upload settle once, does a form send the right fields? | 2 uploads, 2 retries; 5 forms, 4 steps | both: all safety |
| 12 | `TestQueue`, `EventProofs`, `DatePicker`, `PageProofs` | Do tests keep apart, do clicks pick their day? | 2 tests of 4 plans; 4 events | both: all safety |

`MCEditor` and `MCPage` instantiate the modules of 5 to 12 side by side (section 3).
`ListFacts` holds the lemmas about lists and numbers that several of the proofs rest on.
Next, in this order: proofs for the properties of a page that are still only model-checked
(section 5), `FoldCode` before `TextMarks`, and the components listed under
"Not modelled".

## 3. Modules

### ChangeLogLock (abstract: SerialUpgrade; proofs: BootProofs)

**State.** One process per node; `pc` names the next database call of its boot. `owner` is
the committed content of row 1 of DATABASECHANGELOGLOCK, `writer` the transaction that has
updated the row and not ended, so that every other UPDATE of it waits (row lock). `table`
is the existence of the lock table. `ran` is DATABASECHANGELOG, `executed` counts
executions and `lostMark` notes change sets the database executed and then refused to
record; both exist for the properties only. `attempts`, `hasLock`, `todo` and `outcome` are
the locals and fields of `waitForLock`, `LockServiceEx`, the change log iterator and the
way `update` will end.

**Actions.** `CheckTable`/`CreateTable` are `checkDatabaseChangeLogLockTable`,
`SelectLocked`, `UpdateRow`, `CommitLock` and `CommitLockFails` are `acquireLock` with the
`WHERE ID = 1 AND LOCKED = FALSE` of `LockExDatabaseChangeLogGenerator`; `Recheck` and
`GiveUp` are the loop of `waitForLock`. `OpenChangeLog`, `Execute`, `MarkRan`, `Finish` and
`UpdateFails` are the body of `LiquibaseEx.update`; `Unlock`, `CommitUnlock` and
`UnlockFails` its finally block. `Crash` kills the process at any point and rolls its open
transaction back; `Stop` is an orderly shutdown. A commit that fails may have been done by
the database, with only its answer lost.

**Runs.**
`changelog_lock_safety`: three nodes, so that two compete while a third holds or leaks the
lock; two change sets, so that an upgrade can end half way; two faults, so that a second
failure meets what the first one left. `changelog_lock_liveness`: two nodes with fairness;
every boot ends, without a fault the lock is given back, an orphaned lock stays, and every
step is a step or a stutter of `SerialUpgrade`.

**Bounds.** `MaxAttempts` stands for the rechecks that fit in `changeLogLockWaitTime`: 2 is
the least with a wait that succeeds and one that ends. `MaxFaults` bounds crashes and
database errors together.

**Fairness.** Weak fairness of a live node's own steps: a thread that can run runs. Strong
fairness of `UpdateRow`, whose guard other transactions switch on and off: the database
grants a row lock to a waiting UPDATE. Nothing forces a node to boot, stop or fail.

**Proofs.** `LockInv` (types, `WriterInv`: an open update of the row belongs to a node
between that UPDATE and its commit; `HolderOwnsRow`) is inductive. `HolderOwnsRow` alone is
not: the release never looks at LOCKEDBY, so what keeps a second node's commit from
replacing the owner is that its UPDATE saw an unlocked row and that nobody else can update
the row until it commits, which is `WriterInv`. `UpgradeInv` adds that `todo` is what `ran`
lacks while a node is in the body, and that a change set executed but not recorded (and not
in `lostMark`) is the one a live node is recording, or the row is still locked in the name of
the node that died before it could; from it follow `ExecutedOnce`, `InOrder` and `UpIsUpgraded`, and with `LockInv`
the refinement of `SerialUpgrade`. `LeakNeedsFault` is inductive beside `LockInv`: only a
fault ends an owner's time without giving the row back. `OrphanStays` is proved step by step:
who could change the row would have found it unlocked and be about to commit (`WriterInv`), or
release it, and then it would be the owner (`HolderOwnsRow`), whose `pc` is not one of a node
that is off or has failed.

Only model-checked: the two liveness properties.
Left out: `forceReleaseLock`, `reset`, `resetAll` and the list of locks, which nothing
calls, and the SQL text.

### Boot (composes ChangeLogLock; proofs: BootProofs)

**State.** `users` are the ids in NUSER; `seed` and `at` are where `DBInit` is on each
node. The node's `pc` and everything else is `ChangeLogLock`'s.

**Actions.** `LockPart` is any step of the upgrade; the change set of
`db.changelog_schema_*.xml` drops NUSER before it creates it, so executing one empties
`users`. `CountUsers` is the `count() < 2` of `createDefaultUserIfNecessary`; `FindUser`
and `SaveUser` are the two calls of `createUser`, where the unique key of USER_ID makes the
slower of two nodes fail; `SeedFails` is any database error, and a crash is one of
`LockPart`.

**Runs.** `boot`: two nodes, two faults, the four accounts: accounts need the full schema,
no boot ever wipes them, and without a fault all of them come to exist although the nodes
fail each other's saves. One change set suffices, the order of several is
`ChangeLogLock`'s. The fairness is that of `ChangeLogLock` and of the steps of `DBInit`.
`boot_first_boot` shows a disagreement with the comment of `DBInit` (section 4).

**Proofs.** `SeedInv`: a node is past `CountUsers` only while it is up, and accounts imply
that all change sets are recorded. It needs `UpgradeInv` beside it: a change set can only be
executed while one is missing from the records, hence never while there are accounts. The
conjunction is inductive (the steps of `DBInit` are no steps of the lock, which
is shown first: they keep `LockInv` and `UpgradeInv`) and gives `SchemaBeforeAccounts` and
`AccountsNeverWiped`.

`FaultFreeBootSeeds` needs more, since nodes without any fault still fail each other: of two
that find an account missing, the slower one's save violates the unique key and its boot ends.
`FillInv` says that as long as no fault happened the accounts are none, or all, or some
seeding node is *ahead*: the accounts are exactly those before the position it has come to. A
save of another node either fails, and then it was not the one ahead, or succeeds, and then
its account is a new one, so that its position is the one of the node ahead and it takes the
lead itself. That a node whose save fails is never the last one is the step a test would hardly
reach. Only model-checked: `SeedingCompletes`, which is liveness.

### FileWatch (proofs: FileWatchProofs)

**State.** The shared file is `content` and `mtime`, in the unit `File.lastModified` has on
the file systems of the time, a second. Every node has one watchdog thread (`pc[n]`, `seen` is
`FileWatchdog.lastModif`) and shows the copy `shown`, stamped with the time it was read.
Saves are threads of their own on a node `where`. `got` is what a thread has read inside the
synchronized load and not yet published. `reload` chooses between announcement.conf, which
`AnnouncementService` loads again after a save, and system.conf, which it leaves to the
watchdogs and whose text `Properties.load` may reject.

**Actions.** `Start`, `Check`, `ReadFile`, `Publish` and `Rejected` are the watchdog
(`Config.initHomeMonitor`) and the loads of `Config`; `Open`, `Write` and `SaveFails` are
`FileUtils.writeStringToFile`, which truncates and then writes, so that overlapping saves
may leave `Garbled` text; `Crash` ends a node with its saves; `Tick` is the clock.

**Runs.** `watch_safety`: two nodes, two saves on either node, three seconds, a crash, a
rejected text. Two saves are needed for every overlap (save with save, save with load), and
three seconds for a read before, in and after the second of a write. `watch_liveness`: with
fair threads every running node ends with the file's text, except for one written in the
second of its last read. `watch_same_second` and `watch_bad_text` show what those
exceptions are (section 4).

**Fairness.** Threads that have begun go on, and the clock ticks. Saves, starts and
failures are never forced.

**Proofs.** `WatchInv`: no time stamp is in the future, one thread per node is inside a
load, an old text was read no later than the last write, reads are published in order, a
watchdog's stamp was taken before the read it stands for, after a successful save whoever
loads on that node loads the saved text. The stamp-before-read part is what
`MissedOnlyInSameSecond` needs and no property says. All five safety properties are proved
for any number of nodes, saves, seconds and crashes. Only model-checked: liveness.

Left out: `system-ex.conf`, which no code writes, and what the properties in the file mean (see "Not modelled").

### UserStore (proofs: UserStoreProofs)

**State.** One account: its row, the cache `users` of every node, and web requests. A request has
one persistence context (`OpenEntityManagerInViewFilter` wraps the security filters), so
`heap` holds the two `User` objects it may load; `cache` holds references to them, because
ehcache stores by reference. A column's value is the name of the request that
submitted it. `inside` is whether the cache interceptor runs inside the transaction: both
have the same precedence in Spring 3.1, and the order their definitions are found in
decides. `latest`, `granted`, `overlapped` and `outdated` are history for the properties.

**Actions.** `Hit`, `Miss`, `Put` are the cached `getUserById`; `LoginLoad` is the login
filter, which queries the row, sets language and time zone and saves all columns;
`ProfileLoad` and `EditLoad` are `modifyUser` after the two branches of
`UserController.saveOrUpdateUserDetail`: only an editor who is a general user (`Role.USER`)
saves with the role that is stored. Everybody else's role is taken as submitted, be it an
administrator's edit of any account or a super or system user's of the own (kind "edit"); `DeleteLoad` is `deleteUsers`. `Update`, `Delete`,
`Create` and `Reinsert` are the flush and commit (rows have no version; saving a detached
user whose row is gone inserts it). `CommitFails` rolls back but leaves the changed object in
the cache. `Evict` goes to the local cache, then to one peer after the other; `EvictLost` is a
peer that cannot be reached; `Expire` the time to live; `Crash` the death of a node.

**Runs.** `user_store_safety`: three requests of any kind on two nodes and one fault. Two
requests overlap, the third fills a cache at the worst moment; two nodes tell local from
replicated eviction. `user_store_role` shows a disagreement with a comment (section 4).
No liveness is claimed.

**Proofs.** `UserInv` adds to the types which object a request or a cache entry refers to
at each `pc` and that every role an object, a request or the row carries was granted, or
belongs to an edit of someone who may set it, has not committed and whose object no cache
holds. The last part is why `RolesWereGranted` is not inductive by itself: objects are
changed in memory before they are committed, and an object with a new role in it must not be a
cached one.

`NothingLost` and `CacheIsRow` rest on `KeptInv`, whose core is one
fact about requests under way: a row that a request has read and not yet written is still
the row, with the request's own change in the object it will write, or else `overlapped` is
set or there was a fault (`Reads`). A commit therefore either finds every other request at
a point where it has not read, or gives the claim up. Three more parts are needed.
`Places`: a cache entry is the object its request has put, and what is being put is the row
or is `outdated`. `Calm`: while nothing is disturbed the row is what was last asked for,
entries carry its role, and an edit under way has taken that role. The profile may differ,
because an edit changes the cached object before its commit. `Entries`: each of the four
explanations `CacheIsRow` gives for an entry stays one until the entry goes. It is stated
without the premise `row = latest`, which later commits can restore. The exception is an
account that was deleted and inserted again, where nothing is claimed.

Left out: accounts a plugin provisions, lists and searches (they do not
write), `saveUser(User, Role)` (no caller), and a form that changes the user id.

### The instances of the pages: MCEditor and MCPage

The parts of the editor and of a page are modules of their own, with the calls by which
others reach them as inputs. `MCEditor` and `MCPage` put them side by side, each with
its own variables: modules that theorems are about are extended (`Dialogs`, `EditHistory`,
`EditorView` and `EditorSelection`; `UploadForm`, `FormFields`, `EditorInput`, `TestQueue` and `DatePicker`), so that the runs check the very
definitions the theorems state and evaluate their assumptions; the others are instantiated. A
variable `part` is chosen at the start; that part takes its steps, the others rest in one initial state, so that the states of the parts add up and do not multiply.
Every property is guarded by its part, and a name such as `HistoryRight` is the conjunction of
that part's type invariant with its properties, which stand with their explanations in the
part's module; for an extended module it is the module's own definition, which a part that rests
satisfies because it stutters. No part is composed with another here; `Boot` is the composition in this
project.

The run `editor` checks nine parts, `page` six. Deadlock is not checked in them: the bounds
end every behaviour.

**Fairness.** Of `MCPage`: the browser runs a timer that is due, a load event that has come,
the callbacks a test has asked for and the next slice of work, one weak fairness condition each,
as in the `Fairness` of the modules. JavaScript is single-threaded and no such task is ever
disabled by another for good without having been cleared by the code. Users, servers and
errors are never forced.

### EditHistory (proofs: EditingProofs)

**State.** The lines as sequences of letters; `done`, `undone`, `compound` and `closed` are
the History object. `past` and `future` are history for the properties: the text before each
group. **Actions.** `Replace` is replaceRange with updateLines and addChange (merging into the
last change when soon and near), `Undo`/`Redo` with `UnredoHelper`, called or bound to a key of
a read-only editor (`suppressed`), `StartCompound`/`EndCompound`, `ClearHistory`. The clock is a
choice: a change comes "soon" or not. **Checked.** One undo gives back the text before the
last group however it was merged. `CompoundIsOneGroup`: while a compound change is open and has
changed something, one undo gives back the text its first change met; `NextStartsGroup`: the first
change after its end starts a group. `before` and `stepped` are history for these: the text the
compound change met, and whether undo or redo was called within it after that.
**Bounds.** Three edits merge, extend on both sides and overflow a history of depth two.
**Proof.** `HistoryRight` for any texts, edits, undoDepth and nesting. `UndoRestores` says
something of the last group only and is not inductive: what the group below does is forgotten.
`HistoryInv` says that the groups of done lead from the present text back through *every* text
of `past`, those of undone through every text of `future` (`Chain`), where a group leads from one
text to another if there are texts between, one for each change (`Undoes`), and a change does if
its lines, put in the place of those it names, give the other text (`Takes`, line by line). The
core are three lemmas about changes: replacing a range is undone by the change that holds its
old lines (`EditTakes`), an undone change is redone by its opposite (`TakesAgain`), and a new
change that touches the last one and the last one together are the extended one, in each of the
four ways they can overlap (`Merges`). `HelperUndoes` carries them over the loop of unredoHelper.
After a suppressed undo nothing but types is claimed. `CompoundInv` carries the compound change:
as long as it changed nothing the history is closed, so that its first change starts a group
(`ReplaceFits`), and from then on the group is the last one and open, so that the others join it;
at its end the history is closed again (`ClosedStarts`), which is `NextStartsGroup`.

### TextMarks

**State.** Lines as objects with characters and fragments; `set` is the list of lines a marker
keeps. The characters of the first text are numbered, so that a property can follow them.
**Actions.** `Edit` is updateLinesNoUndo with its five cases (`WholeLines`, `InOneLine`,
`SplitLine`, `JoinLines`, `ReplaceLines`), `MarkText`, `SetBookmark`, `Clear`. **Checked.** A
character is marked after an edit if it was before; whoever bears a mark is on its list.
**Bounds.** Two edits put a split, join or replacement on top of every other; a marker and a
bookmark are the two kinds.

### LineTree (abstract: LineList)

**State.** A store of chunks with cached `size`, `height`, `parent`. **Actions.** `InsertLines`
with the spilling of leaves and branches, `RemoveLines` with the collapse, `UpdateLineHeight`
up the parents. **Checked.** The tree implements the plain list `LineList`; sizes, heights
and the four queries (getLineAt, lineNo, lineAtHeight, heightAtLine) agree with the list; no
chunk is over its limit. **Bounds.** The limits 50, 25, 10 and 5 are constants, 2, 1, 3 and 2
here, so that all of them are crossed within six lines and three operations.

### EditorView (proofs: EditorViewProofs)

**State.** What each line shows, what the nodes on the page show, the gutter, an open operation
with its changes. **Actions.** `StartOperation`, `ReplaceLines`, `RestyleLines`, `SetMarker`,
`EndOperation` with updateDisplay (computeIntact, patchDisplay, updateGutter), `Scroll`,
`Refresh`, `Toggle` (an editor without a place on the page). **Checked and proved.** After every
operation node by node equals line by line, and the gutter likewise. **Bounds.** A margin of one
and a slack of two lines instead of 100 and 20 in four lines: windows that stay, move and grow.
**Proof.** `ShownIsCurrent` for any number of lines, margin, slack, height of the editor, changes
within an operation and scroll positions. It speaks of the end of an operation only and is not
inductive. `ViewInv` says what holds in between: the ranges computeIntact would leave of the
window, if the operation ended now, hold nodes that are there and show the lines they stand for
(`Held`, `Good`); they are disjoint, ascending and rise together with their nodes (`Rises`), so
that sorting them by node changes nothing; and the gutter is as drawn unless it is marked dirty.
A change keeps this because each range it punches is cut into at most two pieces, one in front of
the change, which stays, and one behind it, which moves by `diff` (`PunchedRanges`); the new
lines are in neither. `ClippedRanges` carries it into the new window. That patchDisplay then
makes the window complete is the walk lemma (`WalkStep`, `Patched`): after each line the nodes
produced are those of the lines walked over, and the nodes not yet used are those of the ranges
still to come; hence one node for each line, which is the code's only assertion. That nothing is
drawn when the intact lines are as many as the window has (`Covered`) needs the same facts: ranges
that are disjoint and fill the window by count cover it.

### EditorSelection (proofs: EditingProofs)

**State.** Lengths of the lines and whether they are hidden, the selection, the fixed end of a
selection with shift, the closure of a drag. **Actions.** `ReplaceText`, `SetValue`, `Type`,
`SetSelectionCall`, `MoveH`, `DeleteH`, `KeyUp`, `SetLineHidden`, `MouseDown`, `MouseMove`; each
calls setSelection with skipHidden as the code does. **Checked and proved.** `SelectionValid`:
both ends are places of the text and in order, until one of the three events of `stray`.
`EndsStayInPlace`: replaceRange leaves the first end where it is when it is in front of the range,
and at the same characters of the text behind when it is behind. What both except are faults
of the code (section 4). **Bounds.** Three events: two edits and what the second finds; texts of one,
two and three lines, so that ranges are joined and broken. **Proof.** `SelectionInv` adds to
`SelectionValid` that the places a drag keeps are valid, and that a fixed end, which is clipped when
it is used, is a pair of numbers. Setting the selection keeps the length of every line
(`SameLengths`), so everything that was a place stays one, and leaves the ends out of order only
where a line is hidden (`SelectionIsSet`). An edit is described once (`Edited`) by the lines
in front of its range, those behind and the two seams between; `FrontStays` and `BehindStays`
carry places over it, which is adjustPos. The second part was found too strong in the proof: an end in a
hidden line moves on when an edit makes lines to show, and an end misplaced behind a joined
line can come to stand in front of the first; TLC shows both when the texts have three
lines or a line three characters, and the property excepts exactly these.

### EditorInput (proofs: EventProofs)

**State.** One line of characters that are all different, the hidden field `input`, what was
read last (`prevInput`), the poll's timer. **Actions.** Typing, correcting and pasting into the
field; `PollTimer` with readInput, `KeyCommand`, `Click`, `ProgramChanges`, `OnFocus`,
`OnBlur`, `ContextMenu` and `Rehide`. **Checked.** Nothing is in the text twice, nothing typed
before a key is lost, what was read last is in front of the cursor where a correction will
look for it, and a focused editor is polled.
**Proof.** `InputRight` for any characters and any limit of the field. It is not inductive:
that nothing gets into the text twice depends on what is in the field. `InputInv` adds that what
the field holds beyond `prevInput` was never in the text, nor what it holds after the context
menu took it over; that `prevInput` stands in front of the cursor while the editor has the focus
(but for `apart` and `astray`, the exceptions of section 4); and that everything in the field was
read or the editor polls fast, which is why a key command finds what was typed before it.

### HighlightWork

**State.** Per line its text, cached `stateAfter` and style; the worker's task list, its timer,
the slice under way. The mode is a small one with blocks, comments and functions and, like every
mode of the repository, without compareStates. A function has a parameter that looks different
where it is used; its state is indented as that of a block, and on most lines looks like it, so
that the worker's rule of thumb (more than `SameLines` long lines that look as before, and the same
indentation) may stop it although the state is another one, as with the `localVars` of
`javascript.js`. **Actions.** `Edit`, `LoadMode`, `Ask` (getStateBefore
with findStartLine), `Scroll`, and `HighlightWorker`, whose slice may end after any line.
**Checked.** At rest every line looks, and leaves the state, as a parse makes it that begins in
the first state and goes on with what the line above leaves. Excepted is the line right below
`SameLines` + 1 long lines for which the rule of thumb could take the state above for the one the
line stands for (same look of each of these lines, same indentation); what is below it then is
right for a state that is gone. Also excepted are lines a question went over. The worker comes to
rest. **Bounds.** Two lines at once instead of 500 and `SameLines` 1 instead of 3: an edit of four
lines leaves work, a second one renumbers it or stops the worker too early, and a third one meets
the stale lines this leaves. Without the exception for the rule of thumb the run fails.

### FoldCode

**State.** Line objects with tokens, hidden flags and delete handlers; the closure's list of
regions. **Actions.** `Click` (the fold function with one of three finders) and `Edit` (with the
handlers of deleted lines). **Checked.** A hidden line belongs to a region that is known; a
marker shows exactly where one begins; a brace fold ends at its partner; a fold opens by a
deletion only. **Bounds.** One page of up to five lines for each way of finding.

### TextSearch

**State.** The text, the search with its marks, the question being asked. **Actions.**
`ClearSearch`, `Answer` (a query is given), `FindAgain`, `ReplaceEvery`, `Replace` with `Yes`,
`No` and `Stop`, `Edit`. **Checked.** From every position the nearest place is found; replacing
all is a reference definition line by line; marks belong to the search that goes on; a user is
asked about a place where the query stands. **Bounds.** Texts in which occurrences overlap,
queries of one and two lines, and letters of both cases.

### Dialogs (proofs: EditorViewProofs)

**State.** Every dialog ever opened with its `closed`, `blurring`, pending timers; the focus.
**Actions.** `Open`, `Enter`, `Escape`, `Button`, `Move` (the user moves the focus), `Timer` (the
200 ms of a confirmation); `Blur`, `Gain` and closing happen within the step that causes them,
as events of the browser do. **Checked and proved.** No dialog is left open without the focus
or a timer that will look after it; none is answered twice. **Proof.** `Fine` states the
invariant of one dialog with the focus as a parameter, since in the middle of a handler the
focus has already moved; each helper is shown to take `AllFine` with one focus to `AllFine` with
the next, and the actions are chains of such steps.

### ScriptMode

**State.** The stack of combinators `cc`, the stack of lexical blocks, the scopes, the indentation
of the line; the bracket stack `open` is history. **Actions.** `SameLine` and `NextLine` read one
token through parseJS, in a well-formed program or in one typed at random. **Checked.** Each
open block and scope is owed exactly one end; in programs the blocks are the open brackets;
indentation follows them. **Bounds.** A program for each construct, three random tokens of
ten kinds.

### UploadForm (proofs: PageProofs)

**State.** Per upload how far it is, what its frame shows, its timers, the callbacks called, and
jQuery's count `active` behind the busy indicator. **Actions.** `AjaxSubmit` with its vetoes,
`KeptAlive`, `DoSubmit`, `Answer` (the server), `LoadEvent`, `Retry` (`Tries`, 50 in the code),
`Deadline`, `CheckState` (the probe), `CallerAborts`; each ends in `cb` where the code calls it, and
a callback of the page may throw. **Checked.** `SettlesOnce`, `IndicatorHasCause`, and under
fairness `Settles`. **Bounds.** Two uploads meet at the shared count; the options cover
deadlines, own frames, keep-alive and synchronous sending.
**Proof.** `UploadSafe` for any number of uploads, options and retries. `Own` says for one
upload how timers, flags and calls go together; it implies that a settled upload has nothing
left that could settle it again. `active` is a number shared by all, so the invariant says that
it is the cardinality of a set `C` of uploads that were counted and not taken back, and what an
upload in `C` looks like; a step adds its own upload to `C`, removes it or leaves `C`.

### TestQueue (proofs: EventProofs)

**State.** The queue of phases, whether the loop runs, `blocking`, `semaphore`, `timeout`, timers
of start, the running test; `ran` is history. A test is a plan: how often it stops, starts, pauses,
and whether it throws. **Actions.** `Rounds` (one phase of the loop), `StartTimer`, `NextTimer`,
`TimeoutFires`, `Callback` (a late start), `GlobalError`. **Checked.** Phases of one test are not
mixed with another's; a test is not torn down before its callbacks; done comes after the last
test; the run ends. **Bounds.** Two tests, the second a victim of the first's late calls.
**Proof.** `QueueRight` for any tests and plans; that the run ends is only checked. The queue
holds no phase without the ones that follow it and what was begun goes on at its head
(`Chained`, `GoesOn`), nothing is there twice (`Distinct`, `NotAgain`), a test that waits is the
current one and `semaphore` counts the calls it still makes (`Waiting`), and a loop that is on,
a slice or a timer that will begin one and a call of done are one ticket, of which there is one
at a time (`OneTicket`). Without the last, two loops could begin tests at once. A test that waits
is one that stops at least once; others `NotCutShort` does not speak of.

### DatePicker (proofs: PageProofs)

**State.** Date, month viewed, view mode, the field as numbers in the order of the format.
**Actions.** `Show`, `Hide`, `Update` (the user types), `Switch`, `Navigate`, `ClickDay`,
`ClickMonth`, `ClickYear`, with the setters of `Date` that carry over. `NewDate` is `new Date(y, m, d)`,
which takes a year below 100 for one of the 1900s (`YearMeant`), as the grid and a click do, while
the setters take it as it is. **Checked.** While it is
on the screen, all days of the month are shown (below the year 100 those of the 1900s) and weeks start where they should; a click picks
what it shows but for the days of another year; what was written is read back but for days after
the 28th with two of the three formats. **Bounds.** Three formats, two week starts, leap years,
31 December, and the year 20, through which the typing of 2012 passes.

**Proof.** `PickerIsRight`, for every order of day, month and year, any start of the week, any
years from 1 on (below 100 the month shown and the day picked are those of the 1900s) and any numbers typed whose day is below 60, which is as far as two carries
reach. The invariant `PickerInv` says that the date held and the one viewed are dates, that the
field holds nothing or three numbers, and that what the picker wrote last is the date it holds
or is read as it; the second half is needed because a key makes the picker read its own text,
and with a day after the 28th the date it then holds is not the one written. The rest is
arithmetic on dates. The 42 cells are, cell by cell, the last days of the month before, all of
the month viewed and the first of the month after (`CellDates`), from which follow both that the
month is shown and that a click on a day of the year viewed picks it; that the first cell begins
a week is a lemma on remainders (`WeekStartsThere`). `ReadsWhatIsWritten` says that a date comes
back from the numbers written of it, order by order, if the day is read last or is not after the
28th: the parts are set one after the other in a date that begins as 1 February 1970
(`parseDate`), which need not have the day.

### FormFields (proofs: PageProofs)

**State.** The controls of a form, the click noted on it (`clk`), the timers that will forget it,
and what was sent last. **Actions.** `CaptureSubmittingElement` (a click, with the submission
that follows unless it is prevented), `SubmitForm` (a script), `ForgetTimer`, `Enter` (the user),
`Clear`, `Reset`, `Enable`, `Select`. **Checked.** What is sent is what HTML 4 says, in the plain
and in the semantic order; the noted click is the latest; a cleared form sends nothing the user
entered, but files; fieldSerialize agrees with formToArray. **Bounds.** Five forms with every
kind of control between them; four steps click, enter, forget and send again.
**Proof.** `FieldsRight` for any forms. The invariant is small: what was sent is what formToArray
gives of the form it was sent from, and the noted click is the latest and has a timer. The work
is in what formToArray computes: that the pairs gathered element by element are the ones of the
browser (`ArrayIs`), and that an image taken out of its place and appended leaves every pair as
often as it was there (`BothOrders`, from `MovedToTheEnd`). `Texts` is any set of values with the
empty one in it, all strings in the run: the prover does not know that a literal is a string.

## 4. Where the code and its documentation disagree

| Run | The code | The text |
|---|---|---|
| `boot_first_boot` | a first boot that dies after two of the four saves: later boots count two users and create no more (`DBInit.java:82`) | "When the first boot-up, some data(ex: user account) should be inserted into DB." (`DBInit.java:19`) |
| `watch_same_second` | a watchdog that reads the truncated file in the second of the write never looks again (`Config.java:320`) | the announcement is "loaded from announcement.conf." (`Config.java:429`) |
| `watch_bad_text` | a text `Properties.load` rejects ends the watchdog (`Config.java:334`) | only marked options "need reboot" (`system.conf:12`) |
| `user_store_role` | an edit writes the role read earlier over the one an administrator has set meanwhile (`UserController.java:142`) | "General user can not change their role." (`UserController.java:139`) |

The modules met more on the way. These have no run of their own; each is the reason
for an exception a property names, for a guard of an action, or for something a module leaves out:

* `EditHistory`: an undo bound to a key of a read-only editor moves the groups and leaves the
  text (`codemirror.js:582`); clearHistory or setHistory within a compound change leaves
  `compound` at -1 (`:200`), and no later compound change is grouped until one of them is called
  outside of one; what a compound change does after undo or redo within it joins whichever group
  is then the last.
* `TextMarks`: fragments are not kept in order, which the drawing of a line takes for granted
  (`:2717-2767`).
* `HighlightWork`: getStateBefore fills in the states of lines that wait for the worker, which
  then stops in front of them: their colours stay as they were. The worker stops after four long
  lines that look and are indented as before (`:1970-1971`), although the mode keeps more than
  that (`localVars`, `javascript.js:162-183`): rename a parameter above four lines that do not use
  it, and a use below stays marked as a local variable.
* `EditorView`: refresh, setOption and scrollTo within an operation, after a change of the
  number of lines, have endOperation apply the changes a second time.
* `EditorSelection`: adjustPos looks at the lines of the range where the new text counts
  (`:881-893`), so an end behind the range, in the line where it ends, is misplaced when the edit
  joins or breaks that line, and the second end may come to stand in front of the first; an end in
  a line that stayed hidden for want of another moves on with an edit; skipHidden may turn a selection around; setSelection throws when all lines are
  hidden; the ends of a drag are not clipped after an edit, although a comment calls the ends
  "always maintained to point at valid positions" (`:81`); the last visible line can be hidden
  although a comment excludes it (`:1647`).
* `EditorInput`: a click, focus or the context menu within the 20 ms after a key drops text that
  was not read; setCursor keeps `prevInput`, so a correction deletes in the wrong place.
* `FoldCode`: handlers stay on lines after a fold was opened and open later folds
  (`foldcode.js:191`); the brace finder takes the class of the token in front of the brace; the
  tag finder takes `<b/><a>` for empty.
* `TextSearch`: a query of several lines is not found at the very position of the search nor in
  column 0 (`searchcursor.js:55-57`), backwards it matches a line one character too short
  (`:66-68`); the question before a replacement keeps a position the text may have left
  (`search.js:101`). Regular expressions that match nothing, or only before the position, make
  their loops endless (`searchcursor.js:18-28`).
* `Dialogs`: the timer of a confirmation gives the focus to the editor and so closes a question
  opened meanwhile (`dialog.js:47-66`).
* `ScriptMode`: after an operator within brackets `expect` skips tokens, and an inner pair of
  brackets may end the outer block (`javascript.js:278-285`).
* `UserStore`: only a general user's edit keeps the stored role (`UserController.java:138`), so a
  super or system user may save any role for the own account (`:134`).
* `UploadForm`: an abort in the 10 ms before doSubmit is ignored; an aborted or refused upload
  is never taken back from `$.active`; a frame of the page's choice is never listened to; an
  abort after the end calls complete again; a callback that throws leaves the upload open.
* `FormFields`: disabled options that are selected are sent, and in semantic order so are named
  elements that are no controls, against HTML 4 (17.13.2); the timer of one click forgets the
  next one (`jquery.form.js:750`).
* `TestQueue`: done may be called twice; a late start of a test that timed out releases the
  next one.
* `DatePicker`: a day after the 28th is misread with formats that do not end with the day; days
  of the neighbouring year are taken for the wrong month; navigating from a 31st skips a month; with a
  year below 100 the header shows it, but the grid is of the 1900s and a click picks a day there
  (`:150`, `:248-249`).

## 5. What is proved and what is not

| Module | States | Resting on |
|---|---|---|
| `BootProofs`, of `ChangeLogLock` | types, mutual exclusion, owner, once and in order, up means upgraded, `LeakNeedsFault`, `OrphanStays`, refinement of `SerialUpgrade` | `LockInv`, `UpgradeInv` |
| `BootProofs`, of `Boot` | `SchemaBeforeAccounts`, `AccountsNeverWiped`, `FaultFreeBootSeeds` | these, `SeedInv`, `FillInv` |
| `FileWatchProofs` | types and all five safety properties | `WatchInv` |
| `UserStoreProofs` | types, `RolesWereGranted`, `NothingLost`, `CacheIsRow` | `UserInv`, `KeptInv` |
| `EditingProofs`, of `EditHistory` | types, `HistoryRight` | `HistoryInv`, `CompoundInv` |
| `EditingProofs`, of `EditorSelection` | `SelectionRight` | `SelectionInv` |
| `EventProofs`, of `EditorInput` | types, `InputRight` | `InputInv` |
| `EventProofs`, of `TestQueue` | types, `QueueRight` | `QueueInv` |
| `EditorViewProofs`, of `EditorView` | types, `ShownIsCurrent` | `ViewInv` |
| `EditorViewProofs`, of `Dialogs` | `DialogsRight` | `AllFine` |
| `PageProofs`, of `UploadForm` | `UploadSafe` | `Own` of each upload, the set behind `active` |
| `PageProofs`, of `DatePicker` | types, `PickerRight`, dates read as they were written | `PickerInv` |
| `PageProofs`, of `FormFields` | `FieldsRight` | `FieldsInv` |
| `ListFacts` | what lists of lists flattened hold and where, recursions, least counterexamples | |

All theorems hold for every value of the constants under the assumptions the modules name
(`NodesAssumption`, `BoundsAssumption`, `DefaultsAssumption`, `DisjointNames`, `Bounds`,
`Names`, `Params`, `OptionsAssumption`, `InputAssumption`, `OrderAssumption`, `PlansAssumption`,
`HistoryAssumption`, `SelectionAssumption`, `ViewAssumption`, `FormatAssumption`, `FormsAssumption`: distinct names,
natural bounds, options, plans and controls that are records, texts of at least one line), which TLC evaluates in every run. The type invariants of the four
server modules are among the theorems and are not repeated in the runs.

Only model-checked:
* liveness and everything that needs fairness, which is out of the prover's reach;
* `LineTree` and its refinement, `HighlightWork`, `ScriptMode` and `TextSearch`, which are
  written with RECURSIVE operators because the code is recursive over trees, lines and stacks;
  what they compute for every input would need induction, and the prover has no SMT backend in
  a module that reaches a RECURSIVE operator;
* the remaining modules of the pages: `TextMarks` and `FoldCode`.

Loops over a list (unredoHelper, the tests a page loads, the beginning two sequences share) are
recursive functions or CHOOSE in the modules the theorems are about. What they return for a list
of any length is proved by a least counterexample: the theorems of the library that state
induction take an operator, which the installed provers cannot instantiate, but that a set of
numbers has a least element (`LeastNumber` of `ListFacts`, from `WFMin`) takes none.

### Not modelled

* Login and provisioning: which plugin decides, and what is stored for it, depends on plugins
  outside the repository. The login filter's write for a default account is an action of
  `UserStore`.
* Configuration flags and cluster setup: flags read twice while a watchdog exchanges the
  properties (`Config.java:376`), the peer list in `DynamicCacheConfig` and the check of the
  settings at boot are string work on a copy whose exchange `FileWatch` models.
* Plugins and filters, scheduler and listeners: both are loops over a copy of a list owned by a
  framework (atlassian plugins, Spring's task executor); what happens is decided there.
* Log monitor: the lock object it swaps (`LogMonitorController.java:76`) is a data race on a
  display of the log, which nothing else reads.
* Utilities, home directory, security manager, messages, controllers, SQL and dialect classes:
  functions without state of their own, or text.
* Of codemirror.js: pixels, wrapping, drawing of a line's characters, drag and drop, bracket
  matching; of jquery.form.js the upload by XMLHttpRequest, which is jQuery's; of QUnit the
  assertions and the reporter; of the date picker its place on the page.
* The other modes and add-ons of the editor are tokenizers with tables, of the kind
  `ScriptMode` shows the harder half of; the other scripts draw charts or list time zones.

To repeat the checks: `tlc -config X.cfg MCModule` for a run (`editor` and `page` take about
three minutes each), `tlapm Module.tla` for the proofs. The operators named
`Definition_Variant` and commented "Mutant" are broken variants of the definition below them;
`PROJECT.json` says which property each of them violates.
