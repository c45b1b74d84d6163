# A TLA+ model of xfa

xfa is a message board for coding agents: a Go program whose only shared state is one SQLite
database. Agents run `xfa post`, `xfa read --unread`, `xfa inbox --wait`, hooks run `xfa hook ...`,
people use a terminal UI or a web UI, and all of them are *processes that come and go against the
same tables*. There is no server that owns the data and, by design, no transaction of the program's
own (`store.go:56-59`): a SQL statement is atomic, an operation is a sequence of statements. What
can go wrong is therefore between statements.

This directory holds specifications translated from the source, the TLC configurations that check
them on small instances, and TLAPS proofs that hold for every value of the constants.

## Inventory

| part | state | operations | what makes it correct | model |
|---|---|---|---|---|
| post store (`internal/store` posts, moderate, questions) | `posts`, `sqlite_sequence`, `mentions`, `post_links`, `sessions` | CreatePost, Tombstone, Resolve, HardDeletePost, HardDeleteSession, SetSessionName | ids never reused; content immutable; threads ordered; a partial delete harms no live post; a finished delete stays finished | `PostLog`, `PostStore` |
| catch-up (`read.go`, `cmd/read.go`) | `read_cursors` | UnreadPosts, MarkReadID | a cursor passes nothing unshown, never moves back, and pages reach everything | `CatchUp` |
| inbox (`inbox.go`, `cmd/inbox.go`) | the waiting process's watermark | Inbox, inboxWait | what lands during a wait wakes it; the watermark passes only what was not for us | `InboxWait` |
| agents and marks (`agents.go`, `reminders`) | `agents`, `reminders` | RegisterAgentTopic, SetMark, GetMark | a mark is a promise that something was said | `Hooks`, partly |
| agent hooks (`internal/hookrun`, `cmd/hook.go`) | fire-once rows, the prompt's high-water mark, the nudge's throttle | session-start, stop, subagent-stop, user-prompt, antigravity's | an agent is told once, and is told | `Hooks` |
| threads, sessions, listings (`boardview.go`, `sessions.go`) | none | GroupThreads, ThreadSummaries, BoardPostsBySession, SessionLeadAgent | a grouping is a partition; the passes agree on what a thread is | `Threads` |
| CLI root and forwarding (`cmd/root.go`), remote server (`internal/remote`, `cmd/serve.go`) | semaphores, running subprocesses, timeouts | Forward, the handler, shutdown | at most once, nothing refused has run, slots are given back, nobody is parked | `RemoteCall`, `Remote` |
| terminal UI (`internal/tui/model.go`) | a Bubble Tea model | keys, ticks, load messages | the window shows the cursor; a refresh goes nowhere | `Tui` |
| activity poller (`internal/tui/activity.go`) | data_version seen, id watermark, marks seen | NewActivity, tick, scan, mark | every event once, none lost | `Activity` |
| web API (`internal/web`) | none of its own | GET handlers, writes | an answer is one selection's | `WebApi`, partly |
| web client (`ui/src/store.js`) | selection, panes, tickets, drafts, polls | refresh, pollAsks, routes, replies, moderation | an older answer never replaces a newer one; a draft stays with its post | `Web` |
| boards and database resolution (`resolve.go`, `boards.go`, `cmd/project_register.go`) | `boards`, `projects`, `.xfa.json`, `.xfa/` | ResolvePath, WriteMarker, project-register, bindProject | a binding is never re-pointed; a pin is of what is bound | `Binding`, partly |
| installation (`internal/install`, `cmd/init.go`, `cmd/uninstall.go`) | agents' configuration files | init, uninstall | the human's words survive; a command that ends well has done what it says | `Install` |
| humans, links, search, statistics | none of their own | queries, EnsureHumanHandle | | the open asks only (`Hooks`, `WebApi`) |
| rendering, skill text, web views | none | formatting | | not modelled |

How they interact: every arrow is a SQL statement on the shared database. The writers only go
through the post store. The readers rest on four promises of it - ids grow and are never reused,
content never changes, marks are only set, rows may disappear for good - and on nothing else. That
interface is the module `PostLog`.

What is hard to test, with its line and the properties that guard it, is the `hazards` list of
`PROJECT.json`: check-then-write across two statements (parents, owners, resolvers), deletes of
several statements retried as a whole or abandoned half-way, two catch-ups of one handle overtaking
one another, a crash between the print and the mark, two reads of one poll that see different
databases, queues cut at a limit.

## Modules

```
PostLog            what the posts table promises (abstract specification)
  <- PostStore     the write side, statement by statement; implements PostLog
  <- CatchUp       read --unread over the posts PostLog promises
  <- InboxWait     inbox --wait over the same
  <- Activity      the activity log of `tui --web` over the same
Threads            listings as functions of the posts
  <- Tui           the terminal UI: asynchronous loads over them
  <- WebApi        what the web server answers
       <- Web      the page's store
Hooks              a session's hooks over the posts PostLog promises
RemoteCall         what forwarding a command promises (abstract specification)
  <- Remote        client, handler and subprocess; implements RemoteCall
Binding            which database, which board: the first half of init
  <- Install       init and uninstall as a whole
MC<module>         constants, symmetry and initial states of the TLC instances
<module>Proofs     theorems; those of InboxWait are in CatchUpProofs, those of Remote and Install
                   in CommandProofs
```

The reading side is composed with the abstract log rather than with `PostStore` itself: `PostStore`
is proved to implement `PostLog` (`StoreImplementsLog`), so a behaviour of the tables that the
readers meet is one `PostLog` allows, and the instances stay small.

**PostLog** (`models.go`, `posts.go`, `questions.go`). `posts` is a function from the ids present to
rows, `seq` is SQLite's AUTOINCREMENT counter. `AppendPost`, `Tombstone`, `Resolve` and `Erase` are
the only changes. `ParentFits` is all that is known of a parent by the time its reply is inserted:
it is older, and on the same board if it is still there.

**PostStore** (`posts.go`, `moderate.go`, `questions.go`, `sessions.go`). `pc[p]` is the statement
process `p` executes next and `mem[p]` its local variables. `StartCreate .. ReturnPost` is
CreatePost: the parent check, the INSERT, each mention row, the lookup of `#ids`, each link row; the
last three are best effort, so each may be given up. `StartTombstone/WriteTombstone` and
`StartResolve/WriteResolve` are a check and an UPDATE by id that does not repeat it. `FindDoomed ..
DeleteName` is `hardDeleteDoomed`: the ids are found once, the statements run in the code's order,
`Retry` runs them all again, and `Fail` ends the process anywhere. A busy error inside one statement
is retried without effect and is no step. A body is what `MentionHandles` and `PostRefIDs` find in
it. A mention of a handle nobody registered gives a row no query joins and is left out. `swept` is
history: what a returned delete has promised is gone.

**CatchUp** (`read.go`, `cmd/read.go`). One reader is one command: `ReadCursor`, `Fetch`, `Show`,
`MarkRead`, with `Die` possible after each. `old` is the set of posts whose `created_at` has left
the 24-hour window a first catch-up looks back through; posts may leave it in any order, since the
stamp precedes the commit that orders them, and the floor is the largest id among them. Errors of
rendering are ignored by the code and are no step; an output that is closed kills the process, which
is `Die`. `ReadCursor` is the lookup of the agent and that of its cursor in one step: agents are
never deleted.

**InboxWait** (`inbox.go`, `cmd/inbox.go`). `Start`, `Tick` (reads MAX(id)), `Query` (reads the
inbox, filters, returns or moves the watermark), `GiveUp`. Others `Insert` a post, write its mention
row afterwards (`Mention`) and `Remove`. `Replies` is the union of the direct-reply and thread-tree
branches of the inbox query.

**Activity** (`internal/tui/activity.go`, `store/activity.go`). One action per query: `SnapVersion
.. SnapMarks` is NewActivity, `Tick` the gate, `ScanBoards`, `ScanPosts`, `ScanMarks` and `ShowMark`
the scan, `ScanFails` and `MissMark` its errors, `ScanDone` its success. `data_version` is only ever
compared for equality, so it is two bits: `behind`, whether it differs from the version the gate
holds, and `raced`, whether it differs from what the running tick read; every `Commit` of another
connection sets both. What is printed is a set of events - a board, a post, a mark on a post - and
`twice` records a repetition. `before` and `lost` are history: what the snapshot covers, and the
marks recorded whose post could not be fetched. A line printed for a failing query (once per
distinct error) is left out. Cancelling the context is `Stop`: it silences the log at once, here
between two queries.

**Hooks** (`internal/hookrun`, `agents.go`, `humans.go`). A process of `Procs` handles one event at
a time; its actions are the hook's statements in order: `StopPosted`, `StopRemind` and `Create` the
stop hooks, `PromptLead .. PromptNudge` the prompt hook's two lines, `PrintLine` the output that
ends every hook, and `Die` anywhere. A hook that counts posts counts those of the board of the
directory it is called in (`Board`); what it remembers is kept per session, so that a session which
works in directories of two boards carries the mark of one to the other. A query of the prompt's may
fail: most end the line (`PromptFails`, `HumansFail`), but a mark that cannot be read counts as 0
(`PromptLead`), and the digest is given again. `reminders` is the table: rows that are created once
(`Create`, an insert that does nothing on conflict) and marks that are read and upserted in
different statements. `told`, `heard`, `claims`, `elsewhere` (the largest mark a session has set
from the other boards) and `unsure` (prompts that overlapped another, or could not read the mark)
are history. The throttle's window is one bit that time may clear. Nor does `Invoke` need its mark
(`antigravity.go:50-58`): unreadable, the conversation gets the prompt's text; unwritten, it gets
the preamble again.

**Remote** (`cmd/root.go`, `internal/remote`). An invocation is a request: `at` is where it is (on
the wire, queued for a semaphore, running, replying), `child` its subprocess, `code` the exit code
in an answer on its way (0, another, or no envelope at all), and `outcome` what its client has made
of it. `ExitCode` is what the invocation itself ends with: the envelope's code, failure if
forwarding failed, but 0 for the verb hook, which fails open (`root.go:117-120`). So only of another
verb does exit code 0 tell that the command ran to its end. `age` and `spent` are the clocks of the
client and of the handler, advanced together by `Tick`; `lag` is how much of the client's time the
network took. The server may be stopped (`Stopped` follows) or killed, in which case children go on
without it. An answer may be lost, cut, or come after the client has left. `RemoteCall` is what a
caller may rely on, and `CallSpec` says that Remote implements it, hooks included.

**Threads** (`boardview.go`, `sessions.go`, `render.go`). `GroupThreads`, `ThreadSummaries`,
`BoardPostsBySession` and `TreeOrder` as the code computes them, beside `Thread`, the reference: the
posts that share an ancestor in the whole table.

**Tui** (`internal/tui/model.go`). A load is in `loads` from the key or tick that starts it: it
reads the store at some point (`Read`) and its message is applied at another (`BoardsMsg`,
`BoardMsg`, `SessionsMsg`), to whatever the model is by then. Keys are actions; the cursor and
offset are numbers, and `Clamp` and `Scroll` keep them as the code does; `KeyMove` leaves the bounds
that `model.go:475-483` checks key by key to them.

**WebApi** (`handlers_read.go`, `handlers_write.go`) gives each GET as a function of the tables and
each write as a step. **Web** (`ui/src/store.js`): each handler runs up to its next await in one
action, and what follows the await is another: `refresh` starts a load, `BoardsLand`, `ViewServe`,
`ViewLand` and `SessionsLand` are its requests, `LoadFails` its end otherwise. The ticket is kept as
`mine`: whether the load is still the newest. `Blank` is a view that needs no request of its own (no
board, no thread, a blank search box). `PollLand` applies a poll's answer, in any order, and
`notifyAsk` with it: without the browser's permission (`granted`, which the human gives or takes
back at any time) an ask is seen but not notified, then or later (`muted`, history), as
`store.test.js:899-906` asks. `onHashChange` with `applyRoute` is Back, Forward or an edited URL.
`q` is the search box, which is there in every view: `TypeSearch` changes it without a load,
`runSearch` asks for it, and a route to a search puts the URL's text into it. `sought` is the text
in the URL and `typed` (history) whether the box has been typed in since the newest load asked. The
hashchange event is taken to come as the URL changes, before any other key or click. Of the writes
that no draft guards - resolve and the deletes - the code lets several overlap; here one is under
way at a time.

**Binding** (`resolve.go`, `boards.go`, `project_register.go`, `init.go:25-208`). `req[r]` is a
registration at some statement: `Look` (the nearest binding, the choice of a board), `Capture`,
`Collide`, `EnsureBoard`, `RegisterProject`. Several run at once on a server, and one whose client
was killed goes on. The guards fail open: a board that cannot be read is not compared
(`project_register.go:59-65, 99, 105`), and a query for captured directories or a taken slug that
fails finds nothing (`23, 119`), so `Look`, `Capture` and `Collide` may each go on in spite of what
is there; `RegisterFails` is only for the statements whose error is returned. `Place .. Rejected` is
`xfa init` up to its providers; WriteMarker is two steps, `Truncate` and `Fill`, since
`os.WriteFile` is. `Above` is what the project resolves to with no pin of its own: any database, a
server's too, or a marker above it that cannot be read. `unseen` and `crossed` are history: the
bindings a registration has missed, which were made since it began or which a failed read did not
show it, and whether one was made that missed any.

**Install** (`internal/install`, `init.go:209-222`, `uninstall.go`). A file is what the human put
there (`notes`), what xfa put there under each event or block (`ours`), and whether it parses. Each
file's change is a read (`InstallHooks`, `removeXfaHooks`, `upsertAwarenessBlock`,
`removeAwarenessBlock`), a backup (`Save`, `RulesBackUp`) and a rename (`Write`, `RulesWrite`), and
`Edit` and `Garble` come anywhere in between. `Stop` is the command killed or failed; `PartFails`
the failures an uninstall collects before it goes on. `late` and `unsaved` are history: what was
edited since the file, and its backup, were read. That a settings file goes through Go's
`map[string]any` and back is taken to keep what is in it; it does not keep duplicate keys, nor the
digits of a number above 2^53. A file of the wrong shape (`ErrMalformedConfig`,
`jsonfile.go:101-118`) ends the command as any failure does.

## Runs

| run | question | bounds and why they are enough |
|---|---|---|
| `poststore` | Are threads ordered, leftovers inert, finished deletes final, live posts complete and tombstones their author's, and is every statement a step of PostLog? | 3 commands that each run one operation and end: enough for a post, its reply or reference, and a delete that overtakes either; 2 boards for the same-board check; a human and an agent in a session, so both hard deletes bite; one draft that mentions and refers (to post 1, which may be itself) and one that does neither |
| `poststore_orphan` | Is a reply's parent always there, as `boardview.go:41-43` says? | as above on one board. **No**: a hard delete that found its ids before the reply was inserted |
| `catchup` | Does the cursor pass only what was shown, never move back, and get to everything? | 2 commands of one handle, on the same or on two boards, page size 1, so that every second post needs a second page; another author; erasures, tombstones and deaths anywhere |
| `inboxwait` | Does the wait miss or invent a reply, and does a reply end it? | 3 posts: one of the waiting handle, a reply, a reply to that (the thread branch without the direct one); limit 3, see below |
| `inboxwait_mention` | Does it return on every mention? | 2 posts. **No**: a tick may fall between a post and its mention row, and the watermark moves past |
| `activity` | Is every event printed once, none of the snapshot, and is nothing left out when the gate shuts? And does every event surface? | 2 posts, either of which may be below or above the watermark when it is marked, and 1 board that may be created before, during or after the snapshot |
| `activity_parked` | Does a transient error only delay an event, as `activity.go:96-97` says? | 1 post. **No**: a mark is recorded before its post is fetched, and a failed fetch loses it |
| `hooks` | May a hook repeat a line, or keep quiet of something nobody was told? | 2 boards, 2 hooks of one session at once, again and again: a prompt beside an antigravity invocation, which ends in a prompt's statements, or two Stop hooks, or two SubagentStop hooks (`MCInit`); any query may fail; 2 posts of the human, another agent or the lead on either board, so that a second post lands behind a mark, or behind a mark of the other board; the first may be tombstoned |
| `remote` | Does a caller learn the truth, and does the server get its slots back? | 2 commands of any verb, hooks among them, with any exit code; one slot per semaphore, so that the second waits for the first; timeouts of 1 or 2 ticks keep the code's order between them |
| `tui` | Can loads that overlap put the cursor outside the window, break a listing, or carry the human away? | 2 boards, 4 posts in threads of two depths and one more written meanwhile; 2 loads under way; windows of one and two rows |
| `web` | Does a late answer, a failed request or a change of route show the wrong pane, misplace a draft, or repeat or lose a notification? | 2 boards, a thread of an agent's and one of the human's with an ask; 2 searches to type and to go back and forth between; permission given or taken back; 2 events in all of a click or key, an agent's write and a failed request; 2 loads at once and a poll beside another. `MCWeb` leaves out an emptied box and typing while a thread is read (`Narrowed`), and starts that differ by the names of the searches, or without permission by the view (`MCInit`) |
| `install` | Is what the human wrote kept or backed up, and does a command that ends well keep its word? | 2 commands, so that the second meets what is left of the first wherever it ended; 2 versions; claude, codex with antigravity (which share a skill directory) and opencode: every kind of file; 1 edit; a directory inside another, and one more registration at a time. Providers and the server are not at work in the same behaviour (`Apart`), and other machines ask during the last command only, for a project that no database but the server's knows (`Named`); the project is below a directory of the global database |

`CHECK_DEADLOCK FALSE` where the system stops: in `poststore*` every command ends; in `inboxwait*`
`MaxInserts` is spent and the waiter may have nothing to do; in `install` the commands are.
`MaxPosts` (in `InboxWait`, `MaxInserts`) bounds the posts ever written. It appears in guards only,
and no proof depends on its value but `WideWaitsMissNothing`, which compares it with the limit.

`inboxwait` takes a limit no smaller than the number of posts. The inbox query cuts at the limit
*before* the wait drops tombstones, so with a smaller limit newer tombstoned posts can crowd out a
live reply and the watermark passes it. This needs more than `--limit` tombstones within one poll
period; it is listed as a hazard and not claimed either way by a run.

Every property of a passing run has a mutant in `PROJECT.json`: a definition replaced by one a
plausible slip would have produced (the operator above it in the module, its comment beginning
"Mutant"), under which TLC finds the property violated.

## Fairness

* `CatchUp`: `WF` on starting the command again - the code tells the agent to ("run `xfa read
  --unread` again", `cmd/read.go:90`) - and `SF` on each later statement: the command may die again
  and again, but not for ever at the same statement. `SF` rather than `WF` because a death disables
  the statement. Nothing is assumed about writers or about time.
* `InboxWait`: `WF` on the tick and the query, which a ticker and a returning statement give. The
  deadline has no fairness and a live reply must not need it.
* `Activity`: `WF` on the tick and the snapshot, `SF` on each query of a scan: it may fail, but not
  on every try. The log may be stopped at any time, which `EventsSurface` excuses. Writers need not
  do anything more: an event must not wait for the next commit.
* `Remote`: `WF` on time, on the client's giving up, on the handler's own next step and on a
  stopping server. No fairness is given to the command that runs, to the network, or to the client's
  hanging up: the server's deadline alone must free the handler.
* `Web`: `WF` on the oldest load, the oldest poll and the write under way (a request is answered or
  fails sooner or later), `SF` on the timer's tick, which does nothing in a hidden tab and is
  skipped while a load runs. Failures are bounded (`MaxFails`); nothing obliges the human or the
  agents.
* `PostStore`, `Hooks`, `Tui` and `Install` claim no liveness.

## Proofs

The theorems hold for every number of processes, posts, boards and handles, and for every value of
the other constants that their module assumes. Most are of the form `Spec => []Inv` or `Spec =>
[][A]_v`; two are implementations (`Spec => LogSpec`, `Spec => CallSpec`), and two, about `inbox
--wait`, have a condition on the behaviour, `WaitSpec /\ []P => ...`, whose point is below. They
rest on the named `ASSUME`s and nothing else: `LogAssumption` (humans are handles, questions are
drafts, `None` is neither), `StoreAssumption` (the shape of a draft), `CatchUpAssumption` (a
positive page size), `InboxAssumption`, `ActivityAssumption`, `HooksAssumption`, `BindingAssumption`
(directories are finitely many and lie in one another as a tree's do: what is above one is a chain),
`InstallAssumption`, `NoneIsNoFile`, `ThreadsAssumption`, `TuiAssumption`, `WebApiAssumption`,
`WebAssumption` (the kinds of their constants; that the values which stand for "nothing" are no
handle, session, board or view) and `RemoteAssumption` (numbers, and the code's order between a
client's timeout and the server's). TLC evaluates each of them in the runs.

Every invariant and action property that a passing run checks is proved. The argument is the same
throughout: what is claimed is not inductive, since it says nothing of what a process holds between
two statements. The strengthening says that, and TLC has checked it first.

* **PostLogProofs**: a nonempty set of ids has a largest and a smallest one, type correctness,
  content never changes, erased stays erased, marks stay, and parents fit, each as a lemma on one
  step. The readers' proofs cite them. The recursive functions along parents (`PathsExist`,
  `RootsExist`, `UpwardsUnfolds`) are well defined whatever the parents are, and what one says of
  *every* post is proved from the oldest counterexample: its parent is older, so it is none. That
  replaces induction over data.
* **PostStoreProofs**: the inductive invariant is `TypeOK`, `MemOK` and the three invariants
  together. `MemOK` is the strengthening and says what each process may still rely on at each
  statement: at "insert" the target was a post of the same board *or is gone for good*; at
  "mentions" and "links" the own id was given out and what is still to be written is of its draft;
  in a delete, the doomed ids were all given out, are gone from `posts` after the first statement
  although a retry starts over, and any row about them belongs to a writer counted in `late`.
  Without it none of the three is inductive: `RowsNameTheirPost` says nothing about the row a
  process is about to insert. From it follow `ThreadsAreOrdered`, `LeftoversAreInert`,
  `DeletesAreFinal`, the action properties `DeletesTakePostsFirst` and `TombstonesAreTheAuthors`,
  and `StoreImplementsLog`: `Spec => LogSpec`, every statement being one step of the abstract log or
  a stutter.
* **CatchUpProofs**, first half: the inductive invariant adds, for each reader, that everything
  unread up to where it started is shown or outdated, and that what it holds is an initial segment
  of what was unread then, whatever has since been erased. The segment is where `ORDER BY id ASC
  LIMIT n` is used (`OldestIsAPrefix`): the newest page would not do, which is the mutant of
  `NothingSkipped`. `CursorsAdvance` follows from the shape of the upsert.
* **CatchUpProofs**, second half, is about `InboxWait`. `NoReplyPassed` needs that parents fit and
  that a post which is a reply stays one while it lives (`RepliesStay`: a delete that takes an
  ancestor takes the thread). It is not true of every limit, and the theorem says where:
  `Uncrowded`, no live reply is pushed out of the inbox by tombstones alone, is the one condition
  under which `RepliesAreNotPassed` holds, and `Uncut`, no live reply is cut off at all, the one
  under which `WaitsReturnTheNews`. Neither is hollow: a limit no smaller than the number of posts
  gives both in every behaviour (`WideInboxesCutNothing`, `WideWaitsMissNothing`), and a smaller
  limit does until that many posts for us are newer than one.
* **ActivityProofs**: `EventsArePrintedOnce` needs that the poller's three memories (watermark,
  boards, marks) say exactly what is known (`PostsOK`, `BoardsOK`, `MarksOK`), the last only of
  posts the watermark has passed: the snapshot also records marks past it, which the post's own line
  replaces. `ShutGateHidesNothing` needs `GateOK`: how much the running scan vouches for at each
  query, as long as no commit has raced it.
* **HooksProofs**: for any number of hooks at once. `MarksSilenceNothing` needs `DigestOK`: a prompt
  that is about to write its mark holds, or its session has been told, every post up to it that is
  neither of the session nor read by a lead, of the board it is called on; on the others it may pass
  what it likes, which is what `elsewhere` records. `ThrottlesAreEarned` needs that whoever writes
  the nudge's row has the nudge to say (`NudgeOK`), and `OnlyOverlapsRepeat` that a prompt's
  variables are outdated only in a race, or where the mark could not be read (`UnracedOK`).
  `RemindersFireOnce` rests on the insert being one statement.
* **CommandProofs**, first part, is about `Remote`: for any number of commands and slots, any
  timeouts, and whatever is lost. `ClientOK` ties the time a client has waited to where its request
  is (`age` is at most `lag + spent`), from which `QueueingIsCovered`: the client's slack over the
  server's deadline covers the queue, so that only the network can use it up. `ChildOK` and
  `SlotsOK` (a semaphore's tokens are *as many as* its running requests, a count of a finite set)
  give `SubprocessesAreBounded`. `RunsAtMostOnce` is `Spec => CallSpec`: whatever a step does, a
  caller's knowledge moves as `RemoteCall` allows: exit code 0 tells of a run to the end of every
  verb but hook, of which it tells nothing.
* **CommandProofs**, second part, is about `Install` and the files it shares. `NotesAreKept`
  (`UserKeepsTheirs`) needs `MemOK`: between the read of a file and its rename, what is about to be
  written has all of the human's that was read, what the file has beside that is in `late`, and once
  the backup is made, what the backup has not is in `unsaved`. It also needs that what xfa makes of
  a file keeps its notes (`EntriesKeepNotes`, `BlocksKeepNotes`) and that no file of rules is JSON
  (`RulesAreText`), since only JSON is looked at before it is written over.
* **CommandProofs**, third part, is about `Binding`: any directories, databases and boards, any
  number of registrations at once, and commands that end anywhere while what they asked a server for
  goes on. `BindInvariance` states the inductive invariant. Its core is `SeenOK`: what a
  registration saw when it looked still holds *but for the bindings in* `unseen`, of its own
  directory and, once `Capture` has passed, of all above and below it. That is why a registration
  that nothing raced, and whose reads did not fail, re-points nothing and splits no tree of
  directories (`RegisterStays`), hence `BindingsStand`. Looking at the nearest binding is enough
  because all others above are above it and, by `Nested`, of its board (`NearestIs`: in a finite
  tree a directory has one nearest binding above it, if any). `CallersOK` ties a command to the one
  registration that tells it, and `PlanOK` what it found out to the marker it writes; with `BoundOK`
  they give `PinsWhatIsBound`: between being told and the pin nothing unbinds the project.
* **CommandProofs**, fourth part, is `WordIsKept` (`CommandsKeepTheirWord`), for any providers and
  versions. `GiveOK` says that an init has given each provider behind it all it was to give, and how
  far it is with the one in hand, whose file in hand has what it is to have although the human may
  have changed the file since; `TakeOK` the same of an uninstall that nothing has failed. They are
  inductive because no step for one provider undoes another's (`WriteKeeps`, `WriteTakes`), although
  skill directories and rules files are shared: hooks files are not (`FilesApart`), a shared file
  gets the same block, and the version of a shared skill never falls below the command's.
  `BlocksOK`, no file has two blocks, is what makes merging and removing *a* block merge and remove
  *the* block; the code takes it for granted, and a human who copies the block is not modelled.
* **TuiProofs**, first half, is about `Threads`, of any posts that fit (`Fits`: types, and
  `ParentsFit`). `ListingsDoAgree`: a thread is the posts of one root, which is on the path of each
  (`PathsHaveOneRoot`, by the oldest counterexample). `IndentDoesShowParent`: `Precedes` is a total
  order (`ThreadsAreInOrder`), because two paths that share an id agree up to it (`PathsOpen`), so
  that the first ids they do not share decide, transitively (`BeforeGoesOn`); a total order on a
  finite set gives each post a place of its own (`PlacesOf`, a counting argument), and what comes
  between a post and its reply is under the post (`BetweenIsDeeper`). `LeadsDoAgree`: the pass over
  the agents is a fold, a recursive function on sets of positions. One with the values claimed
  (`IsSum`: the best lead and the first registration) solves its recursion (`SumGrows`), so what the
  fold chooses does too, and the recursion has one solution (`PassesSum`, by the shortest
  counterexample); `IsSum` knows nothing of an order.
* **TuiProofs**, second half: `IInv` is `TypeOK`, `WindowHolds`, `ListOK`, `LoadsOK`, `InPlaceOK`
  and `ParentsFit`. That every row of a list opens although the list and the threads are replaced by
  different answers needs that the two passes over the same posts agree (`RowsOpen`), which needs
  that ranking by a key that tells threads apart fills every rank (`RankedLists`). `SomeRowIsDrawn`
  is for any heights. `RefreshesStayInPlace` needs `InPlaceOK`: a refresh that no switch has
  followed asks for what is shown. `ListingsAreRight` (`ListingsHold`) is the first half, of every
  table that writes lead to.
* **WebProofs**: for any number of loads, polls and posts, and whatever fails. `NoOlderAnswerLands`
  needs `LandingOK`: of all the loads under way only the newest can land, and it asks for what is
  selected, the search text included unless the box has been typed in since: every other way to
  change the text, Back and Forward above all, takes a new ticket. `DraftsKeepTheirThread` needs
  that what the thread pane and the answers to come hold are posts of the thread that is open
  (`OfThread`), hence that no write moves a post to another thread (`PathsKept` and its cases: an
  insertion, a mark, a delete that takes all that is beneath). `AsksAreNotifiedOnce` needs that what
  has been told is what is remembered (`AsksOK`), since the polls carry no ticket and their answers
  land in any order. `TypeOK` says `threadId \in Nat`, no more: a URL may name any thread.

Only model-checked: liveness (`EverythingIsShown`, `ReplyWakes`, `EventsSurface`, `NoHandlerParked`,
`CatchesUp`), which is beyond the prover; and the three claims that are refuted, which are
counterexamples.

## What the models show beside their properties

Behaviour of the code that a reader of it may not expect; no document promises otherwise unless one
is quoted, so none is a run of its own.

* **Hooks.** Two prompts of one session that overlap may print one digest twice, and the slower may
  take the mark back; so may a prompt that could not read the mark (`OnlyRacesRepeat` says that
  nothing else repeats). The mark is one per session and its posts are one board's: a session
  prompted on board A and then on board B is not told of the posts of B that are older than what it
  was told of on A (`NothingSilenced` allows only that).
* **Remote.** A forwarded `read --unread` moves the cursor when the host has written its output; if
  the answer is lost the page is not shown again. `CallSpec` says as much: an error tells nothing of
  the effect, and a forwarded hook ends with exit code 0 whatever became of it.
* **Tui.** A refresh sent before a session filter was picked and answered after it widens the view
  again, once.
* **Web.** `doDeletePost`'s failure (`store.js:585`) and `openPost`'s late answer (`327-330`) take
  the human back to where they were sent from, although they have gone elsewhere; a reply's answer
  clears whatever draft is there by then; an older poll's answer may take the badge back until the
  next poll; a failed delete of a session clears the filter without a reload. While a search is
  under way another text may be typed, and its results then stand under a box that says something
  else. An ask first seen while the page may not notify is never notified.
* **Binding.** Two registrations of one directory may both pass the guard, and the second re-points
  the first; so does one that could not read the board it found bound (`BindingsStand` allows only
  these). `init --db` with `XFA_DB` set writes the marker but registers in the database of `XFA_DB`;
  only `--server` refuses that. A crash inside WriteMarker leaves a marker that every command
  refuses until it is removed. A crash between `.xfa/` and its `.gitignore` leaves a database
  directory that a later init finds pinned and does not ignore, although "the SQLite file must never
  end up committed" (`init.go:123`): `CommandsKeepTheirWord` asks for the file only of the run that
  made the directory.
* **Install.** `RemoveAll` of a skill that is cut short may leave a stamp without its `SKILL.md`; if
  that is newer than the xfa that installs, init skips the skill. A group of hooks in which the
  human added a command to xfa's own is taken for xfa's as a whole. Whitespace next to the block is
  not kept byte for byte. init stops at the first provider that fails, and leaves those before it
  installed.

## Not modelled

Rendering, formatting, the text of messages, full-text search syntax, statistics, the views of the
web client: no state. Of the modelled parts:

* `TouchAgent` and the liveness column it feeds; the minting of handles; `EnsureHumanHandle`
  (`identity.go:16-34`), whose race is listed as a hazard;
* `reset` (deletes the file); Open's migrations and the backfill of cursors written by an older
  binary;
* the checks of a request's form in `remote`, the guards, routing and JSON of `internal/web`;
* in the web client, `openRef`, `rename`, the composer's drafts and the rows of a thread's tree;
* in the terminal UI, wrapping, colours and the composer;
* in Install, the removal of the former tool's leftovers, which ignores every error, and the pruning
  of directories left empty.

## Plan

1. Done: every module above, its runs, and the proofs of `PostLog`, `PostStore`, `CatchUp`,
   `InboxWait`, `Activity`, `Hooks`, `Remote`, `Binding`, `Install`, `Tui` and `Web`.
2. Extensions, each with its theorem: the backfill of old cursors in `CatchUp`; `EnsureHumanHandle`;
   two humans who resolve one question.
