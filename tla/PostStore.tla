------------------------------ MODULE PostStore ------------------------------
(***************************************************************************)
(* The write side of internal/store, statement by statement.               *)
(*                                                                         *)
(* Every CLI command, every hook and every request of the web UI runs      *)
(* CreatePost, Tombstone, Resolve, HardDeletePost, HardDeleteSession or    *)
(* SetSessionName against one SQLite database.  The store opens no         *)
(* transaction of its own (store.go:56-59): a SQL statement is atomic, an  *)
(* operation is not, and between two statements of one process those of    *)
(* any other may run.  A process here is one such command; it executes one *)
(* operation and ends, or dies at any point.                               *)
(*                                                                         *)
(* Boards and agents are only ever inserted (registration comes before an  *)
(* operation that needs it), so Boards and Handles are the rows that       *)
(* exist.  agents.last_seen_at, written at the end of CreatePost by        *)
(* TouchAgent, is read by no operation of this module and is left out.     *)
(***************************************************************************)
EXTENDS PostLog

CONSTANTS
  Procs,      \* commands and requests
  Sessions,   \* agents.session_id values
  SessionOf,  \* the session a handle was registered under, if any
  NoSession   \* registered under no session; the argument of a HardDeletePost

\* A draft is the tag and what MentionHandles and PostRefIDs find in the body:
\* the handles it mentions and the ids it refers to, which need not exist.
Draft == [question: BOOLEAN, at: SUBSET Handles, refs: SUBSET (Nat \ {0})]

ASSUME StoreAssumption ==
  /\ Drafts \subseteq Draft
  /\ Questions = {d \in Drafts : d.question}
  /\ SessionOf \in [Handles -> Sessions \cup {NoSession}]
  /\ NoSession \notin Sessions

VARIABLES
  mentions,  \* mentions rows: <<post_id, handle>>
  links,     \* post_links rows: <<source_post_id, target_post_id>>
  named,     \* session ids with a row in sessions
  pc,        \* the statement each process executes next
  mem,       \* the process's own variables
  swept      \* history: the ids whose rows a hard delete reported gone

tables == <<posts, seq, mentions, links, named>>
vars == <<posts, seq, mentions, links, named, pc, mem, swept>>

Statement == {"insert", "mentions", "links", "tombstone", "resolve", "doom",
              "delPosts", "delMentions", "delLinks", "delName"}

\* by: the acting handle.  target: the parent, or the post acted on; 0 is none.
\* own: the id CreatePost inserted.  todo: mentions still to insert.  ids: link
\* targets still to insert, or the doomed ids.  late: see DeleteMentions.
Memory == [by: Handles \cup {None}, board: Boards \cup {None},
           draft: Drafts \cup {None}, target: Nat,
           session: Sessions \cup {NoSession}, own: Nat,
           todo: SUBSET Handles, ids: SUBSET Nat, late: SUBSET Nat]

Blank == [by |-> None, board |-> None, draft |-> None, target |-> 0,
          session |-> NoSession, own |-> 0, todo |-> {}, ids |-> {}, late |-> {}]

Goto(p, s) == pc' = [pc EXCEPT ![p] = s]
Load(p, m) == mem' = [mem EXCEPT ![p] = m]

\* The operation returns or the process dies: its variables are gone with it.
End(p) == Goto(p, "done") /\ Load(p, Blank)
-----------------------------------------------------------------------------
Init ==
  /\ LogInit
  /\ mentions = {}
  /\ links = {}
  /\ named = {}
  /\ pc = [p \in Procs |-> "new"]
  /\ mem = [p \in Procs |-> Blank]
  /\ swept = {}

(***************************************************************************)
(* CreatePost                                                              *)
(***************************************************************************)
\* (Mutant: the parent's board is not compared.)
StartCreateAnyBoard(p, h, b, d, i) ==
  /\ pc[p] = "new"
  /\ i # 0 => i \in DOMAIN posts
  /\ Goto(p, "insert")
  /\ Load(p, [Blank EXCEPT !.by = h, !.board = b, !.draft = d, !.target = i])
  /\ UNCHANGED <<tables, swept>>

\* The checks before the INSERT.  A refused post changes nothing, so only
\* accepted ones start.
StartCreate(p, h, b, d, i) ==
  /\ pc[p] = "new"
  /\ i # 0 => i \in DOMAIN posts /\ posts[i].board = b
  /\ Goto(p, "insert")
  /\ Load(p, [Blank EXCEPT !.by = h, !.board = b, !.draft = d, !.target = i])
  /\ UNCHANGED <<tables, swept>>

\* (Mutant: a plain INTEGER PRIMARY KEY, one more than the largest id present.)
NewIdReused ==
  CHOOSE i \in 1..(seq + 1) :
    (i = 1 \/ i - 1 \in DOMAIN posts) /\ \A j \in DOMAIN posts : j < i

\* A new rowid: AUTOINCREMENT never gives one out again.
NewId == seq + 1

InsertPost(p) ==
  /\ pc[p] = "insert"
  /\ posts' = [j \in DOMAIN posts \cup {NewId} |->
                 IF j = NewId
                 THEN NewPost(mem[p].board, mem[p].by, mem[p].draft, mem[p].target)
                 ELSE posts[j]]
  /\ seq' = NewId
  /\ Goto(p, "mentions")
  /\ Load(p, [mem[p] EXCEPT !.own = NewId, !.todo = mem[p].draft.at])
  /\ UNCHANGED <<mentions, links, named, swept>>

\* One mention row per mentioned handle, best effort: a row whose insert keeps
\* failing is given up and the post stands.
AddMention(p, h) ==
  /\ pc[p] = "mentions"
  /\ h \in mem[p].todo
  /\ mentions' \in {mentions, mentions \cup {<<mem[p].own, h>>}}
  /\ Load(p, [mem[p] EXCEPT !.todo = @ \ {h}])
  /\ UNCHANGED <<posts, seq, links, named, pc, swept>>

\* The referenced ids that exist now, or none when even this read fails.
LookupRefs(p) ==
  /\ pc[p] = "mentions"
  /\ mem[p].todo = {}
  /\ \E found \in {{}, (mem[p].draft.refs \cap DOMAIN posts) \ {mem[p].own}} :
       Load(p, [mem[p] EXCEPT !.ids = found])
  /\ Goto(p, "links")
  /\ UNCHANGED <<tables, swept>>

AddLink(p, t) ==
  /\ pc[p] = "links"
  /\ t \in mem[p].ids
  /\ links' \in {links, links \cup {<<mem[p].own, t>>}}
  /\ Load(p, [mem[p] EXCEPT !.ids = @ \ {t}])
  /\ UNCHANGED <<posts, seq, mentions, named, pc, swept>>

ReturnPost(p) ==
  /\ pc[p] = "links"
  /\ mem[p].ids = {}
  /\ End(p)
  /\ UNCHANGED <<tables, swept>>

(***************************************************************************)
(* Tombstone and Resolve: a read that decides, then an UPDATE by id that   *)
(* does not repeat the condition and is content to match no row.           *)
(***************************************************************************)
\* (Mutant: the owner is not compared.)
StartTombstoneAnyones(p, h, i) ==
  /\ pc[p] = "new"
  /\ i \in DOMAIN posts
  /\ Goto(p, "tombstone")
  /\ Load(p, [Blank EXCEPT !.by = h, !.target = i])
  /\ UNCHANGED <<tables, swept>>

StartTombstone(p, h, i) ==
  /\ pc[p] = "new"
  /\ i \in DOMAIN posts
  /\ posts[i].author = h
  /\ Goto(p, "tombstone")
  /\ Load(p, [Blank EXCEPT !.by = h, !.target = i])
  /\ UNCHANGED <<tables, swept>>

WriteTombstone(p) ==
  /\ pc[p] = "tombstone"
  /\ posts' = [i \in DOMAIN posts |->
                 IF i = mem[p].target THEN [posts[i] EXCEPT !.tombed = TRUE] ELSE posts[i]]
  /\ End(p)
  /\ UNCHANGED <<seq, mentions, links, named, swept>>

StartResolve(p, h, i) ==
  /\ pc[p] = "new"
  /\ i \in DOMAIN posts
  /\ Closable(i)
  /\ posts[i].resolvedBy = None
  /\ Goto(p, "resolve")
  /\ Load(p, [Blank EXCEPT !.by = h, !.target = i])
  /\ UNCHANGED <<tables, swept>>

WriteResolve(p) ==
  /\ pc[p] = "resolve"
  /\ posts' = [i \in DOMAIN posts |->
                 IF i = mem[p].target THEN [posts[i] EXCEPT !.resolvedBy = mem[p].by]
                 ELSE posts[i]]
  /\ End(p)
  /\ UNCHANGED <<seq, mentions, links, named, swept>>

(***************************************************************************)
(* HardDeletePost and HardDeleteSession                                    *)
(***************************************************************************)
StartDeletePost(p, i) ==
  /\ pc[p] = "new"
  /\ i \in DOMAIN posts
  /\ Goto(p, "doom")
  /\ Load(p, [Blank EXCEPT !.target = i])
  /\ UNCHANGED <<tables, swept>>

\* A session that nothing is known of is refused.
StartDeleteSession(p, s) ==
  /\ pc[p] = "new"
  /\ s \in named \/ \E h \in Handles : SessionOf[h] = s
  /\ Goto(p, "doom")
  /\ Load(p, [Blank EXCEPT !.session = s])
  /\ UNCHANGED <<tables, swept>>

\* doomedPostSubtreeCTE: the seeds and everything below them.  A parent is
\* older than its replies, so the recursion descends.
Subtree(seeds) ==
  LET doomed[i \in DOMAIN posts] ==
        \/ i \in seeds
        \/ posts[i].parent \in DOMAIN posts /\ doomed[posts[i].parent]
  IN {i \in DOMAIN posts : doomed[i]}

Seeds(m) ==
  IF m.session = NoSession THEN {m.target} \cap DOMAIN posts
  ELSE {i \in DOMAIN posts : SessionOf[posts[i].author] = m.session}

\* (Mutant: the mentions go first.)
FindDoomedMentionsFirst(p) ==
  /\ pc[p] = "doom"
  /\ Goto(p, "delMentions")
  /\ Load(p, [mem[p] EXCEPT !.ids = Subtree(Seeds(mem[p]))])
  /\ UNCHANGED <<tables, swept>>

\* The read-only query that fixes the doomed ids once and for all retries.
\* With none left, only the extra statement remains to be run.
FindDoomed(p) ==
  LET ids == Subtree(Seeds(mem[p])) IN
  /\ pc[p] = "doom"
  /\ IF ids # {}
     THEN Goto(p, "delPosts") /\ Load(p, [mem[p] EXCEPT !.ids = ids])
     ELSE IF mem[p].session # NoSession
          THEN Goto(p, "delName") /\ UNCHANGED mem
          ELSE End(p)
  /\ UNCHANGED <<tables, swept>>

\* (Mutant: the emptied table's rowid sequence is reset with it.)
DeletePostsAndSequence(p) ==
  /\ pc[p] = "delPosts"
  /\ posts' = [i \in DOMAIN posts \ mem[p].ids |-> posts[i]]
  /\ seq' = 0
  /\ Goto(p, "delMentions")
  /\ UNCHANGED <<mentions, links, named, mem, swept>>

DeletePosts(p) ==
  /\ pc[p] = "delPosts"
  /\ posts' = [i \in DOMAIN posts \ mem[p].ids |-> posts[i]]
  /\ Goto(p, "delMentions")
  /\ UNCHANGED <<seq, mentions, links, named, mem, swept>>

\* A CreatePost that has yet to write rows naming d: they will outlive a delete
\* that runs now.
Writing(d) ==
  \E q \in Procs : pc[q] \in {"mentions", "links"} /\ d \in {mem[q].own} \cup mem[q].ids

DeleteMentions(p) ==
  /\ pc[p] = "delMentions"
  /\ mentions' = {m \in mentions : m[1] \notin mem[p].ids}
  /\ Goto(p, "delLinks")
  /\ Load(p, [mem[p] EXCEPT !.late = {d \in mem[p].ids : Writing(d)}])
  /\ UNCHANGED <<posts, seq, links, named, swept>>

\* The closure returns nil: the caller is told the rows are gone.
Swept(m) == swept' = swept \cup (m.ids \ m.late)

DeleteLinks(p) ==
  LET m == [mem[p] EXCEPT !.late = @ \cup {d \in mem[p].ids : Writing(d)}] IN
  /\ pc[p] = "delLinks"
  /\ links' = {l \in links : l[1] \notin m.ids /\ l[2] \notin m.ids}
  /\ IF m.session # NoSession
     THEN Goto(p, "delName") /\ Load(p, m) /\ UNCHANGED swept
     ELSE End(p) /\ Swept(m)
  /\ UNCHANGED <<posts, seq, mentions, named>>

\* HardDeleteSession's extra statement.
DeleteName(p) ==
  /\ pc[p] = "delName"
  /\ named' = named \ {mem[p].session}
  /\ End(p)
  /\ Swept(mem[p])
  /\ UNCHANGED <<posts, seq, mentions, links>>

\* (Mutant: a statement that fails is skipped, as CreatePost's are.)
RetryNextStatement(p) ==
  /\ pc[p] = "delMentions"
  /\ Goto(p, "delLinks")
  /\ UNCHANGED <<tables, mem, swept>>

\* withBusyRetry runs the whole closure again, over the ids found once.
Retry(p) ==
  /\ pc[p] \in {"delMentions", "delLinks", "delName"}
  /\ mem[p].ids # {}
  /\ Goto(p, "delPosts")
  /\ UNCHANGED <<tables, mem, swept>>

(***************************************************************************)
(* SetSessionName: one upsert.                                             *)
(***************************************************************************)
SetSessionName(p, s) ==
  /\ pc[p] = "new"
  /\ named' = named \cup {s}
  /\ End(p)
  /\ UNCHANGED <<posts, seq, mentions, links, swept>>

\* An error that is not worth a retry, retries exhausted, or the process killed.
Fail(p) ==
  /\ pc[p] \in Statement
  /\ End(p)
  /\ UNCHANGED <<tables, swept>>
-----------------------------------------------------------------------------
Begin(p) ==
  \/ \E h \in Handles, b \in Boards, d \in Drafts, i \in {0} \cup DOMAIN posts :
       StartCreate(p, h, b, d, i)
  \/ \E h \in Handles, i \in DOMAIN posts : StartTombstone(p, h, i)
  \/ \E h \in Handles, i \in DOMAIN posts : StartResolve(p, h, i)
  \/ \E i \in DOMAIN posts : StartDeletePost(p, i)
  \/ \E s \in Sessions : StartDeleteSession(p, s)
  \/ \E s \in Sessions : SetSessionName(p, s)

Continue(p) ==
  \/ InsertPost(p)
  \/ \E h \in Handles : AddMention(p, h)
  \/ LookupRefs(p)
  \/ \E t \in mem[p].ids : AddLink(p, t)
  \/ ReturnPost(p)
  \/ WriteTombstone(p)
  \/ WriteResolve(p)
  \/ FindDoomed(p)
  \/ DeletePosts(p)
  \/ DeleteMentions(p)
  \/ DeleteLinks(p)
  \/ DeleteName(p)
  \/ Retry(p)
  \/ Fail(p)

Next == \E p \in Procs : Begin(p) \/ Continue(p)

Spec == Init /\ [][Next]_vars
-----------------------------------------------------------------------------
(***************************************************************************)
(* Properties                                                              *)
(***************************************************************************)
\* Rows and process variables have their types, no row lies beyond the rowid
\* sequence, and only a running process holds anything.
TypeOK ==
  /\ LogTypeOK
  /\ mentions \subseteq (1..seq) \X Handles
  /\ links \subseteq (1..seq) \X (1..seq)
  /\ named \subseteq Sessions
  /\ pc \in [Procs -> {"new", "done"} \cup Statement]
  /\ mem \in [Procs -> Memory]
  /\ \A p \in Procs : pc[p] \notin Statement => mem[p] = Blank
  /\ swept \subseteq 1..seq

\* "a parent is always inserted before its replies" (read.go:89-90) and "parents
\* are same-board by CreatePost validation" (boardview.go:42-43), whatever was
\* deleted between CreatePost's check of the parent and its INSERT.  RootOf,
\* GroupThreads and ThreadSummaries climb or scan threads in this order.
RepliesFollowParents ==
  \A i \in DOMAIN posts :
    LET parent == posts[i].parent IN
    parent # 0 => /\ parent < i
                  /\ parent \in DOMAIN posts => posts[parent].board = posts[i].board

\* The argument of moderate.go:57-65 for deleting without a transaction: a
\* mention or link row left behind by a partial or overtaken delete is inert.
\* No such row ever comes to belong to a post that does not carry it.
RowsNameTheirPost ==
  /\ \A m \in mentions : m[1] \in DOMAIN posts => m[2] \in posts[m[1]].draft.at
  /\ \A l \in links : /\ l[1] \in DOMAIN posts => l[2] \in posts[l[1]].draft.refs
                      /\ l[1] # l[2]

\* Why the doomed ids are resolved once, before the retry loop
\* (moderate.go:46-55): when a hard delete reports success, its posts, and every
\* row about them that no CreatePost was still writing, are gone and stay gone,
\* whichever statement had to be retried.
SweptStaysClean ==
  /\ swept \cap DOMAIN posts = {}
  /\ \A m \in mentions : m[1] \notin swept
  /\ \A l \in links : l[1] \notin swept /\ l[2] \notin swept

\* Why posts go before mentions (moderate.go:57-61): at no point, and so at no
\* point of failure either, is a post still there that lost a mention row or a
\* link to a post still there.
LivePostsKeepTheirRows ==
  [][/\ \A m \in mentions \ mentions' : m[1] \notin DOMAIN posts'
     /\ \A l \in links \ links' : ~({l[1], l[2]} \subseteq DOMAIN posts')]_vars

\* Tombstone checks the owner in one statement and writes in another
\* (posts.go:193-199); a post is still tombstoned by a command of its author only.
OnlyAuthorTombstones ==
  [][\A i \in DOMAIN posts \cap DOMAIN posts' :
       posts'[i].tombed /\ ~posts[i].tombed =>
         \E p \in Procs : pc[p] = "tombstone" /\ mem[p].by = posts[i].author]_vars

\* Every statement is a step of the abstract log or does not touch it: content
\* is immutable, marks are never taken back, an id is never used twice.
ImplementsLog == LogSpec

\* boardview.go:41-43: "A reply whose parent is missing from the fetch cannot
\* happen (parents are same-board by CreatePost validation)".
NoOrphanReplies ==
  \A i \in DOMAIN posts : posts[i].parent \in {0} \cup DOMAIN posts
=============================================================================
