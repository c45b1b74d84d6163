------------------------------ MODULE InboxWait ------------------------------
(***************************************************************************)
(* `xfa inbox --wait`: one command polling the posts table for something   *)
(* addressed to its handle, while others post, tombstone and hard-delete.  *)
(*                                                                         *)
(* A tick reads MAX(id) and, when it has moved, the inbox; these are two   *)
(* statements.  What is addressed to a handle is decided by posts alone    *)
(* (replies, threads) and by mentions, whose rows CreatePost inserts one   *)
(* by one after the post itself.                                           *)
(***************************************************************************)
EXTENDS PostLog, FiniteSets

CONSTANTS
  Me,          \* the handle that waits (GetAgent found it)
  MentionsMe,  \* the drafts that mention it
  InboxLimit,  \* --limit
  MaxInserts   \* bound: posts ever written

ASSUME InboxAssumption ==
  /\ Me \in Handles
  /\ MentionsMe \subseteq Drafts
  /\ InboxLimit \in Nat \ {0}
  /\ MaxInserts \in Nat

VARIABLES
  mentioned,  \* the ids with a mentions row for Me
  owed,       \* posts inserted by a CreatePost still to insert that row
  waiting,    \* "idle", "wait" (for a tick) or "query"
  entry,      \* history: the watermark at entry
  since,      \* the watermark
  max,        \* what the last tick read
  result      \* what the last wait returned

waitVars == <<waiting, entry, since, max, result>>
inboxVars == <<posts, seq, mentioned, owed, waiting, entry, since, max, result>>

\* The tree CTE: a top-level post of Me and everything below it.
Thread ==
  LET below[i \in DOMAIN posts] ==
        \/ posts[i].parent = 0 /\ posts[i].author = Me
        \/ posts[i].parent \in DOMAIN posts /\ below[posts[i].parent]
  IN {i \in DOMAIN posts : below[i]}

\* Someone else's post below a post of Me, at once or through a thread it rooted.
Replies ==
  LET thread == Thread IN
  {i \in DOMAIN posts :
     /\ posts[i].author # Me
     /\ \/ posts[i].parent \in DOMAIN posts /\ posts[posts[i].parent].author = Me
        \/ i \in thread}

Mentions == {i \in DOMAIN posts : posts[i].author # Me /\ i \in mentioned}

\* Inbox: the newest, tombstoned ones among them (masked).
Inbox == LET all == Replies \cup Mentions IN
         {i \in all : Cardinality({j \in all : j > i}) < InboxLimit}
-----------------------------------------------------------------------------
WaitInit ==
  /\ LogInit
  /\ mentioned = {}
  /\ owed = {}
  /\ waiting = "idle"
  /\ entry = 0
  /\ since = 0
  /\ max = 0
  /\ result = {}

(***************************************************************************)
(* The other commands                                                      *)
(***************************************************************************)
\* The INSERT of a CreatePost.  The row that mentions Me follows later.
Insert(b, h, d, i) ==
  /\ seq < MaxInserts
  /\ AppendPost(b, h, d, i)
  /\ owed' = IF d \in MentionsMe THEN owed \cup {seq + 1} ELSE owed
  /\ UNCHANGED <<mentioned, waitVars>>

\* The mentions row, or the failure of its retries: it is best effort.
Mention(i) ==
  /\ i \in owed
  /\ owed' = owed \ {i}
  /\ mentioned' \in {mentioned, mentioned \cup {i}}
  /\ UNCHANGED <<logVars, waitVars>>

\* A tombstone, or a hard delete of a post with everything below it.  Mention
\* rows of erased posts, swept or left behind, match nothing in the inbox.
Remove ==
  /\ \E i \in DOMAIN posts :
       \/ Tombstone(i)
       \/ LET below[j \in DOMAIN posts] ==
                \/ j = i
                \/ posts[j].parent \in DOMAIN posts /\ below[posts[j].parent]
          IN Erase({j \in DOMAIN posts : below[j]})
  /\ UNCHANGED <<mentioned, owed, waitVars>>

(***************************************************************************)
(* inboxWait                                                               *)
(***************************************************************************)
\* (Mutant: the watermark starts at the number of posts.)
StartCount ==
  /\ waiting = "idle"
  /\ waiting' = "wait"
  /\ entry' = MaxPostID
  /\ since' = Cardinality(DOMAIN posts)
  /\ result' = {}
  /\ UNCHANGED <<logVars, mentioned, owed, max>>

Start ==
  /\ waiting = "idle"
  /\ waiting' = "wait"
  /\ entry' = MaxPostID
  /\ since' = MaxPostID
  /\ result' = {}
  /\ UNCHANGED <<logVars, mentioned, owed, max>>

\* A tick on which nothing has landed changes nothing.
Tick ==
  /\ waiting = "wait"
  /\ MaxPostID > since
  /\ waiting' = "query"
  /\ max' = MaxPostID
  /\ UNCHANGED <<logVars, mentioned, owed, entry, since, result>>

\* (Mutant: masked tombstones count as news.)
FreshOrMasked == {i \in Inbox : i > since}

Fresh == {i \in Inbox : i > since /\ Live(i)}

\* (Mutant: a query that fails is taken for an empty inbox.)
QuerySwallowsError ==
  /\ waiting = "query"
  /\ max' = 0
  /\ \/ Fresh # {} /\ waiting' = "idle" /\ since' = 0 /\ entry' = 0 /\ result' = Fresh
     \/ waiting' = "wait" /\ since' = max /\ UNCHANGED <<entry, result>>
  /\ UNCHANGED <<logVars, mentioned, owed>>

\* (Mutant: compared with the maximum just read.)
QueryPastMax ==
  /\ waiting = "query"
  /\ max' = 0
  /\ LET fresh == {i \in Inbox : i > max /\ Live(i)} IN
     IF fresh # {}
     THEN waiting' = "idle" /\ since' = 0 /\ entry' = 0 /\ result' = fresh
     ELSE waiting' = "wait" /\ since' = max /\ UNCHANGED <<entry, result>>
  /\ UNCHANGED <<logVars, mentioned, owed>>

\* The query, the filter, and either the return or the move of the watermark.
Query ==
  /\ waiting = "query"
  /\ max' = 0
  /\ IF Fresh # {}
     THEN waiting' = "idle" /\ since' = 0 /\ entry' = 0 /\ result' = Fresh
     ELSE waiting' = "wait" /\ since' = max /\ UNCHANGED <<entry, result>>
  /\ UNCHANGED <<logVars, mentioned, owed>>

\* The deadline, an error of a statement, or the end of the process.
GiveUp ==
  /\ waiting # "idle"
  /\ waiting' = "idle"
  /\ since' = 0
  /\ entry' = 0
  /\ max' = 0
  /\ UNCHANGED <<logVars, mentioned, owed, result>>

WaitNext ==
  \/ \E b \in Boards, h \in Handles, d \in Drafts, i \in {0} \cup DOMAIN posts :
       Insert(b, h, d, i)
  \/ \E i \in owed : Mention(i)
  \/ Remove
  \/ Start
  \/ Tick
  \/ Query
  \/ GiveUp

WaitSpec == WaitInit /\ [][WaitNext]_inboxVars

\* The ticker keeps ticking and a statement returns.  Nothing forces the deadline.
WaitFairSpec == WaitSpec /\ WF_inboxVars(Tick) /\ WF_inboxVars(Query)
-----------------------------------------------------------------------------
(***************************************************************************)
(* Properties                                                              *)
(***************************************************************************)
\* Types, and the watermark never falls behind the entry.
WaitTypeOK ==
  /\ LogTypeOK
  /\ mentioned \subseteq 1..seq
  /\ owed \subseteq 1..seq
  /\ waiting \in {"idle", "wait", "query"}
  /\ entry \in 0..seq
  /\ since \in entry..seq
  /\ max \in 0..seq
  /\ waiting = "query" => max > since
  /\ result \subseteq 1..seq

\* "The watermark moves forward past posts that weren't for us"
\* (cmd/inbox.go:75): never past a live reply that landed during the wait, though
\* MAX(id) and the inbox are read at different times and posts come and go
\* between them.  For a limit no tombstone can crowd a reply out of.
NoReplyPassed ==
  waiting # "idle" =>
    \A i \in Replies : Live(i) => i \notin (entry + 1)..since

\* "blocks until a live inbox post newer than the max id at entry exists,
\* returning those posts" (cmd/inbox.go:73-74): a return brings posts that are
\* live, addressed to the handle and newer than the entry, and every reply among
\* those.
ReturnsTheNews ==
  [][waiting = "query" /\ waiting' = "idle" /\ result' # result =>
       LET news(S) == {i \in S : Live(i) /\ i > entry} IN
       /\ result' \subseteq news(Replies \cup Mentions)
       /\ news(Replies) \subseteq result']_inboxVars

\* "--wait returns as soon as a reply to the handle's post lands"
\* (inbox_test.go:66): a live reply ends the wait, unless the deadline or a delete
\* comes first.
ReplyWakes ==
  (waiting # "idle" /\ \E i \in Replies : Live(i) /\ i > entry)
    ~> (waiting = "idle" \/ ~\E i \in Replies : Live(i) /\ i > entry)

\* "it returns on a reply, a post in your thread, or an @mention" (SKILL.md:31,
\* cmd/inbox.go:73-74): the watermark passes nothing that is in the inbox.
NothingPassed ==
  waiting # "idle" =>
    \A i \in Replies \cup Mentions : Live(i) => i \notin (entry + 1)..since
=============================================================================
