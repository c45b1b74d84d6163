------------------------------- MODULE CatchUp -------------------------------
(***************************************************************************)
(* `xfa read --unread`: catching up on a board through the per-(handle,    *)
(* board) cursor of read_cursors, while the board is written to.           *)
(*                                                                         *)
(* A reader is one running command.  It reads the cursor, fetches the      *)
(* oldest unread posts, prints them and only then moves the cursor: four   *)
(* steps between which posts land, are tombstoned or erased, other         *)
(* commands of the same handle do the same, and after any of which the     *)
(* command may die.                                                        *)
(***************************************************************************)
EXTENDS PostLog, FiniteSets

CONSTANTS
  Readers,   \* running `read --unread` commands
  Limit,     \* --limit
  MaxPosts,  \* bound: posts ever written
  NoRow      \* no read_cursors row

ASSUME CatchUpAssumption ==
  /\ Limit \in Nat \ {0}
  /\ MaxPosts \in Nat
  /\ NoRow \notin Nat

VARIABLES
  cursor,  \* read_cursors.last_read_id
  old,     \* each board's posts whose created_at left freshCursorWindow (24h)
  pc,
  who,     \* the handle a reader acts as
  board,   \* the board it reads
  from,    \* the cursor position it found
  got,     \* the posts it fetched
  shown    \* history: the posts printed to each handle

readVars == <<cursor, old, pc, who, board, from, got, shown>>
vars == <<posts, seq, cursor, old, pc, who, board, from, got, shown>>

\* unreadAfterID over unreadBase.
Unread(b, after, h) ==
  {i \in DOMAIN posts : /\ Live(i)
                        /\ posts[i].board = b
                        /\ posts[i].author # h
                        /\ i > after}

\* ORDER BY id ASC LIMIT n.
Oldest(n, S) == {i \in S : Cardinality({j \in S : j < i}) < n}
Newest(n, S) == {i \in S : Cardinality({j \in S : j > i}) < n}

\* With no row, the last post, live or not, older than the window.
Floor(b) == Largest(old[b] \cap DOMAIN posts)

\* Ids of a board no younger than one that has left the window.
Outdated(b) == {i \in 1..seq : \E j \in old[b] : i <= j}
-----------------------------------------------------------------------------
Init ==
  /\ LogInit
  /\ cursor = [h \in Handles |-> [b \in Boards |-> NoRow]]
  /\ old = [b \in Boards |-> {}]
  /\ pc = [r \in Readers |-> "idle"]
  /\ who \in [Readers -> Handles]
  /\ board \in [Readers -> Boards]
  /\ from = [r \in Readers |-> 0]
  /\ got = [r \in Readers |-> {}]
  /\ shown = [h \in Handles |-> {}]

Step(r, at, to) == pc[r] = at /\ pc' = [pc EXCEPT ![r] = to]

\* The command ends and its variables are gone.
End(r) ==
  /\ pc' = [pc EXCEPT ![r] = "idle"]
  /\ from' = [from EXCEPT ![r] = 0]
  /\ got' = [got EXCEPT ![r] = {}]

\* readCursorID.
ReadCursor(r) ==
  /\ Step(r, "idle", "fetch")
  /\ LET cur == cursor[who[r]][board[r]] IN
     from' = [from EXCEPT ![r] = IF cur = NoRow THEN Floor(board[r]) ELSE cur]
  /\ UNCHANGED <<logVars, cursor, old, who, board, got, shown>>

\* (Mutant: newest first, like the other listings.)
FetchNewest(r) ==
  /\ Step(r, "fetch", "print")
  /\ got' = [got EXCEPT ![r] = Newest(Limit, Unread(board[r], from[r], who[r]))]
  /\ UNCHANGED <<logVars, cursor, old, who, board, from, shown>>

\* The query fetches one more than it shows, only to tell that there is more.
Fetch(r) ==
  /\ Step(r, "fetch", "print")
  /\ got' = [got EXCEPT ![r] = Oldest(Limit, Unread(board[r], from[r], who[r]))]
  /\ UNCHANGED <<logVars, cursor, old, who, board, from, shown>>

\* (Mutant: the mark is moved even when nothing was shown.)
ShowAlwaysMark(r) ==
  /\ Step(r, "print", "mark")
  /\ shown' = [shown EXCEPT ![who[r]] = @ \cup got[r]]
  /\ UNCHANGED <<logVars, cursor, old, who, board, from, got>>

\* Nothing shown, nothing to advance.
Show(r) ==
  /\ pc[r] = "print"
  /\ IF got[r] = {} THEN End(r)
     ELSE Step(r, "print", "mark") /\ UNCHANGED <<from, got>>
  /\ shown' = [shown EXCEPT ![who[r]] = @ \cup got[r]]
  /\ UNCHANGED <<logVars, cursor, old, who, board>>

\* (Mutant: the upsert overwrites.)
MarkReadOverwrite(r) ==
  /\ pc[r] = "mark"
  /\ cursor' = [cursor EXCEPT ![who[r]][board[r]] = Largest(got[r])]
  /\ End(r)
  /\ UNCHANGED <<logVars, old, who, board, shown>>

\* (Mutant: an UPDATE, which matches no row the first time.)
MarkReadUpdateOnly(r) ==
  /\ pc[r] = "mark"
  /\ cursor' = [cursor EXCEPT ![who[r]][board[r]] =
                  IF @ = NoRow THEN NoRow ELSE Largest({@} \cup got[r])]
  /\ End(r)
  /\ UNCHANGED <<logVars, old, who, board, shown>>

\* MarkReadID: one upsert, MAX(COALESCE(last_read_id, 0), id).
MarkRead(r) ==
  /\ pc[r] = "mark"
  /\ cursor' = [cursor EXCEPT ![who[r]][board[r]] =
                  IF @ = NoRow THEN Largest(got[r]) ELSE Largest({@} \cup got[r])]
  /\ End(r)
  /\ UNCHANGED <<logVars, old, who, board, shown>>

\* A statement fails for good, the output is closed, or the command is killed.
Die(r) ==
  /\ pc[r] # "idle"
  /\ End(r)
  /\ UNCHANGED <<logVars, cursor, old, who, board, shown>>

\* The board, as PostLog promises it.  Neither a draft nor a parent is looked at.
Write ==
  /\ \/ /\ seq < MaxPosts
        /\ \E b \in Boards, h \in Handles, d \in Drafts : AppendPost(b, h, d, 0)
     \/ \E i \in DOMAIN posts : Tombstone(i) \/ Erase({i})
  /\ UNCHANGED readVars

\* Time passes.  Posts need not leave the window in the order of their ids:
\* created_at is stamped before the commit that orders them (models.go:50-51).
GrowOld(i) ==
  /\ i \notin old[posts[i].board]
  /\ old' = [old EXCEPT ![posts[i].board] = @ \cup {i}]
  /\ UNCHANGED <<logVars, cursor, pc, who, board, from, got, shown>>

Read(r) == ReadCursor(r) \/ Fetch(r) \/ Show(r) \/ MarkRead(r)

Next ==
  \/ \E r \in Readers : Read(r) \/ Die(r)
  \/ Write
  \/ \E i \in DOMAIN posts : GrowOld(i)

Spec == Init /\ [][Next]_vars

\* An agent that keeps catching up: the command is run again and again, and does
\* not die for ever at the same statement.
Fairness ==
  \A r \in Readers : /\ WF_vars(ReadCursor(r))
                     /\ SF_vars(Fetch(r))
                     /\ SF_vars(Show(r))
                     /\ SF_vars(MarkRead(r))

FairSpec == Spec /\ Fairness
-----------------------------------------------------------------------------
(***************************************************************************)
(* Properties                                                              *)
(***************************************************************************)
\* Types; a row points at a post that was written, never at 0 ("Nothing shown ->
\* nothing to advance", read.go:84), and only a command about to print or mark
\* holds posts.
TypeOK ==
  /\ LogTypeOK
  /\ cursor \in [Handles -> [Boards -> (1..seq) \cup {NoRow}]]
  /\ old \in [Boards -> SUBSET (1..seq)]
  /\ pc \in [Readers -> {"idle", "fetch", "print", "mark"}]
  /\ who \in [Readers -> Handles]
  /\ board \in [Readers -> Boards]
  /\ from \in [Readers -> 0..seq]
  /\ got \in [Readers -> SUBSET (1..seq)]
  /\ \A r \in Readers :
       /\ pc[r] \in {"idle", "fetch"} => got[r] = {}
       /\ pc[r] = "idle" => from[r] = 0
  /\ shown \in [Handles -> SUBSET (1..seq)]

\* The point of an id cursor (models.go:47-54): a live post the cursor of its
\* board has passed was printed to that handle, or precedes a post of the board
\* that has left the 24-hour window of a first catch-up.  Whatever was posted,
\* tombstoned or erased meanwhile, whatever other commands of the handle did,
\* wherever one died, and although the cursor on another board moved.
NothingSkipped ==
  \A h \in Handles, b \in Boards : cursor[h][b] # NoRow =>
    Unread(b, 0, h) \cap (1..cursor[h][b]) \subseteq shown[h] \cup Outdated(b)

\* "advances the handle's read cursor on the board to id, never backwards"
\* (read.go:190-191), with any number of slower commands behind.
CursorOnlyAdvances ==
  [][\A h \in Handles, b \in Boards : cursor[h][b] # NoRow =>
       cursor'[h][b] # NoRow /\ cursor'[h][b] >= cursor[h][b]]_cursor

\* "more unread - run `xfa read --unread` again" (cmd/read.go:90): doing so gets
\* to every post that stays live and within the window, page by page.
EverythingIsShown ==
  \A r \in Readers, i \in 1..MaxPosts :
    LET new == i \in Unread(board[r], 0, who[r]) \ Outdated(board[r]) IN
    new ~> i \in shown[who[r]] \/ ~new
=============================================================================
