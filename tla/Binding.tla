------------------------------- MODULE Binding -------------------------------
(***************************************************************************)
(* Which database a project uses, and which board it is bound to there:    *)
(* the first half of `xfa init`, and `project-register`, which a server    *)
(* runs for it.                                                            *)
(*                                                                         *)
(* A project is pinned by a marker file or by its own .xfa directory;      *)
(* failing both, what is above it decides.  A registration is a check      *)
(* followed by writes, each a statement of its own; on a server, those of  *)
(* several clients interleave, and one whose client has given up goes on.  *)
(***************************************************************************)
EXTENDS Naturals, FiniteSets, Sequences

CONSTANTS
  Dirs,     \* directories known to some database
  Inside,   \* pairs <<d, e>>: d lies somewhere below e
  Project,  \* the one init is run in
  Boards,   \* board slugs
  Derived,  \* the slug made of a directory's name
  Above,    \* what Project resolves to with neither a marker nor .xfa: what a
            \* directory above it names or has, or else the global database
  Elsewhere,\* the projects of the global database
  Registrations, \* under way at once
  None

Databases == {"global", "local", "file", "server"}  \* "file" is what --db names
IsRemote(d) == d = "server"

ASSUME BindingAssumption ==
  /\ None \notin Databases \cup {"torn"} \cup Boards \cup Registrations
  /\ IsFiniteSet(Dirs) /\ Inside \subseteq Dirs \X Dirs
  /\ \A d, e, f \in Dirs :
       /\ <<d, d>> \notin Inside
       /\ <<d, e>> \in Inside /\ <<e, f>> \in Inside => <<d, f>> \in Inside
       /\ <<d, e>> \in Inside /\ <<d, f>> \in Inside
            => e = f \/ <<e, f>> \in Inside \/ <<f, e>> \in Inside
  /\ Project \in Dirs
  /\ Derived \in [Dirs -> Boards]
  /\ Above \in Databases \cup {"torn"}
  /\ Elsewhere \in [Dirs -> Boards \cup {None}]

VARIABLES
  marker,   \* .xfa.json: None, the database it names, or "torn"
  xfaDir,   \* whether .xfa is there
  ignored,  \* whether .xfa/.gitignore is
  boards,   \* the boards table of each database
  bound,    \* its projects table: the board of each directory
  req,      \* each registration
  unseen,   \* history: the bindings each of them has missed: made since it began, or
            \* that a read of its own failed to show it
  crossed,  \* history: whether one of them bound a directory having missed any
  cmd, pc   \* the xfa command under way in Project, and where it is

pinVars == <<marker, xfaDir, ignored>>
boardVars == <<boards, bound, req, unseen, crossed>>
bindingVars == <<pinVars, boardVars, cmd, pc>>

Free == [pc |-> "free", db |-> None, dir |-> None, slug |-> None]
NoCmd == [op |-> None, req |-> None]

BindingInit ==
  /\ marker = None /\ xfaDir = FALSE /\ ignored = FALSE
  /\ bound = [d \in Databases |-> [e \in Dirs |-> IF d = "global" THEN Elsewhere[e] ELSE None]]
  /\ boards = [d \in Databases |-> {bound[d][e] : e \in Dirs} \ {None}]
  /\ req = [r \in Registrations |-> Free]
  /\ unseen = [r \in Registrations |-> {}]
  /\ crossed = FALSE
  /\ cmd = NoCmd /\ pc = "idle"

\* Not a database if the marker is unreadable: every command then fails loudly.
ResolvePath(env) ==
  IF env # None THEN env
  ELSE IF marker # None THEN marker
  ELSE IF xfaDir THEN "local"
  ELSE Above

-----------------------------------------------------------------------------
(***************************************************************************)
(* Registration: project-register, and bindProject                         *)
(***************************************************************************)
Go(r, to) == req' = [req EXCEPT ![r].pc = to] /\ UNCHANGED unseen

Misses(r, dirs) == unseen' = [unseen EXCEPT ![r] = @ \cup dirs]

Forget(r) == req' = [req EXCEPT ![r] = Free] /\ unseen' = [unseen EXCEPT ![r] = {}]

\* Whoever waits for it is told.
End(r, how) == IF cmd.req = r THEN Go(r, how) ELSE Forget(r)

Ask(r, at, db, dir, slug) ==
  /\ req[r].pc = "free"
  /\ req' = [req EXCEPT ![r] = [pc |-> at, db |-> db, dir |-> dir, slug |-> slug]]
  /\ unseen' = [unseen EXCEPT ![r] = {}]

\* ResolveProject: the directory itself, or the nearest one above that is bound.
Nearest(d, dir) ==
  {e \in Dirs : /\ bound[d][e] # None /\ (e = dir \/ <<dir, e>> \in Inside)
                /\ ~\E f \in Dirs : /\ bound[d][f] # None /\ <<f, e>> \in Inside
                                    /\ f = dir \/ <<dir, f>> \in Inside}

\* Without --board the request joins the board of the nearest binding, or else the
\* only one there is.  Bound to another, there or above, it is refused; but a board
\* that cannot be read is not compared with the one that --board names.
Look(r) ==
  LET q == req[r]
      near == Nearest(q.db, q.dir)
      theirs == {bound[q.db][e] : e \in near}
      choice == IF q.slug # None THEN {q.slug}
                ELSE IF near # {} THEN theirs
                ELSE IF Cardinality(boards[q.db]) = 1 THEN boards[q.db]
                ELSE {}
      another == near # {} /\ theirs # choice
  IN /\ q.pc = "look"
     /\ \/ (choice = {} \/ another) /\ End(r, "refused")
        \/ /\ choice # {}
           /\ req' = [req EXCEPT ![r].pc = IF near = {q.dir} THEN "ensure" ELSE "capture",
                                 ![r].slug = CHOOSE b \in choice : TRUE]
           /\ Misses(r, IF another THEN near ELSE {})
     /\ UNCHANGED <<boards, bound, crossed>>

\* A new binding must not be above another; if the query fails it goes on as well.
Capture(r) ==
  LET q == req[r]
      below == {e \in Dirs : <<e, q.dir>> \in Inside /\ bound[q.db][e] # None}
  IN /\ q.pc = "capture"
     /\ \/ below # {} /\ End(r, "refused")
        \/ req' = [req EXCEPT ![r].pc = "ensure"] /\ Misses(r, below)
     /\ UNCHANGED <<boards, bound, crossed>>

\* A slug made of the directory's name must not be another project's; if the query
\* fails it goes on.
Collide(r) ==
  LET q == req[r] IN
  /\ q.pc = "collide"
  /\ \/ (\E e \in Dirs \ {q.dir} : bound[q.db][e] = q.slug) /\ End(r, "refused")
     \/ Go(r, "ensure")
  /\ UNCHANGED <<boards, bound, crossed>>

EnsureBoard(r) ==
  LET q == req[r] IN
  /\ q.pc = "ensure"
  /\ boards' = [boards EXCEPT ![q.db] = @ \cup {q.slug}]
  /\ Go(r, "register")
  /\ UNCHANGED <<bound, crossed>>

\* An upsert: it re-points a binding that is there by now.
RegisterProject(r) ==
  LET q == req[r] IN
  /\ q.pc = "register"
  /\ bound' = [bound EXCEPT ![q.db][q.dir] = q.slug]
  /\ unseen' = [p \in Registrations |-> CASE p = r -> {}
                                    [] p # r /\ req[p].db = q.db -> unseen[p] \cup {q.dir}
                                    [] OTHER -> unseen[p]]
  /\ crossed' = (crossed \/ unseen[r] # {})
  /\ req' = [req EXCEPT ![r] = IF cmd.req = r THEN [@ EXCEPT !.pc = "done"] ELSE Free]
  /\ UNCHANGED boards

\* A statement fails that it does not do without, or whoever runs it is killed.
RegisterFails(r) ==
  /\ req[r].pc \in {"look", "capture", "collide", "ensure", "register"}
  /\ End(r, "refused")
  /\ UNCHANGED <<boards, bound, crossed>>

RegisterStep(r) ==
  /\ Look(r) \/ Capture(r) \/ Collide(r) \/ EnsureBoard(r) \/ RegisterProject(r)
     \/ RegisterFails(r)
  /\ UNCHANGED <<pinVars, cmd, pc>>

\* Another machine's init.
Other(r, dir, slug) ==
  /\ Ask(r, "look", "server", dir, slug)
  /\ UNCHANGED <<pinVars, boards, bound, crossed, cmd, pc>>

-----------------------------------------------------------------------------
(***************************************************************************)
(* xfa init, up to the providers                                           *)
(***************************************************************************)
At(here, to) == pc = here /\ pc' = to
EndCmd == pc' = "idle" /\ cmd' = NoCmd

\* mode is the flag that names a database, env is XFA_DB, and slug is --board.
StartInit(mode, env, slug, providers, v) ==
  /\ At("idle", "place")
  /\ cmd' = [op |-> "init", mode |-> mode, env |-> env, slug |-> slug, todo |-> providers,
             asked |-> providers, v |-> v, resolved |-> None, req |-> None, fresh |-> FALSE]
  /\ UNCHANGED <<pinVars, boardVars>>

Pinned == cmd.env # None \/ ResolvePath(cmd.env) # "global"

\* (Mutant: a server is pinned before it has been asked.)
PlacePinsServer ==
  LET refused == CASE cmd.mode = "server" -> cmd.env \notin {None, "server"} \/ xfaDir
                   [] cmd.mode = "db"     -> marker = "torn"
                   [] cmd.mode = "global" -> ResolvePath(cmd.env) = "torn" \/ Pinned
                   [] cmd.mode = "plain"  -> ResolvePath(cmd.env) = "torn"
      creates == cmd.mode = "plain" /\ ~Pinned
  IN /\ pc = "place"
     /\ IF refused THEN EndCmd
        ELSE /\ pc' = CASE cmd.mode \in {"db", "server"} -> "pin"
                        [] creates -> "mkdir"
                        [] OTHER -> "resolve"
             /\ cmd' = [cmd EXCEPT !.fresh = creates]
     /\ UNCHANGED <<pinVars, boardVars>>

\* What nothing pins goes local, unless --global.
Place ==
  LET refused == CASE cmd.mode = "server" -> cmd.env \notin {None, "server"} \/ xfaDir
                   [] cmd.mode = "db"     -> marker = "torn"
                   [] cmd.mode = "global" -> ResolvePath(cmd.env) = "torn" \/ Pinned
                   [] cmd.mode = "plain"  -> ResolvePath(cmd.env) = "torn"
      creates == cmd.mode = "plain" /\ ~Pinned
  IN /\ pc = "place"
     /\ IF refused THEN EndCmd
        ELSE /\ pc' = CASE cmd.mode = "db" -> "pin" [] creates -> "mkdir" [] OTHER -> "resolve"
             /\ cmd' = [cmd EXCEPT !.fresh = creates]
     /\ UNCHANGED <<pinVars, boardVars>>

MakeDir ==
  /\ At("mkdir", "ignore")
  /\ xfaDir' = TRUE
  /\ UNCHANGED <<marker, ignored, boardVars, cmd>>

\* One that is there is left alone.
Ignore ==
  /\ At("ignore", "resolve")
  /\ ignored' = TRUE
  /\ UNCHANGED <<marker, xfaDir, boardVars, cmd>>

\* WriteMarker: the file is emptied and then filled.
Truncate ==
  /\ pc = "pin"
  /\ IF marker = "torn" THEN EndCmd /\ UNCHANGED marker
     ELSE At("pin", "fill") /\ marker' = "torn" /\ UNCHANGED cmd
  /\ UNCHANGED <<xfaDir, ignored, boardVars>>

Fill ==
  /\ At("fill", IF cmd.mode = "db" THEN "resolve" ELSE "provide")
  /\ marker' = IF cmd.mode = "db" THEN "file" ELSE "server"
  /\ UNCHANGED <<xfaDir, ignored, boardVars, cmd>>

\* The registration is asked for, of the server or in the database itself.
Resolve ==
  LET d == IF cmd.mode = "server" THEN "server" ELSE ResolvePath(cmd.env)
      slug == IF cmd.slug = None /\ ~IsRemote(d) THEN Derived[Project] ELSE cmd.slug
      at == IF IsRemote(d) THEN "look" ELSE IF cmd.slug = None THEN "collide" ELSE "ensure"
  IN /\ pc = "resolve"
     /\ \E r \in Registrations :
          /\ Ask(r, at, d, Project, slug)
          /\ pc' = "bind" /\ cmd' = [cmd EXCEPT !.resolved = d, !.req = r]
     /\ UNCHANGED <<pinVars, boards, bound, crossed>>

\* Only now is a project pinned to a server.
Accepted ==
  /\ pc = "bind" /\ req[cmd.req].pc = "done"
  /\ pc' = IF cmd.mode = "server" THEN "pin" ELSE "provide"
  /\ cmd' = [cmd EXCEPT !.slug = req[cmd.req].slug, !.req = None]
  /\ Forget(cmd.req)
  /\ UNCHANGED <<pinVars, boards, bound, crossed>>

\* With several boards to choose from, the human picks one of them or names another.
Rejected ==
  /\ pc = "bind" /\ req[cmd.req].pc = "refused"
  /\ \/ /\ IsRemote(cmd.resolved) /\ cmd.slug = None /\ Cardinality(boards[cmd.resolved]) > 1
        /\ \E b \in Boards :
             /\ cmd' = [cmd EXCEPT !.slug = b]
             /\ req' = [req EXCEPT ![cmd.req].pc = "look", ![cmd.req].slug = b]
             /\ unseen' = [unseen EXCEPT ![cmd.req] = {}]
        /\ UNCHANGED pc
     \/ EndCmd /\ Forget(cmd.req)
  /\ UNCHANGED <<pinVars, boards, bound, crossed>>

\* The command fails or is killed.  A registration of its own ends with it; what it
\* has asked a server for may yet be done.
StopCmd ==
  /\ EndCmd
  /\ IF cmd.req # None /\ (~IsRemote(cmd.resolved) \/ req[cmd.req].pc \in {"done", "refused"})
     THEN Forget(cmd.req) ELSE UNCHANGED <<req, unseen>>
  /\ UNCHANGED <<pinVars, boards, bound, crossed>>

BindStep ==
  Place \/ MakeDir \/ Ignore \/ Truncate \/ Fill \/ Resolve \/ Accepted \/ Rejected
=============================================================================
