------------------------------- MODULE Install -------------------------------
(***************************************************************************)
(* `xfa init` and `xfa uninstall`: what they do to the files of a project  *)
(* that its agents and the human work with too.                            *)
(*                                                                         *)
(* One xfa command runs at a time; the human's editor does not wait for    *)
(* it, and a command may end anywhere: it is killed, or a step fails.  A   *)
(* file is what the human wrote into it and, under each mark of xfa's (an  *)
(* event of its hooks, or the awareness block), what versions of xfa did.  *)
(* A file of JSON may also be unsound, one that does not parse.  Leftovers *)
(* of the tool's former name, which go as best they can, are left out.     *)
(***************************************************************************)
EXTENDS Binding

CONSTANTS
  Providers,         \* those in use
  Versions,          \* of xfa
  Notes,             \* what a human may write
  Inits, Uninstalls, \* the flags of the commands that are run
  MaxCmds, MaxEdits  \* bounds: commands run, and edits made

ASSUME InstallAssumption ==
  /\ Versions \subseteq Nat \ {0}
  /\ \A i \in Inits : /\ i.mode \in {"plain", "db", "global", "server"}
                       /\ i.env \in {None, "file", "server"}
                       /\ i.slug \in Boards \cup {None}
                       /\ i.providers \in Seq(Providers)
  /\ \A u \in Uninstalls : u.providers \in Seq(Providers) /\ u.all \in BOOLEAN

VARIABLES
  file,     \* each file shared with the human: None if missing
  bak,      \* its .xfa-bak
  skill,    \* each skill directory: the versions of SKILL.md and of the stamp, or 0
  owned,    \* the version of the file that is a provider's integration alone, or 0
  mem,      \* the file the command has read and is about to write, and as what
  late,     \* history: what was done to that file since it was read
  unsaved,  \* history: what was done to it since that which is backed up was read
  used      \* [cmds, edits]

shared == <<file, bak>>
ours == <<skill, owned>>
memVars == <<mem, late, unsaved>>
installVars == <<bindingVars, shared, ours, memVars, used>>

-----------------------------------------------------------------------------
(***************************************************************************)
(* What each provider is given                                             *)
(***************************************************************************)
Settings(p) == CASE p = "claude"      -> "settings"
                 [] p = "codex"       -> "codex-hooks"
                 [] p = "gemini"      -> "gemini-settings"
                 [] p = "antigravity" -> "agents-hooks"
                 [] OTHER             -> None

\* The files uninstall looks for hooks in.
Stripped(p) == IF p = "claude" THEN <<"settings", "settings-local">>
               ELSE IF Settings(p) = None THEN <<>> ELSE <<Settings(p)>>

Rules(p) == CASE p = "claude"                      -> "CLAUDE-md"
              [] p = "gemini"                      -> "GEMINI-md"
              [] p \in {"opencode", "pi", "codex"} -> "AGENTS-md"
              [] OTHER                             -> None

SkillDir(p) == IF p \in {"codex", "antigravity"} THEN "agents" ELSE p

Events(p) == CASE p \in {"claude", "codex"} -> {"SessionStart", "Stop", "SubagentStop", "UserPromptSubmit"}
               [] p = "gemini"              -> {"SessionStart", "BeforeAgent"}
               [] p = "antigravity"         -> {"xfa"}

\* What uninstall removes: of all but antigravity, any provider's events.
Removed(p) == IF p = "antigravity" THEN Events(p)
              ELSE {"SessionStart", "Stop", "SubagentStop", "UserPromptSubmit", "BeforeAgent"}

Jsons == UNION {{Stripped(p)[k] : k \in DOMAIN Stripped(p)} : p \in Providers}
Files == Jsons \cup ({Rules(p) : p \in Providers} \ {None})
Marks == Removed("claude") \cup {"xfa", "block"}

\* A file that is there.
FileState == [notes : SUBSET Notes, ours : [Marks -> Seq(Versions)], sound : BOOLEAN]

ASSUME NoneIsNoFile == None \notin FileState

Empty == [notes |-> {}, ours |-> [m \in Marks |-> <<>>], sound |-> TRUE]
Content(f) == IF file[f] = None THEN Empty ELSE file[f]

\* Entries of xfa's go, and one is appended.
UpsertHookEntry(c, events, v) ==
  [c EXCEPT !.ours = [m \in Marks |-> IF m \in events THEN <<v>> ELSE @[m]]]

RemoveHookEntries(c, events) ==
  [c EXCEPT !.ours = [m \in Marks |-> IF m \in events THEN <<>> ELSE @[m]]]

\* The block is replaced in place, or else appended.
mergeAwarenessBlock(c, v) ==
  [c EXCEPT !.ours["block"] = IF @ = <<>> THEN <<v>> ELSE [@ EXCEPT ![1] = v]]

\* A file that was xfa's alone is removed.
withoutBlock(c) ==
  LET rest == [c EXCEPT !.ours["block"] = Tail(@)] IN IF rest = Empty THEN None ELSE rest

-----------------------------------------------------------------------------
(***************************************************************************)
(* One file                                                                *)
(***************************************************************************)
P == cmd.todo[1]
Installs == cmd.op = "init"
Closed == [f |-> None, was |-> None, out |-> None]

Keep(kept) == UNCHANGED <<pinVars, boardVars, used, kept>>
Shut == mem' = Closed /\ late' = {} /\ unsaved' = {}

\* A file has been read, and will be written as out.
Open(f, out, next) ==
  /\ mem' = [f |-> f, was |-> file[f], out |-> out]
  /\ late' = {} /\ unsaved' = {}
  /\ pc' = next

NextProvider == pc' = "provide" /\ cmd' = [cmd EXCEPT !.todo = Tail(@)]

AfterHooks == IF Installs THEN "rules" ELSE "strip"

\* (Mutant: what there is to back up is what was read to begin with.)
SaveStale ==
  LET f == mem.f IN
  /\ pc = "save"
  /\ \/ file[f] = mem.out /\ pc' = AfterHooks /\ Shut /\ UNCHANGED bak
     \/ /\ pc' = "write"
        /\ bak' = IF mem.was = None THEN bak ELSE [bak EXCEPT ![f] = mem.was]
        /\ unsaved' = {}
        /\ UNCHANGED <<mem, late>>
  /\ Keep(<<file, ours, cmd>>)

\* WriteJSONWithBackup reads the file once more, for the backup.  If nothing changes
\* nothing is written; the bytes may differ where the content does not.
Save ==
  LET f == mem.f IN
  /\ pc = "save"
  /\ \/ file[f] = mem.out /\ pc' = AfterHooks /\ Shut /\ UNCHANGED bak
     \/ /\ pc' = "write"
        /\ bak' = IF file[f] = None THEN bak ELSE [bak EXCEPT ![f] = file[f]]
        /\ unsaved' = {}
        /\ UNCHANGED <<mem, late>>
  /\ Keep(<<file, ours, cmd>>)

Write ==
  /\ At("write", AfterHooks)
  /\ file' = [file EXCEPT ![mem.f] = mem.out]
  /\ Shut
  /\ Keep(<<bak, ours, cmd>>)

\* A rules file is backed up as it was read.
RulesBackUp ==
  /\ At("rules-bak", "rules-write")
  /\ bak' = [bak EXCEPT ![mem.f] = mem.was]
  /\ Keep(<<file, ours, memVars, cmd>>)

RulesWrite ==
  /\ pc = "rules-write"
  /\ file' = [file EXCEPT ![mem.f] = mem.out]
  /\ NextProvider /\ Shut
  /\ Keep(<<bak, ours>>)

-----------------------------------------------------------------------------
(***************************************************************************)
(* Install: skill, hooks or plugin, rules                                  *)
(***************************************************************************)
Ready(op) == pc = "provide" /\ cmd.op = op /\ cmd.todo # <<>>

\* installSkillFiles: never over a newer one; SKILL.md, and then its stamp.
InstallSkill ==
  LET d == SkillDir(P) IN
  /\ Ready("init")
  /\ IF skill[d].stamp > cmd.v THEN pc' = "hooks" /\ UNCHANGED skill
     ELSE pc' = "stamp" /\ skill' = [skill EXCEPT ![d].text = cmd.v]
  /\ Keep(<<shared, owned, memVars, cmd>>)

Stamp ==
  /\ At("stamp", "hooks")
  /\ skill' = [skill EXCEPT ![SkillDir(P)].stamp = cmd.v]
  /\ Keep(<<shared, owned, memVars, cmd>>)

\* ReadJSONObject refuses what does not parse.
InstallHooks ==
  LET f == Settings(P) IN
  /\ pc = "hooks" /\ f # None
  /\ IF Content(f).sound
     THEN Open(f, UpsertHookEntry(Content(f), Events(P), cmd.v), "save") /\ UNCHANGED cmd
     ELSE EndCmd /\ UNCHANGED memVars
  /\ Keep(<<shared, ours>>)

InstallPlugin ==
  /\ At("hooks", "rules") /\ Settings(P) = None
  /\ owned' = [owned EXCEPT ![P] = cmd.v]
  /\ Keep(<<shared, skill, memVars, cmd>>)

upsertAwarenessBlock ==
  LET f == Rules(P)
      out == mergeAwarenessBlock(Content(f), cmd.v)
  IN /\ pc = "rules" /\ f # None
     /\ IF file[f] = out THEN NextProvider /\ UNCHANGED memVars
        ELSE Open(f, out, IF file[f] = None THEN "rules-write" ELSE "rules-bak") /\ UNCHANGED cmd
     /\ Keep(<<shared, ours>>)

\* Antigravity has a rules file of xfa's own.
InstallRule ==
  /\ pc = "rules" /\ Rules(P) = None
  /\ owned' = [owned EXCEPT ![P] = cmd.v]
  /\ NextProvider
  /\ Keep(<<shared, skill, memVars>>)

-----------------------------------------------------------------------------
(***************************************************************************)
(* Uninstall: hooks or plugin, skill, rules; whatever fails, the rest is   *)
(* attempted                                                               *)
(***************************************************************************)
Uninstall ==
  /\ Ready("uninstall") /\ ~cmd.failed
  /\ pc' = "strip" /\ cmd' = [cmd EXCEPT !.strip = Stripped(P)]
  /\ Keep(<<shared, ours, memVars>>)

\* removeXfaHooks: a file without entries of xfa's is left alone.
removeXfaHooks ==
  LET f == cmd.strip[1]
      out == RemoveHookEntries(Content(f), Removed(P))
      fails == ~Content(f).sound
  IN /\ pc = "strip" /\ cmd.strip # <<>>
     /\ cmd' = [cmd EXCEPT !.strip = Tail(@), !.failed = @ \/ fails]
     /\ IF fails \/ out = Content(f) THEN UNCHANGED <<pc, memVars>> ELSE Open(f, out, "save")
     /\ Keep(<<shared, ours>>)

RemovePlugin ==
  /\ At("strip", "unskill") /\ cmd.strip = <<>>
  /\ owned' = IF Settings(P) = None THEN [owned EXCEPT ![P] = 0] ELSE owned
  /\ Keep(<<shared, skill, memVars, cmd>>)

\* RemoveAll, which may fail, or be cut short, half-way.
RemoveSkill ==
  LET d == SkillDir(P) IN
  /\ At("unskill", "unrules")
  /\ \E gone \in SUBSET {"text", "stamp"} :
       /\ skill' = [skill EXCEPT ![d] = [part \in {"text", "stamp"} |-> IF part \in gone THEN 0 ELSE @[part]]]
       /\ cmd' = [cmd EXCEPT !.failed = @ \/ gone # {"text", "stamp"}]
  /\ Keep(<<shared, owned, memVars>>)

removeAwarenessBlock ==
  LET f == Rules(P) IN
  /\ pc = "unrules" /\ f # None
  /\ IF Content(f).ours["block"] = <<>> THEN NextProvider /\ UNCHANGED memVars
     ELSE Open(f, withoutBlock(file[f]), "rules-bak") /\ UNCHANGED cmd
  /\ Keep(<<shared, ours>>)

RemoveRule ==
  /\ pc = "unrules" /\ Rules(P) = None
  /\ owned' = [owned EXCEPT ![P] = 0]
  /\ NextProvider
  /\ Keep(<<shared, skill, memVars>>)

PartFails ==
  /\ cmd.op = "uninstall"
  /\ \/ pc \in {"save", "write"} /\ pc' = "strip" /\ cmd' = [cmd EXCEPT !.failed = TRUE]
     \/ pc = "strip" /\ cmd.strip = <<>> /\ pc' = "unskill" /\ cmd' = [cmd EXCEPT !.failed = TRUE]
     \/ /\ pc \in {"unrules", "rules-bak", "rules-write"} /\ pc' = "provide"
        /\ cmd' = [cmd EXCEPT !.failed = TRUE, !.todo = Tail(@)]
  /\ Shut
  /\ Keep(<<shared, ours>>)

-----------------------------------------------------------------------------
(***************************************************************************)
(* Commands and the human                                                  *)
(***************************************************************************)
Runs == used.cmds < MaxCmds /\ used' = [used EXCEPT !.cmds = @ + 1]

RunInit(i, v) ==
  /\ Runs /\ StartInit(i.mode, i.env, i.slug, i.providers, v)
  /\ UNCHANGED <<shared, ours, memVars>>

RunUninstall(u) ==
  /\ Runs /\ At("idle", "provide")
  /\ cmd' = [op |-> "uninstall", todo |-> u.providers, asked |-> u.providers, all |-> u.all,
             strip |-> <<>>, failed |-> FALSE, req |-> None]
  /\ UNCHANGED <<pinVars, boardVars, shared, ours, memVars>>

\* Every provider is done: the command ends well.
Complete ==
  /\ pc = "provide" /\ cmd.todo = <<>> /\ (~Installs => ~cmd.failed)
  /\ marker' = IF ~Installs /\ cmd.all THEN None ELSE marker
  /\ EndCmd
  /\ UNCHANGED <<xfaDir, ignored, boardVars, shared, ours, memVars, used>>

\* It stops anywhere else: killed, or for a step that failed.
Stop ==
  /\ pc # "idle" /\ StopCmd /\ Shut
  /\ UNCHANGED <<shared, ours, used>>

Edited(f, what) ==
  /\ used.edits < MaxEdits /\ used' = [used EXCEPT !.edits = @ + 1]
  /\ late' = IF mem.f = f THEN late \cup {what} ELSE late
  /\ unsaved' = IF mem.f = f THEN unsaved \cup {what} ELSE unsaved
  /\ UNCHANGED <<bindingVars, bak, ours, mem>>

\* The human adds to a file, or creates it; or leaves JSON that does not parse.
Edit(f, n) ==
  /\ n \notin Content(f).notes
  /\ file' = [file EXCEPT ![f] = [Content(f) EXCEPT !.notes = @ \cup {n}]]
  /\ Edited(f, n)

Garble(f) ==
  /\ f \in Jsons /\ file[f] # None /\ file[f].sound
  /\ file' = [file EXCEPT ![f].sound = FALSE]
  /\ Edited(f, "broken")

InstallInit ==
  /\ BindingInit
  /\ file = [f \in Files |-> None] /\ bak = [f \in Files |-> None]
  /\ skill = [d \in {SkillDir(p) : p \in Providers} |-> [text |-> 0, stamp |-> 0]]
  /\ owned = [p \in Providers |-> 0]
  /\ mem = Closed /\ late = {} /\ unsaved = {}
  /\ used = [cmds |-> 0, edits |-> 0]

FileStep == Save \/ Write \/ RulesBackUp \/ RulesWrite

InstallStep ==
  InstallSkill \/ Stamp \/ InstallHooks \/ InstallPlugin \/ upsertAwarenessBlock \/ InstallRule

UninstallStep ==
  Uninstall \/ removeXfaHooks \/ RemovePlugin \/ RemoveSkill \/ removeAwarenessBlock \/ RemoveRule
  \/ PartFails

InstallNext ==
  \/ \E i \in Inits, v \in Versions : RunInit(i, v)
  \/ \E u \in Uninstalls : RunUninstall(u)
  \/ BindStep /\ UNCHANGED <<shared, ours, memVars, used>>
  \/ \E r \in Registrations : RegisterStep(r) /\ UNCHANGED <<shared, ours, memVars, used>>
  \/ \E r \in Registrations, dir \in Dirs, slug \in Boards \cup {None} :
       Other(r, dir, slug) /\ UNCHANGED <<shared, ours, memVars, used>>
  \/ FileStep
  \/ InstallStep
  \/ UninstallStep
  \/ Complete
  \/ Stop
  \/ \E f \in Files : Garble(f) \/ \E n \in Notes : Edit(f, n)

InstallSpec == InstallInit /\ [][InstallNext]_installVars

-----------------------------------------------------------------------------
(***************************************************************************)
(* Properties                                                              *)
(***************************************************************************)
Saved(f) == IF bak[f] = None THEN Empty ELSE bak[f]

\* A command that changes a file the human works with loses nothing that was there when
\* it read it; what it loses for having come since is in the backup, but for what came
\* after that was read; and it never writes over a file that does not parse, unless it
\* parsed then: "files that aren't JSON objects are refused (never clobbered), a
\* *.xfa-bak backup is taken before writing" (README.md:154; jsonfile.go:48-62).
UserKeepsTheirs ==
  [][\A f \in Files :
       (file[f] # None /\ file'[f] # file[f] /\ used' = used) =>
         /\ file[f].notes \ Content(f)'.notes \subseteq late
         /\ file[f].notes \subseteq Saved(f).notes \cup unsaved
         /\ file[f].sound \/ "broken" \in late
         /\ file[f].sound \/ ~Saved(f).sound \/ "broken" \in unsaved]_installVars

Asked == {cmd.asked[k] : k \in DOMAIN cmd.asked}

\* All that was asked for is there, once and of this version, whatever was there before,
\* beside what a newer xfa put there; and the next command finds the database in which
\* the project was bound to its board, and has stayed so if no registration has bound a
\* directory having missed a binding.
Installed ==
  /\ \A p \in Asked :
       /\ LET f == Settings(p) IN
          IF f = None THEN owned[p] = cmd.v
          ELSE Content(f).sound => \A e \in Events(p) : Content(f).ours[e] = <<cmd.v>>
       /\ LET f == Rules(p) IN
          IF f = None THEN owned[p] = cmd.v ELSE Content(f).ours["block"] = <<cmd.v>>
       /\ LET s == skill[SkillDir(p)] IN s.stamp > cmd.v \/ (s.text = cmd.v /\ s.stamp = cmd.v)
  /\ ResolvePath(cmd.env) = cmd.resolved
  /\ bound[cmd.resolved][Project] = cmd.slug \/ crossed
  /\ cmd.fresh => ignored

\* Nothing of what was asked for is left.
Uninstalled ==
  \A p \in Asked :
    /\ \A k \in DOMAIN Stripped(p) :
         LET c == Content(Stripped(p)[k]) IN c.sound => \A e \in Removed(p) : c.ours[e] = <<>>
    /\ Rules(p) # None => Content(Rules(p)).ours["block"] = <<>>
    /\ owned[p] = 0 /\ skill[SkillDir(p)] = [text |-> 0, stamp |-> 0]

\* "an interrupted or refused init ... strands nothing on disk" (init.go:70-76).
PinsWhatIsBound ==
  (marker' # marker /\ cmd.op = "init" /\ cmd.mode = "server") => bound["server"][Project] # None

\* "an existing binding is never re-pointed" (project_register.go:37-41), nor is a
\* directory carved out of, or captured by, one of another board (103-116); but by a
\* registration that has missed a binding, for its having been made between the check
\* and the write, or for a read that failed and did not stop it (59-65, 99, 105, 119).
BindingsStand ==
  /\ \A e \in Dirs : (bound["server"][e] # None /\ bound'["server"][e] # bound["server"][e]) =>
       \E r \in Registrations : req[r].dir = e /\ e \in unseen[r]
  /\ crossed' \/ \A p \in Inside : LET b == bound'["server"] IN
       b[p[1]] = b[p[2]] \/ b[p[1]] = None \/ b[p[2]] = None

\* A command that ends well has done what it says, over any history of commands that
\* were killed, failed half-way or met other versions; and pins and bindings stand.
CommandsKeepTheirWord ==
  [][/\ Complete => IF Installs THEN Installed ELSE Uninstalled /\ (cmd.all => marker' = None)
     /\ PinsWhatIsBound
     /\ BindingsStand]_installVars
=============================================================================
