----------------------------- MODULE MCInstall -----------------------------
(* Instances of Install for TLC. *)
EXTENDS Install, TLC

CONSTANTS outer, here, b1, b2, r1, r2

MCInside == {<<here, outer>>}
MCDerived == [d \in Dirs |-> IF d = here THEN b1 ELSE b2]
MCElsewhere == [d \in Dirs |-> IF d = outer THEN b1 ELSE None]

Flags(mode, env, slug, providers) == [mode |-> mode, env |-> env, slug |-> slug, providers |-> providers]
Lists == {<<"claude">>, <<"codex", "antigravity">>, <<"opencode">>}

\* Every way to name a database, without providers; and providers, in one of the
\* project's own.
MCInits ==
  {Flags(m, None, None, <<>>) : m \in {"plain", "db", "global", "server"}}
  \cup {Flags("plain", "server", b1, <<>>), Flags("db", "server", None, <<>>),
        Flags("server", "file", b1, <<>>), Flags("server", None, b1, <<>>)}
  \cup {Flags("plain", None, b1, l) : l \in Lists}
MCUninstalls == {[providers |-> l, all |-> FALSE] : l \in Lists} \cup {[providers |-> <<>>, all |-> TRUE]}

\* The server is at work while no provider is.
Untouched ==
  /\ \A f \in Files : file[f] = None
  /\ \A d \in DOMAIN skill : skill[d].text = 0
  /\ cmd # NoCmd => cmd.asked = <<>>
Apart == Untouched \/ (boards["server"] = {} /\ \A r \in Registrations : req[r].db # "server")

\* Other machines name b2, and ask while the last command does; the one before it has
\* bound the project nowhere but on the server.
Named == \A r \in Registrations : (req[r].pc = "free" /\ req'[r].db = "server" /\ pc' # "bind") =>
  /\ req'[r].slug = b2
  /\ used.cmds = MaxCmds /\ cmd.op = "init" /\ (cmd.mode = "server" \/ cmd.env = "server")
  /\ bound["global"][here] = None /\ boards["local"] \cup boards["file"] = {}

\* Without providers the version makes no difference.
Plain == (cmd' # NoCmd /\ cmd'.op = "init" /\ cmd'.asked = <<>>) => cmd'.v = 1

MCSpec == InstallInit /\ [][InstallNext /\ Apart' /\ Named /\ Plain]_installVars

Alike == Permutations(Registrations)
=============================================================================
