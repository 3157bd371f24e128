---------------------------- MODULE MCConsoleLink ----------------------------
(***************************************************************************)
(* Instances of ConsoleLink for TLC.  d1 is configured, d2 can be added.   *)
(***************************************************************************)
EXTENDS ConsoleLink

CONSTANTS d1, d2

MCDirs   == {d1, d2}
MCConfig == {d1}

\* Every command with d1, and with d2 those that d1 does not show: the first
\* add, and what is refused of an unknown directory.
MCCommands == {Command(op, d1) : op \in {"add", "cancel", "status", "sync", "shutdown"}}
              \union {Command(op, d2) : op \in {"add", "sync"}}

\* Those that answer at once.
MCShortCommands == {Command(op, d) : op \in {"add", "cancel", "status"}, d \in MCDirs}
=============================================================================
