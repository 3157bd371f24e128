---------------------------- MODULE ScriptQueries ----------------------------
(***************************************************************************)
(* The queries of fss_script.sh over the manager's log.  Their pipelines   *)
(* keep two kinds of lines, reports of full syncs and "Monitoring started" *)
(* or "Monitoring stopped", and of a line the second it was written in,    *)
(* its directory and which of the three it is.  As every pipeline sorts    *)
(* what it keeps, the log is the set of its lines.                         *)
(*                                                                         *)
(* A definition marked as a slip is no part of the specification: it is    *)
(* the definition after it with one plausible mistake.                     *)
(***************************************************************************)
EXTENDS Naturals

Line(at, what, dir) == [at |-> at, what |-> what, dir |-> dir]

DirsOf(lines) == {l.dir : l \in lines}

FullLines(log)       == {l \in log : l.what = "FULL"}
MonitoringLines(log) == {l \in log : l.what \in {"started", "stopped"}}

\* A slip: sort without -r.
SortedUpwards(l, k) == \/ l.at < k.at
                       \/ l.at = k.at /\ l.what = "started" /\ k.what = "stopped"

\* sort -r compares the lines as text: the stamp first, and of two lines of
\* one second "stopped" comes before "started".
Before(l, k) == \/ l.at > k.at
                \/ l.at = k.at /\ l.what = "stopped" /\ k.what = "started"

\* A slip: sort -u without a key keeps every line.
EveryLine(lines) == lines

\* sort -k -u: of the lines of each directory, the first.
FirstOfEach(lines) == {l \in lines : \A k \in lines : k.dir = l.dir => ~Before(k, l)}

\* What the last line about monitoring says of each directory.
LastSaid(log, what) == {l.dir : l \in {k \in FirstOfEach(MonitoringLines(log)) : k.what = what}}

\* The three queries: a row has a directory and the stamp of its last full sync.
listAll(log)       == FirstOfEach(FullLines(log))
listMonitored(log) == {l \in listAll(log) : l.dir \in LastSaid(log, "started")}
listStopped(log)   == {l \in listAll(log) : l.dir \in LastSaid(log, "stopped")}
=============================================================================
