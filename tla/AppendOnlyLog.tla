---------------------------- MODULE AppendOnlyLog ----------------------------
(***************************************************************************)
(* What an audit trail promises: a log that only ever grows at its end.    *)
(* Nothing is promised of a log whose entries were taken from under an     *)
(* append in progress.  AuditChain implements this module.                 *)
(***************************************************************************)
EXTENDS Naturals, Sequences

CONSTANT Entries

VARIABLES log, overwritten

Init == log \in Seq(Entries) /\ overwritten = FALSE

\* One transaction's entries are appended, all of them at once.
Grow ==
    /\ ~overwritten
    /\ Len(log) < Len(log')
    /\ SubSeq(log', 1, Len(log)) = log
    /\ UNCHANGED overwritten

\* From here on the log may be replaced.
Overwrite ==
    /\ overwritten' = TRUE
    /\ log' \in Seq(Entries)

Spec == Init /\ [][Grow \/ Overwrite]_<<log, overwritten>>

==============================================================================
