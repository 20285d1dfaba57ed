------------------------------ MODULE MCShell -------------------------------
(* Jobs that either service may be asked to run. *)
EXTENDS ShellCommandNet

CONSTANTS j1, j2

MCExitCodes == {0, 2}
\* LSF executors are killed before they submit, or before they write the id.
MCKilledAt == {<<"lsf", "starting">>, <<"lsf", "submitted">>}
=============================================================================
