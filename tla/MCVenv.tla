------------------------------- MODULE MCVenv -------------------------------
(* Values of the constants of Venv for TLC. *)
EXTENDS Venv

CONSTANTS usr, local, shout   \* directories, shout as VENV/bin is to venv/bin

MCCandidates == {<<0, "venv">>, <<1, ".">>}
MCSpellings  == {{shout, BinPath(<<0, "venv">>)}}

=============================================================================
