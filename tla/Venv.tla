-------------------------------- MODULE Venv --------------------------------
(***************************************************************************)
(* Virtual environments: :Venvactivate and :Venvdeactivate                 *)
(* (src/autoload/vimf/venv.vim) over the environment variables PATH and    *)
(* VIRTUAL_ENV of Vim's process, which the programs Vim starts inherit,    *)
(* and the multi-path functions they use (src/autoload/vimf/mpath.vim).    *)
(* The language servers among those programs are stopped by the bundled    *)
(* plugins, vim-lsp in Vim and lspconfig in Neovim.                        *)
(*                                                                         *)
(* A PATH is the sequence of its parts, empty ones included; the empty     *)
(* string is the sequence of one empty part.  Directories are numbered     *)
(* from the root, 0, down to that of the current file.                     *)
(***************************************************************************)
EXTENDS Integers, SequencesExt

CONSTANTS
    Deepest,      \* the directory of the current file
    Candidates,   \* <<directory, subdirectory>> that may hold an environment
    Dirs,         \* directories on PATH that belong to no environment
    Spellings,    \* directories together where only their case differs
    Servers,      \* language servers
    MaxPath       \* bound: parts of the PATH that Vim was started with

Subdirs == <<".venv", "venv", ".">>

ASSUME VenvAssumption ==
    /\ Deepest \in Nat
    /\ Candidates \subseteq (0 .. Deepest) \X Range(Subdirs)
    /\ MaxPath \in Nat

None == <<>>
Empty == <<>>
BinPath(v) == <<"bin", v>>
Bins == {BinPath(v) : v \in Candidates}
Parts == Dirs \cup Bins \cup {Empty}

ASSUME DirsAssumption ==
    /\ Dirs \cap (Bins \cup {Empty}) = {}
    /\ Spellings \subseteq SUBSET (Dirs \cup Bins)

VARIABLES
    path,      \* $PATH
    venv,      \* $VIRTUAL_ENV
    valid,     \* the candidates with a pyvenv.cfg
    server,    \* how far each language server is
    serverEnv, \* the environment one that is not stopping was started with
    spared,    \* history: servers that were of other buffers, or not up yet,
               \* when Vim stopped the others
    shellPath, \* history: the PATH Vim was started with
    editor     \* "vim" or "nvim"

servers == <<server, serverEnv, spared>>
fixed   == <<shellPath, editor>>
vars == <<path, venv, valid, servers, fixed>>

\* The servers that were not told to stop.
Alive == {i \in Servers : server[i] \in {"starting", "running"}}

TypeOK ==
    /\ path \in Seq(Parts)
    /\ venv \in Candidates \cup {None}
    /\ valid \subseteq Candidates
    /\ server \in [Servers -> {"none", "starting", "running", "stopping"}]
    /\ spared \subseteq Alive
    /\ editor \in {"vim", "nvim"}
    /\ DOMAIN serverEnv = Servers
    /\ \A i \in Servers : i \notin Alive <=> serverEnv[i] = None

-----------------------------------------------------------------------------
(* Multi-paths *)

\* vimf#mpath#split, by Vim's split(): leading empty parts and one trailing
\* empty part are left out.
Split(p) ==
    LET first == SelectInSeq(p, LAMBDA x : x # Empty)
        q == SubSeq(p, first, Len(p))
    IN  IF first = 0 THEN <<>> ELSE IF Last(q) = Empty THEN Front(q) ELSE q

\* vimf#mpath#join: what the string made of these parts is, as parts.
Join(parts) == IF parts = <<>> THEN <<Empty>> ELSE parts

\* The parts of p in S, in their order.
Select(p, S) ==
    FoldLeft(LAMBDA q, x : IF x \in S THEN Append(q, x) ELSE q, <<>>, p)

\* Vim's != ignores case: 'ignorecase' is set.  On Windows tolower() does it.
SameDir(x, y) == x = y \/ \E s \in Spellings : x \in s /\ y \in s

\* Mutant: the comparison of the filter turned round.
MpathRemoveOthers(p, part) ==
    Join(Select(Split(p), {x \in Parts : SameDir(x, part)}))

\* vimf#mpath#remove: every copy, however it is spelled.
MpathRemove(p, part) == Join(Select(Split(p), {x \in Parts : ~SameDir(x, part)}))

-----------------------------------------------------------------------------
(* Environments *)

\* Mutant: the first subdirectory, whether or not it holds one.
ProbeUnchecked(dir) == <<dir, Subdirs[1]>>

\* vimf#venv#probe: the first of the subdirectories that holds one.
Probe(dir) ==
    LET i == SelectInSeq(Subdirs, LAMBDA s : <<dir, s>> \in valid)
    IN  IF i = 0 THEN None ELSE <<dir, Subdirs[i]>>

\* The search of vimf#venv#activate without argument, upward from the current
\* file's directory.
Search ==
    LET found == {d \in 0 .. Deepest : Probe(d) # None}
    IN  IF found = {} THEN None ELSE Probe(Max(found))

\* vimf#venv#stopLsp.  :LspRestart of Neovim stops all servers; :LspStop of
\* Vim, which is :LspStopServer, those that are up and of the file type of the
\* current buffer, which may be any.  They end at their own pace.
StopLsp ==
    \E here \in SUBSET Servers :
       LET stopped == IF editor = "nvim" THEN Alive
                      ELSE {i \in here : server[i] = "running"}
       IN  /\ server' = [i \in Servers |->
                             IF i \in stopped THEN "stopping" ELSE server[i]]
           /\ serverEnv' = [i \in Servers |->
                                IF i \in stopped THEN None ELSE serverEnv[i]]
           /\ spared' = IF editor = "nvim" THEN {}
                        ELSE {i \in Alive : i \notin here \/ server[i] = "starting"}
                               \cup (spared \ stopped)

\* Mutant: the active environment's directory is not taken off PATH.
SwitchStacked(new) ==
    /\ path' = Join(<<BinPath(new)>> \o path)
    /\ venv' = new
    /\ StopLsp

\* Mutant: the new directory goes to the end.
SwitchAppend(new) ==
    LET rest == IF venv = None THEN path ELSE MpathRemove(path, BinPath(venv))
    IN  /\ path' = Join(rest \o <<BinPath(new)>>)
        /\ venv' = new
        /\ StopLsp

\* The end of vimf#venv#activate, when an environment was found.
Switch(new) ==
    LET rest == IF venv = None THEN path ELSE MpathRemove(path, BinPath(venv))
    IN  /\ path' = Join(<<BinPath(new)>> \o rest)
        /\ venv' = new
        /\ StopLsp

\* :Venvactivate, with a directory or without
Activate ==
    /\ \E new \in {Probe(d) : d \in 0 .. Deepest} \cup {Search} :
          \/ new # None /\ Switch(new)
          \/ new = None /\ UNCHANGED <<path, venv, servers>>
    /\ UNCHANGED <<valid, fixed>>

\* Mutant: the servers are left alone.
DeactivateQuietly ==
    /\ venv # None
    /\ path' = MpathRemove(path, BinPath(venv))
    /\ venv' = None
    /\ UNCHANGED <<servers, valid, fixed>>

\* :Venvdeactivate
Deactivate ==
    /\ venv # None
    /\ path' = MpathRemove(path, BinPath(venv))
    /\ venv' = None
    /\ StopLsp
    /\ UNCHANGED <<valid, fixed>>

\* Environments are made and removed, the active one too.
FilesChange ==
    /\ \E v \in Candidates : valid' \in {valid \cup {v}, valid \ {v}}
    /\ UNCHANGED <<path, venv, servers, fixed>>

\* A server starts, as a file is opened or as a restart is due: it inherits
\* the environment of that moment.  One that is stopping ends first.
StartServer(i) ==
    /\ server[i] = "none"
    /\ server' = [server EXCEPT ![i] = "starting"]
    /\ serverEnv' = [serverEnv EXCEPT ![i] = <<venv, path>>]
    /\ UNCHANGED <<path, venv, valid, spared, fixed>>

\* A server has answered the request to initialize.
ServerUp(i) ==
    /\ server[i] = "starting"
    /\ server' = [server EXCEPT ![i] = "running"]
    /\ UNCHANGED <<path, venv, valid, serverEnv, spared, fixed>>

\* A server ends, as it was told to or by itself.
ServerEnds(i) ==
    /\ server[i] # "none"
    /\ server' = [server EXCEPT ![i] = "none"]
    /\ serverEnv' = [serverEnv EXCEPT ![i] = None]
    /\ spared' = spared \ {i}
    /\ UNCHANGED <<path, venv, valid, fixed>>

\* Vim is started from any shell, or from one where an environment is active.
Init ==
    /\ \E p \in BoundedSeq(Parts, MaxPath), v \in Candidates \cup {None} :
          /\ venv = v
          /\ path = IF v = None THEN Join(p) ELSE <<BinPath(v)>> \o p
    /\ shellPath = path
    /\ valid \in SUBSET Candidates
    /\ editor \in {"vim", "nvim"}
    /\ server = [i \in Servers |-> "none"]
    /\ serverEnv = [i \in Servers |-> None]
    /\ spared = {}

Next ==
    \/ Activate \/ Deactivate \/ FilesChange
    \/ \E i \in Servers : StartServer(i) \/ ServerUp(i) \/ ServerEnds(i)

Spec == Init /\ [][Next]_vars

-----------------------------------------------------------------------------
(* Properties *)

\* The active environment's programs are the ones found: its directory is
\* first on PATH, and on it once unless the shell had it there already.
ActiveFirst ==
    venv # None =>
        /\ path[1] = BinPath(venv)
        /\ \/ BinPath(venv) \notin Range(Tail(path))
           \/ BinPath(venv) \in Range(shellPath)

\* No sequence of activations leaves the directory of an environment that is
\* not active on PATH, except where Vim was started with it.
InactiveOff ==
    \A v \in Candidates \ {venv} :
        BinPath(v) \in Range(path) => BinPath(v) \in Range(shellPath)

\* The directories of PATH that are spelled unlike any environment's.
Others == {d \in Dirs : \A v \in Candidates : ~SameDir(d, BinPath(v))}

\* However often environments were switched, the other directories of PATH
\* are the ones Vim was started with, in their order.
OthersKept ==
    Select(path, Others) = Select(shellPath, Others)

\* A server that was not told to stop works in the environment that is active
\* now.  In Vim, it may have been spared: because it was not up when the
\* environment was switched, or not of the buffer where that was done.
ServersFollow ==
    \A i \in Alive :
        \/ serverEnv[i] = <<venv, path>>
        \/ editor = "vim" /\ i \in spared

=============================================================================
