# TLA+ models of vimfiles

This directory holds TLA+ specifications of parts of this repository, the TLC
configurations that check them on small instances, and proofs checked by TLAPS.
`PROJECT.json` lists the runs, the source lines every definition translates,
the theorems, the hazards and the components.

1. [The system](#the-system)
2. [What is modelled](#what-is-modelled)
3. [Runs](#runs)
4. [Where the code and its documentation disagree](#where-the-code-and-its-documentation-disagree)
5. [Proofs](#proofs)
6. [Not modelled](#not-modelled)
7. [Plan](#plan)

To check something: `tlc -config MCHighlight.cfg MCHighlight.tla`,
`tlapm HighlightProofs.tla`.

## The system

The repository is a Vim and Neovim configuration: an 8000-line `vimrc` in
VimL, a small library (`autoload/vimf`, `lua/vimf`), one plugin of its own that
is packaged separately (`bundle/bufmatch`), and command-line tools in Python and
bash (`tool/`, `buildtool`). The rest of `bundle/`, `nvim-bundle/`,
`optional-bundle/`, `tool/ack`, colours and syntax files is third-party code and
is not looked at.

Vim runs one command, mapping or autocommand at a time, so inside Vim
there is no preemption. What is concurrent or fails midway is outside: the
build scripts, the tools, several Vims on one directory. Inside, the hard part
is *ordering and staleness*: state that is kept per window, per buffer or
globally, derived from other such state, and brought up to date by autocommands
that some commands trigger and others do not.

| Component | State | Operations | What makes it correct |
|---|---|---|---|
| Highlighting commands (`vimrc` 6098-6285, 8036-8048) | per buffer: `b:Highlight_<item>`, `b:HighlightEnabled`, `b:highlight_groups`; the option `'textwidth'` | `:Highlight`, `:HighlightOn`, `:HighlightOff`; Syntax and OptionSet autocommands; file type setup | an item's match is deleted by the id it was added with; what the current window shows is what the buffer's settings ask for; the items asked for survive `HighlightOff` |
| bufmatch (`bundle/bufmatch`) | `b:bufmatch_matches`, `w:bufmatch_win_match_ids`, Vim's matches of each window | `MatchAdd`, `MatchDelete`, `SyncWindow` on WinEnter and BufWinEnter | ids unique and reused; no match leaked or deleted twice; other scripts' matches kept |
| Build signals (`tool/fifosignal`, `vimrc` 1299-1313) | the name `.fifo` in each directory, the pipe, two kinds of processes | `fifowait` in a shell loop, `fifosignal` from `<F12>` | a signal starts a build of what was saved; a crash does not stop later builds |
| QuickFix, location list, help windows (`vimrc` 1484-1655, 3409-3580, 7565-7620) | Vim's window list and lists of messages, none of their own | toggles, `:Copen`, `:Lopen`, F4 browsing, layouts | a toggle is its own inverse and leaves the cursor where the user was; asking changes nothing; browsing stays in its list |
| Virtual environments (`autoload/vimf/venv.vim`, `mpath.vim`, `path.vim`) | `$PATH`, `$VIRTUAL_ENV`; language servers, which the plugins keep | activate, deactivate, probe | the active environment comes first on PATH, no other one is on it, the rest is untouched, and the language servers that run work in it |
| Tags (`tool/gentags`) | `tags`, `tags.sorted` | `ctags`, sort, rename | `tags` is complete and in the order of names whatever fails; definitions before prototypes |
| Section tags (`tool/markdown2ctags`, `tool/rst2ctags`) | a line machine, a stack of sections, the tags of all files | find sections, nest them, sort and write tags | levels and parents as the markup defines them; tags in the announced order, and none lost |
| Build tool (`buildtool`) | a directory tree | unpack, configure, build, package, update | a phase that failed can be run again, and is not taken for complete; archives have what is there and nothing older |
| Checker settings (`vimrc` 4900-5229) | lists of file types, global and per-buffer dictionaries and modes | set, inherit, query | lists are disjoint; a buffer's settings touch no other; errors on display belong to the settings |
| Sessions (`vimrc` 4829-4855) | named sessions, the current one | save, guarded by name | the default session is not created by accident |
| Views and git diffs (`vimrc` 7840-7911) | `w:SavedBufView`, marks, preview window | BufEnter, BufLeave, BufUnload, FileType | the view restored is the one saved there for that buffer |
| Status line cache (`vimrc` 4595-4632) | cache files, a tag file | compare, wipe, write the tag | no stale cache under a current tag, but for what could not be deleted or came from another Vim |
| Runtime path, packages (`vimrc` 337-584, `autoload/vimf/init.vim`, `plugin.vim`) | lists of directories | prepend, append, disable | order and uniqueness |
| Text algorithms (`vimrc`, `plugin/keepcase.vim`) | - | lists, paths, register stack, indentation, folding | their results |
| Language servers, snippets, small plugins, options and mappings | hardly any | - | - |

How they interact: `vimrc` calls bufmatch's functions and bufmatch's
autocommands run on window changes that any mapping may cause; `<F11>`/`<F12>`
run `fifosignal` with `system()`, so that Vim stands still until it ends, and
`fifosignal` meets `fifowait` only through a name in a directory; the window
toggles and F4 share Vim's window list with everything else the user does; the
environment functions change the variables of Vim's own process that tools and
language servers inherit; `:Ctags` runs `gentags`, which writes the file Vim
searches; Vims that run at one time share Powerline's cache directory.

The hazards that follow from this are listed in `PROJECT.json`, each with the
line where it bites and the properties that cover it.

## What is modelled

| Module | Models |
|---|---|
| `BufMatch` | the bufmatch plugin over Vim's per-window matches, and the window commands that trigger it |
| `Highlight` | the highlighting commands as a client of it, composed by EXTENDS since both run in one thread on the same buffers |
| `HighlightDisplay` | what the user is promised: settings, and windows that display sets of matches |
| `HighlightRefines` | `Highlight` implements `HighlightDisplay` |
| `HighlightProofs` | theorems and proofs about all four |
| `NamedPipe` | names, pipes, blocking `open`, `SIGPIPE`, end-of-file: what the scripts rely on in the system |
| `FifoBuild` | `fifowait`, `fifosignal` and the loop around them, one system call per step |
| `FifoBuildProofs` | theorems and proofs about it |
| `QuickFixWindows` | the functions on QuickFix and location list windows, over Vim's list of windows |
| `QuickFixProofs` | theorems and proofs about it |
| `SectionStack` | sections, the stack of the ones a next may be nested in, parents: what the two section tools have word for word in common |
| `RstSections` | `find_sections` of `rst2ctags`, extending it |
| `RstProofs` | theorems and proofs about them |
| `BuildTool` | `buildtool`'s phases and the directories they leave |
| `BuildToolProofs` | theorems and proofs about it |
| `Venv` | PATH, the active environment, and the servers that inherit them and are stopped for them |
| `VenvProofs` | theorems and proofs about it |
| `StatusCache` | Powerline's cache and its tag, shared by Vims |
| `StatusCacheProofs` | theorems and proofs about it |
| `InductionProofs` | induction, and what folds and minima need, for the proofs of the others |
| `MC...` | values of constants for TLC |

Modules whose constants need nothing but model values and numbers are run
directly, without an MC module.

### BufMatch and Highlight

| In the model | In the code |
|---|---|
| `winBuf`, `curWin` | Vim's windows and the current one |
| `winMatches[w]` | the matches Vim keeps for a window (`getmatches()`) |
| `winIds[w]` | `w:bufmatch_win_match_ids` |
| `bufMatches[b]` | `b:bufmatch_matches` |
| `groups[b]` | `b:highlight_groups` |
| `configured[b]` | the items with `b:Highlight_<item>` set |
| `bufEnabled[b]` | `b:HighlightEnabled` |
| `tw[b]` | `'textwidth'` |
| `pending` | the calls the running command has not made yet |

A match is a pair of an item and its pattern; a pattern is a number,
0 for none, the width for `longlines` and 1 for the others, since all that
matters of a regular expression here is which item it belongs to and
whether it is stale.

One `:Highlight` command makes a call of `HighlightItem` for each argument and
for each item of `*`. Such a call is one step: it sets the variable, deletes
the old match and adds the new one, and each of the two synchronizes the
current window; as nothing can run between the two synchronizations and the
second starts from what the first left, the model takes their combined result.
Between the calls of one command nothing else runs either, which
is what `pending` says: events start a command only when `pending` is empty.
File type setup (`SetupSource`) is a command in this sense, followed by the
Syntax event and BufWinEnter, in that order.

Ids given by `matchadd()` are modelled as Vim's documentation describes them: free in the window,
from 1000 on. Other scripts' matches have ids below that, and come and go at
any time between commands.

### NamedPipe and FifoBuild

| In the model | In the code |
|---|---|
| `name[d]` | the entry `.fifo` in directory d: an inode or none |
| `node[n]` | an inode: pipe or regular file, and whether a line is in it |
| `fd[p]`, `blocked` | what a process has open, and whether `open` has returned |
| `wpc[d]` | where the loop in directory d is: `fifowait`'s lines, the build, or ended |
| `spc[s]`, `dir[s]` | where the `fifosignal` of Vim s is, and at which directory |
| `stops` | how many processes were ended by CTRL-C or a crash (bounded) |
| `cut[d]` | history: did the last `fifowait` in directory d end before its trap had run |
| `heard`, `built` | history: signals since `fifowait` started, builds since the save |

Inodes are not names: a process that has opened a pipe, or waits in `open`,
keeps it after `rm`, while others find a new one under the name. All the
interesting behaviours come from this. `echo "signal" > "$fifo"` is three
steps (open, write, close), with `O_CREAT`: on a missing name it makes a regular
file. The exit trap of `fifowait` runs on normal exit, on failure and on CTRL-C, and not
on a crash. CTRL-C goes to all processes in the foreground, the trap's `rm` among them:
when it is running, it may end before it has removed the pipe (`InterruptTrap`), and a
second CTRL-C while the first one's trap runs does the same.

### QuickFixWindows

| In the model | In the code |
|---|---|
| `vim.order`, `vim.cur`, `vim.prev` | windows from the top, the current one, and the one `CTRL-W p` goes to |
| `vim.kind[w]` | `'buftype'` and `getwininfo()`: a file, the QuickFix window, a location window |
| `vim.list[w]` | the location list the window uses, named after the window it was made for |
| `messages` | the lists with something in them |

The code keeps no state. Each function is an operator from a state of Vim's
windows to the set of states it may leave: a set, since Vim chooses a window when
the current one is closed. A function that asks something returns records of
the new state and the answer, as asking goes to windows and back. The commands
compose these operators as the code composes the calls, and the properties
speak about an operator applied in every reachable state, so that "pressed twice"
is `QuickFixWinToggle` of what `QuickFixWinToggle` leaves.

Vim's own commands are at the top of the module and external. The model has them as
Vim documents them: the last window is not closed, `:lopen` without a list fails, a list lives
as long as a window uses it, splitting copies it.

### SectionStack and RstSections

| In the model | In the code |
|---|---|
| `sections`, `previous` | `sections`, and `previous_sections` as positions in it |
| `doc` | the lines the loop has read |
| `before`, `top_line` | `lines[i - 1]` and `lines[i - 2]`, after what the loop did to them |
| `level_values`, `level` | the levels of styles, and of the last section |

One step reads one line, and any line may come next, so that all
documents up to a length are checked. A line is the record of what the
regular expressions and the comparison of lengths tell apart. The definitions
the result is compared with (`IsolatedTitles`, `LinesOf`) are stated on the whole
document, without the loop's variables.

### BuildTool

| In the model | In the code |
|---|---|
| `tmp_extract_dir`, `dest_dir` | `__TMP_EXTRACT__` and `vim-<version>` |
| `src_dir`, `dest` | `build/vim-<version>` and `build/DESTDIR` in it |
| `src_tar`, `bin_tar` | the archives |
| `pc`, `todo` | the step, and the phases `build` has still to run |
| `unpacked`, `succeeded`, `cut` | history: what was being unpacked, what ended well, and whether the last extraction was killed or its removal cut short |

A directory is the set of its files. Each program that is run may do its
work, or fail after a part of it. CTRL-C raises an exception at any step, so
that `finally` runs; a kill does not. `rm_rf` in that clause removes one file after the
other, and an error or CTRL-C there (`CleanupFails`) leaves a part and makes the command fail, even
when the sources were in their place by then. `os.rename` replaces an
empty directory and fails on any other (`Occupied`). `git clone` removes what it made when
it fails, unless Python, which waits only briefly for it after CTRL-C, kills it first.

### Venv

| In the model | In the code |
|---|---|
| `path`, `venv` | `$PATH` as its parts, `$VIRTUAL_ENV` |
| `valid` | the directories with a `pyvenv.cfg` |
| `server[i]`, `serverEnv[i]` | how far a language server is, and the environment it inherited |
| `editor` | Vim or Neovim |
| `spared` | history: servers that Vim left running when it stopped others |
| `shellPath` | history: the PATH Vim was started with |

Empty parts are kept, since `split()` drops some of them. The directory
search goes upward over numbered directories. The comparison in `vimf#mpath#remove` is
`!=`, which ignores case once the `vimrc` has set `'ignorecase'`; `Spellings` says which
directories differ in case only. A directory of an environment that the
shell had on PATH is remembered in `shellPath`: deactivating removes all copies of it,
the shell's too. Vim starts in a shell without an active environment, or in one where
it is first on PATH, as the `activate` scripts of environments leave it; one that has
`$VIRTUAL_ENV` set and something else in front of PATH is outside the model.

How servers stop is the bundled plugins' matter, and differs. `:LspRestart` of Neovim's lspconfig
stops all. `:LspStop` of Vim is vim-lsp's `:LspStopServer`, which without an argument stops
those that are initialized and allowed for the current buffer: `here` in `StopLsp`, any set,
as the current buffer may be any. The others are `spared`. A server that was told to stop ends
in its own time and can only then be started again. Any server may end by itself, or be
started, at any time.

### StatusCache

| In the model | In the code |
|---|---|
| `tagFile` | the tag in the file |
| `cache[f]` | whose status lines a cache file has |
| `pc[v]`, `required[v]`, `toWipe[v]` | where Vim v is in its start, its tag, the rest of its loop |
| `shown[v]` | what its status line was made with |
| `excused`, and that field of a file | history: reasons why a file or a Vim's status lines may be stale |

Any number of Vims start, run and end at one time; `End` may come at any step. `glob()` is a step, and
so is each `delete()`. Three things may fail without a word: a `delete()`, under
`silent!`; `writefile()` of the tag, after which the file has its old tag or none; and Powerline's
writing of a cache file. Tags are compared with `!=`, which ignores case here too. Powerline's part
(`Load`) is bundled code: reading the cache file of its colour scheme, or making it. A cache file is
there completely or not at all, and `:PowerlineClearCache`, which only deletes one, is left
out.

So stale status lines are possible, and the properties say by which ways only: the
file could not be deleted, or the Vim that made it, or that shows it, is `excused` -
the tag in place when it started to load was another's, as it could not write its own, or it ran while
a Vim with other settings replaced the cache. A start that was cut short, at whatever step, is no
reason, nor is one that overlaps with a Vim of the same settings.

## Runs

| Run | Shows |
|---|---|
| `highlight` | over all interleavings of commands, events, window commands and other scripts: types; groups and matches agree; ids stay within as many numbers as there are items; windows hold exactly what was recorded; the current window is fresh; other scripts' matches are kept |
| `highlight_refines` | the commands implement `HighlightDisplay`: each behaves as one step, and items asked for survive everything but a command that names them |
| `highlight_per_buffer` | violated: two windows on a buffer may differ |
| `fifo_build` | with interrupts and crashes: a waiting pipe stays reachable by name, a pipe means a waiting `fifowait` unless the last one ended before its trap had removed it, a stale line never starts a build, and an ended loop that is restarted waits again |
| `fifo_sent` | a `fifosignal` that exits with 0 is followed by a build of what was saved |
| `fifo_loop` | violated: the loop may end by itself |
| `fifo_key` | violated: `fifosignal`, and Vim, may wait forever |
| `quickfix` | the toggles undo themselves and touch no other window; asking whether a window is open changes nothing but the focus, and that only into that window; F4 never decides for a list that is not there; `:L` keeps the user's window although windows are renumbered |
| `rst` | no line is part of two titles; titles that stand for themselves are found; styles make levels without gaps; sections are nested as their levels say |
| `build_tool` | only a kill, or a removal that fails or is interrupted, leaves the temporary directory; sources are there completely or not at all and nothing but the user changes them; the binary archive is of these sources only |
| `venv` | the active environment is first, and on PATH once; others are off; the directories spelled unlike any environment's keep their order; no server works in an environment that was left unless Vim spared it |
| `status_cache` | two Vims at one time, with crashes and failures anywhere: what is stale is so for one of the reasons above |

Bounds and why they are enough:

- *Highlighting*: two windows, two buffers, two items. One item depends on
  `'textwidth'` and one does not, so that re-applying and keeping are told
  apart; three values of `'textwidth'` (none, 80, 79) let a setup change the width it
  has just applied. With two windows one can be on the same buffer as the
  current one or on another, closed and reopened; a third would only be another
  one that is not current, and is touched by no action on the first two. Two
  items make ids collide and be reused; the theorems below do not depend on
  these numbers. Windows and buffers are symmetric: no definition orders them.
  The refinement run has highlighting off by default and two widths.
- *Builds*: `fifo_build` has one directory, two Vims and two ends by CTRL-C or a
  crash: enough for a crash during the recovery from another. `fifo_sent` has two
  directories, so that a save in the outer one finds no pipe and one in the inner
  one does, and nobody ends a process: with an interrupted build nothing can be
  promised. Each name and process refers to one inode at most, hence
  |Dirs| + |Readers| + |Writers| inodes are never exhausted, which
  `FreeInodeExists` in `FifoBuildProofs` proves.
- Deadlock is not checked in `fifo_build`, `fifo_sent` and `fifo_key`: all the Vims
  can really wait in `open` while the loop waits on another pipe, which is
  what `fifo_key` shows.
- *Windows*: three are enough for a file, the QuickFix
  window and a location window, in every order, with every current and previous
  one; the operators look at no more than two windows besides the current
  one. A command that opens a window is left out when there is no room.
- *Documents*: six lines, as two titles of which one has an overline have five.
  Three columns tell a line that is too short from one that is long enough. What depends
  on longer documents is proved for every length.
- *Build tool*: two files, three commands and one edit: a packaging, a removal, and a
  packaging again, or an unpacking that fails, is repaired and succeeds.
- *Environments*: two that the search can find in two directories, three other
  directories on PATH, of which one is an environment's in other case, and a PATH of up to three parts,
  which may hold empty parts and the environments' directories in any order. PATH never
  grows beyond one part more. Of two servers one can be stopped and one spared.
- *Cache*: three tags, of which two differ in case only, two files, so that one can be
  deleted and one not, and two Vims, each of which runs again and again, alone or beside the
  other.
- Deadlock is off where the model ends: at the bound of lines, runs or commands.

Fairness is used by `FifoBuild` only: processes that can run do run, builds end,
and a user starts an ended loop again. No fairness is assumed of pressing keys,
of CTRL-C or of crashes, and only weak fairness is needed, as a script that can take its
next step stays able to until it does. The other modules have safety properties
only: their commands are sequential and end by themselves, and whether a user
gives another one is nothing the code promises.

Every property of a passing run has a mutant, a plausible bug in one
definition, under which the run fails; they stand before the definitions
they replace, marked "Mutant".

## Where the code and its documentation disagree

- **Highlighting is not per buffer** (`highlight_per_buffer`). `SyncWindow` brings only
  the current window up to date, so a second window on the buffer keeps what
  it showed until it is entered. `doc/notes.txt` lines 1790 and 1824 say that
  highlighting is per buffer. The theorem below is the strongest form
  that holds: the current window is right.
- **The loop ends by itself** (`fifo_loop`). `fifosignal` tests for a pipe, the
  trap of `fifowait` removes it, `echo` makes a regular file, and the next
  `mkfifo` fails. The loop in `doc/notes.txt` line 1247 ends then. `SelfHeals`
  shows that it does not get worse: the failing `fifowait` removes the
  file.
- **A key press may cause neither a signal nor an error** (`fifo_key`). After `fifowait` has
  read its line and closed the pipe, and before it removes it, a
  second `fifosignal` opens the pipe for writing and waits for a reader
  that never comes. `doc/notes.txt` lines 1236-1238 say that each key causes a signal.

Others were met while modelling; the code's side of them is in the models unless
stated, and they are told here rather than run:

- *F4.* With neither or both of the list windows open,
  a location list that is not empty is browsed (`vimrc` line 1601);
  `doc/notes.txt` lines 1284-1287 name the QuickFix list for that. And asking
  whether the location window is open leaves the cursor in it, so that at the end
  of the list (line 1617) it is closed from within, Vim chooses the next
  window, and `:ll` there belongs to whatever list that window has.
- *Source archives.* `packagesrc` extracts into `build/vim-<version>` without
  emptying it (`buildtool` line 362), unlike `package` its directory, so that
  files removed since the last time are in the archive: `ExtractSrc`.
- *The cache.* The comment at `vimrc` lines 4575-4576 promises that a changed tag gets
  stale data deleted. Besides the three reasons above, a change of case only deletes
  nothing (line 4623).
- *Language servers.* In Vim `stopLsp` (`venv.vim` line 31) stops the initialized servers of
  the current buffer; one of another file type, or one that is still starting, goes on in
  the environment that was left. `doc/notes.txt` lines 2257-2258 say that any existing process
  is stopped. `ServersFollow` is what holds.
- *PATH and case.* `vimf#mpath#remove` ignores case on Unix too, where `mpath.vim` (line 39) means
  to compare exactly: a directory that differs from the active environment's in case only
  is dropped from PATH. `OthersKept` speaks of the others.
- *Tools that are not modelled.* `markdown2ctags` makes sections of comments in
  front matter (line 211), although it means to skip it, and of the fence that ends a code
  block when an underline follows (line 240); with `--sort=foldcase` it sorts by what
  `str(tag)` prints (line 291), which need not be the order of names that
  the header announces. `gentags` does not move a prototype whose kind ends the
  line, as the newline is then part of the kind (lines 125 and 159). The commands that
  make a file type passive reset no errors (`vimrc` line 5146), which `doc/notes.txt` lines
  4559-4560 say they do.
- For an invalid directory `:Venvactivate`
  says "not found" instead of naming it (`venv.vim` line 85 tests a string as a
  number). When the list window is the only one, closing it in `GotoMessage` gives
  an error that is not among those it catches.

## Proofs

### Highlighting

`HighlightProofs` starts with lemmas on the operators: `s:NextBufMatchId` finds a free
id of the reserved range for every finite dictionary, and what `With`, `Without` and
`MatchAddAll` return. It proves, for all finite or infinite sets of windows and
buffers, all item lists, commands, file type setups and widths that satisfy the named
assumptions of the modules:

| Theorem | States |
|---|---|
| `TypeCorrect` | `Spec => []TypeOK` |
| `MatchesOwned` | `Spec => []GroupsOwnMatches` |
| `NothingLeaked` | `Spec => []NoLeakedMatches` |
| `IdsAlwaysReused` | `Spec => []IdsReused` |
| `ForeignAlwaysKept` | `Spec => ForeignKept` |
| `CurrentWindowAlwaysFresh` | `Spec => []CurrentWindowFresh` |
| `AskedAlwaysKnown` | `HSpec => []LInv` |
| `RefinesDisplay` | `HSpec => CommandsAtomic` |

*The first three.* The invariant is `IInv`, the conjunction of the three: none
is inductive alone. That the next id is in range needs finitely many matches in the buffer, which
follows from `GroupsOwnMatches` as there are finitely many items; that
synchronizing leaves exactly the new ids needs that the window's ids were those recorded.
One lemma per action shows that it preserves `IInv`.

*Ids and other scripts.* When an item is given a match, the other items have at
most one each (`GroupsOwnMatches`), so one of as many ids as there are items is free, and
`s:NextBufMatchId` returns no later one. What `SyncWindow` deletes are the
recorded ids, which are no other script's (`NoLeakedMatches`), and what it adds is
above theirs. Both follow from `IInv` and need nothing to be added to it.

*Freshness.* While a command runs the current window is not fresh, so the
property says nothing of the states between. `FInv` adds what is true there:

- `OthersRight`: buffers other than the current one have, for every item, the match
  their settings call for, although no window may show it;
- `CurrentRight`: an item of the current buffer is right, or a pending call will
  apply it;
- `CurrentSync`: the window displays the buffer's matches, or a pending call will
  synchronize it;
- `WidthsApplied`: a pending change of `'textwidth'` has an application of all items after
  it.

When nothing is pending, `CurrentRight` and `CurrentSync` give `CurrentWindowFresh`.
`WidthsApplied` is where the OptionSet autocommand and the Syntax event after file type setup are
needed; without the former the property fails, as the mutant of `SetTextwidth` shows.

*The refinement.* `HighlightRefines` adds `asked`, what the user has asked for in
each buffer, which a command changes at once while `Highlight` still has calls to
make. `LInv` adds to `FInv` what `asked` is: for the current buffer, the outcome of
the pending calls on the settings there are (`Outcome`, a fold over the calls); for
any other, its settings. A step that begins a command keeps it since nothing was
pending before, and one that makes the next call since the outcome of a sequence is the
outcome of its tail on what the first call left; that takes a lemma on folds and one
on what each call does to the settings. While a command runs, the current window of the
abstract specification displays what `asked` calls for; when none runs, it displays
what the real one does, and `FInv` says that these agree (`BarFresh`). So the step that
begins a command is the abstract step, for which the outcome of its calls, whatever
the arguments, is shown to be one change of items, flag or width; its other steps are stutters; and
window commands, other scripts and deleted buffers map to theirs. There is one lemma
for each.

### Build signals

`FifoBuildProofs` proves, for any number of directories, loops, Vims,
interrupts and crashes:

| Theorem | States |
|---|---|
| `TypeCorrect` | `Spec => []TypeOK` |
| `AlwaysReachable` | `Spec => []WaitingIsReachable` |
| `NoAbandonedPipe` | `Spec => []FifoMeansWaiting` |
| `NoStaleSignal` | `Spec => []OnlyFreshSignals` |

The invariant `IInv` is their conjunction with

- `PipeInv`: what a name or descriptor refers to exists, no two names
  refer to one inode, and an inode that nothing refers to is free. Without it a
  new pipe could share its inode with an old one, and a line would appear in it
  from nowhere; a count of names and descriptors against the inodes gives
  that a free one exists;
- `DescriptorsInv`: a process has a descriptor exactly between open and
  close, and a signaler with a descriptor on a pipe that still has a name looks
  at the directory of that name. So a signal reaches a waiting `fifowait`
  only from a Vim that signals its directory;
- `LinesFresh`: a line in the pipe a `fifowait` is about to read was
  written since it started. `OnlyFreshSignals` speaks of the state after the read,
  when the line is gone.

The lemmas on `NamedPipe` say of each operation that it preserves `PipeInv` and what
it leaves alone; the ones on the scripts use these and no definition of
the operations.

### Sections

`RstProofs` shows first of `AddSection` that it keeps the stack in order and
`NearestParent`, whatever the levels, and uses it for documents of any length:

| Theorem | States |
|---|---|
| `RstTypeCorrect` | `Spec => []TypeOK` |
| `RstParents` | `Spec => []NearestParent` |
| `RstTitlesDisjoint` | `Spec => []TitlesDisjoint` |
| `RstLevels` | `Spec => []StylesMakeLevels` |
| `RstIsolated` | `Spec => []IsolatedFound` |

`NearestParent` says nothing of the stack, so the invariant adds what the stack
is (`StackInv`): positions on it increase; every section is on it or hidden by a
later one on it whose level is no higher; and each level divides the stack into
a part that stays and a part that is popped, which is why `pop_sections` may stop
at the first section of a lower level. For titles the invariant says (`Fresh`) that a
line which belongs to a title is blank to the loop, and for levels (`Known`) that
`level_values` holds the levels of the sections there are. That no title is missed
needs the converse of `Fresh` too (`Unspoilt`): what the loop remembers of the last two
lines is what was read or a blank line, and a text is still there when the line under
it is read, as only the title it belongs to blanks it. With it the step that reads the
line under an isolated text is the one that adds its section.

### Status line cache

`StatusCacheProofs` proves, for any Vims, however many run at a time, any tags and files, and
crashes and failures anywhere:

| Theorem | States |
|---|---|
| `StatusCacheTypeCorrect` | `Spec => []TypeOK` |
| `TagsAlwaysHonest` | `Spec => []TagHonest` |
| `NothingEverStale` | `Spec => []NothingStale` |

The invariant speaks of the Vims that are past the comparison or the wipe and not excused: the tag is
theirs or none, the files are theirs or excused, and any two of them have the same
settings (`SoundInv`). It needs that whoever runs beside one that replaces the
cache has its settings or is excused (`BesideInv`), and that what the loop has not
deleted yet is still on its list (`WipeInv`), which holds although files may appear
behind it, since those who make them are of the same settings or excused. That `SameTag` is
an equivalence rests on the classes of spellings being disjoint.

### Build tool

`BuildToolProofs` proves, for any files, numbers of commands and edits, and
failures, interrupts and kills anywhere:

| Theorem | States |
|---|---|
| `TmpRemoved` | `Spec => []TmpMeansCut` |
| `BinArchiveAlwaysFresh` | `Spec => []BinArchiveFresh` |
| `TreesAlwaysSafe` | `Spec => TreesSafe` |

The invariant says what each step may rely on: that the temporary directory
is there only inside the `try` and its `finally`, unless one of them was cut short (`TmpInv`); that it holds all the
sources when it is renamed, and nothing is where they go (`TreeInv`); that
`build/DESTDIR` is empty before the installation and what is archived after it (`DestInv`);
and that a command has a result only when it has ended (`CommandInv`), without which a
later step could spoil the archive a result speaks of.

### Environments

`VenvProofs` proves, for a PATH of any length, any environments and any depth of
directories:

| Theorem | States |
|---|---|
| `VenvTypeCorrect` | `Spec => []TypeOK` |
| `ActiveAlwaysFirst` | `Spec => []ActiveFirst` |
| `InactiveAlwaysOff` | `Spec => []InactiveOff` |
| `OthersAlwaysKept` | `Spec => []OthersKept` |
| `ServersAlwaysFollow` | `Spec => []ServersFollow` |

Their conjunction is inductive. The work is in the multi-paths: what `Split` leaves
out are empty parts, selecting the directories of a sequence commutes with leaving out others and
with joining, and removing a part leaves no copy of it. `Rest`, the PATH without
the active environment, is what both deactivating and switching start from, and one
lemma says that the environments' directories on it are the shell's. What is removed
may be more than the environment's own directory; `OthersApart` says that none of `Others` is
among it. `Stop_Servers` says of both editors that a server which was not told to stop
is spared or there is none.

### QuickFix and location windows

`QuickFixProofs` proves, for any number of windows:

| Theorem | States |
|---|---|
| `WindowsTypeCorrect` | `Spec => []TypeOK` |
| `ToggleTwiceRestores` | `Spec => []ToggleTwice` |
| `LocToggleAlwaysFlips` | `Spec => []LocToggleFlips` |
| `AskingAlwaysHarmless` | `Spec => []AskingIsHarmless` |
| `PreferredAlwaysExists` | `Spec => []PreferredExists` |
| `LayoutAlwaysKeepsPlace` | `Spec => []LayoutKeepsPlace` |

The invariant (`Sound`) says that no window is listed twice; that the current one
is listed, and the previous one unless it was closed; and that a
location list has one location window at most (`OneWindowPerList`). The last is needed by
`LocListWinIsOpen`: of the windows of a list it closes one, which is the one it opened
only if there was none before. There it has gone back to the window it came from
first, which `CTRL-W p` finds since opening was the last thing done (`OpenedAt` gives
the previous window). `CloseOpened` is the heart of the toggles: opening a window at any
place, going back and closing it leaves the windows as they were.

Each operator has a lemma that says what it returns from any `Sound` state, in terms
of the ones it calls: `Alike` for going through windows, `Kept` for moving them,
`OpenedAt` and `Closed` for one window more or less. The actions then preserve the invariant,
and the properties, which apply an operator in the state reached, follow from the same
lemmas. That an id is free for a new window (`FreeResult`) is a count: a window takes
one, and the list it uses one more at most.

### Induction

The provers cannot instantiate the library's induction theorems, whose parameter is an
operator. `InductionProofs` takes another way: `LeastNatural`, that a non-empty set of
naturals has a least element, follows from the theorem that `<` is
well-founded, and `SetInduction` from it, about a set instead of a predicate. With it
`FoldExists` shows that the recursive function in `FoldLeft` exists, for any step on
a given set, and the folds of the models can be reasoned about: the outcome of
calls, the selection from a PATH, a visit of windows. `SeqInduction` is the same for
sequences, and `MaxOfSet` and `MinOfSet` give what `Max` and `Min` choose.

### Assumptions

Ids of other scripts are below 1000 (`IdAssumption`), the item list
has no repetition (`DistinctItems`), commands and setups name known items and
widths (`CommandAssumption`), and the marker of a closed window is no buffer
(`ClosedAssumption`). For the scripts: there are enough inodes
(`InodesAssumption`), a loop is not a Vim (`ProcsAssumption`), directories are
numbered up to the root and loops run in them (`FifoAssumption`). For documents: at least
one column (`RstAssumption`), and no
character that stands for none (`CharsAssumption`). For the cache: a tag is
not empty, and classes of spellings are disjoint (`StatusCacheAssumption`). For environments: candidates lie in the
subdirectories that are probed (`VenvAssumption`), and the other directories on PATH
are neither theirs nor empty, and spellings are of such directories (`DirsAssumption`). For windows: room for at least one
(`MaxWinsAssumption`). TLC evaluates them in the runs.

### Only model-checked

`SelfHeals` and `SentIsBuilt` of `FifoBuild` are liveness under fairness, which stays with TLC, as
does anything with ENABLED. What the runs with an expected violation show is a
counterexample of TLC's. Every other property of a passing run is proved.

## Not modelled

- `bufmatch#ClearMatches`: nothing calls it, and it would leave the vimrc's groups
  with ids that are gone.
- The order of file type setup and Syntax event for version control messages
  (`SetupGit`, `SetupSvn`), and window changes under `noautocmd`.
- Two `fifowait` in one directory: the second one fails and removes the first one's pipe;
  the documented use is one loop per directory. A signaler killed between opening
  and writing is in the model (`GiveUp`), and makes `fifowait` read end-of-file and fail.
- The `.fifo2` of `<F11>`: another name, and otherwise the same.
- `HelpToggle`: what closing a help window leaves is a layout that Vim had
  saved, and where `CTRL-W p` then goes is not determined by anything in this
  repository. `OneWindow`, diff mode, and the branch of `IsQuickFixWin` for a Vim without
  `getwininfo()`.
- Two `buildtool` in one directory at a time: nothing keeps them
  apart, and `TreesSafe` would fail at once.
- `buildtool update`, a `git pull`; the search for sources and their versions.
- The loop of `markdown2ctags`, three flags over the lines of a document, and `main` of
  both section tools, which reads files and sorts and writes tags; `gentags`, a pass
  over one file and a rename; the settings of syntax checkers, whose effect is
  decided in a bundled plugin. Their state is small and each runs in sequence; they come
  next in the plan.
- Sessions: the state is the session plugin's. Views and git diffs: single
  autocommands whose hard part is the order of Vim's own events. The runtime path:
  lists computed once at start-up. Text algorithms: short functions without state.
- Third-party code. Most of the repository's Python is in `bundle/` (a plugin for snippets,
  one for undo trees, a file of nearly 49000 lines of benchmark
  data), none of it written for this configuration, and the models say nothing about it. Of the Python that is,
  the core of `rst2ctags` is modelled. Most of the repository's own logic is in
  VimL and in scripts without a suffix, which is where most of the modules are
  at home.
- Regular expressions, colours, messages.

## Plan

What would come next, most state first:

1. `MarkdownSections`, the loop of `markdown2ctags`, over `SectionStack`.
2. `Gentags`: crashes between the steps of `ctags`, the sort and the rename.
3. `CheckerModes` and `QuietMessages`: the lists of file types, and dictionaries
   shared or copied.
4. `OneWindow` and `HelpToggle` in `QuickFixWindows`, once the restoring of
   layouts is pinned down by experiment.
5. `SetupGit` and `SetupSvn` in `Highlight`, with both orders of the events.
6. `WindowViews`: `w:SavedBufView` and the autocommands around it.

Proofs to come: those of the modules above. Of what there is, only the two liveness
properties have no proof.
