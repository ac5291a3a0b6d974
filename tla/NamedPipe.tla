----------------------------- MODULE NamedPipe -----------------------------
(***************************************************************************)
(* The part of the file system and of named pipes (fifo(7)) that the two   *)
(* scripts of src/tool/fifosignal use: one name, ".fifo", in each          *)
(* directory, and at most one open descriptor per process.                 *)
(***************************************************************************)
EXTENDS Naturals, FiniteSets

CONSTANTS
    Dirs,     \* directories, each with or without an entry ".fifo"
    Inodes,   \* a pool of inode numbers, enough for all names and descriptors
    Readers,  \* processes that open for reading
    Writers   \* processes that open for writing

\* A name and a process refer to one inode at most; a system does not run out
\* of them.
ASSUME InodesAssumption ==
    /\ Inodes \subseteq Nat \ {0}
    /\ IsFiniteSet(Dirs) /\ IsFiniteSet(Readers) /\ IsFiniteSet(Writers)
    /\ IsFiniteSet(Inodes)
    /\ Cardinality(Dirs) + Cardinality(Readers) + Cardinality(Writers)
          <= Cardinality(Inodes)

ASSUME ProcsAssumption == Readers \cap Writers = {}

VARIABLES
    name,    \* directory -> the inode ".fifo" names there, or None
    node,    \* inode -> its kind, and whether it holds a line to read
    fd,      \* process -> the inode it has open, or None
    blocked  \* the processes waiting in open() for a partner

pipeVars == <<name, node, fd, blocked>>
Procs    == Readers \cup Writers
None     == 0
Free     == [kind |-> "free", line |-> FALSE]
New(kind) == [kind |-> kind, line |-> FALSE]

\* The inode a new file gets.
FreeInode == CHOOSE n \in Inodes : node[n] = Free

ReadersOf(n) == {p \in Readers : fd[p] = n}
WritersOf(n) == {p \in Writers : fd[p] = n}
IsFifo(d)    == name[d] # None /\ node[name[d]].kind = "fifo"
Exists(d)    == name[d] # None

\* An inode without name and descriptor is free; a pipe nobody has open is
\* empty.
Collected(nodes, names, fds) ==
    [n \in Inodes |->
        LET open == \E p \in Procs : fds[p] = n
        IN  IF ~open /\ \A d \in Dirs : names[d] # n THEN Free
            ELSE IF ~open /\ nodes[n].kind = "fifo" THEN New("fifo")
            ELSE nodes[n]]

Mkfifo(d) ==
    /\ ~Exists(d)
    /\ name' = [name EXCEPT ![d] = FreeInode]
    /\ node' = [node EXCEPT ![FreeInode] = New("fifo")]
    /\ UNCHANGED <<fd, blocked>>

Unlink(d) ==
    /\ name' = [name EXCEPT ![d] = None]
    /\ node' = Collected(node, name', fd)
    /\ UNCHANGED <<fd, blocked>>

\* open() of a pipe waits until the other end is open, too, and wakes whoever
\* waits for it there.
Meet(p, partners) ==
    blocked' = IF partners = {} THEN blocked \cup {p} ELSE blocked \ partners

OpenRead(p, d) ==
    /\ Exists(d)
    /\ fd' = [fd EXCEPT ![p] = name[d]]
    /\ IF IsFifo(d) THEN Meet(p, WritersOf(name[d])) ELSE UNCHANGED blocked
    /\ UNCHANGED <<name, node>>

\* open(O_WRONLY | O_CREAT | O_TRUNC)
OpenWrite(p, d) ==
    \/ /\ IsFifo(d)
       /\ fd' = [fd EXCEPT ![p] = name[d]]
       /\ Meet(p, ReadersOf(name[d]))
       /\ UNCHANGED <<name, node>>
    \/ /\ ~IsFifo(d)
       /\ LET n == IF Exists(d) THEN name[d] ELSE FreeInode
          IN  /\ name' = [name EXCEPT ![d] = n]
              /\ node' = [node EXCEPT ![n] = New("file")]
              /\ fd' = [fd EXCEPT ![p] = n]
       /\ UNCHANGED blocked

\* A pipe without reader: the writer gets SIGPIPE.
Broken(p) == node[fd[p]].kind = "fifo" /\ ReadersOf(fd[p]) = {}

Write(p) ==
    /\ p \notin blocked /\ ~Broken(p)
    /\ node' = [node EXCEPT ![fd[p]].line = TRUE]
    /\ UNCHANGED <<name, fd, blocked>>

\* read() returns a line, or end-of-file when there is none and no writer.
LineToRead(p) == p \notin blocked /\ node[fd[p]].line
EndOfFile(p)  == p \notin blocked /\ ~node[fd[p]].line /\ WritersOf(fd[p]) = {}

\* The process reads what it reads and closes, or ends with a signal.
Close(p) ==
    /\ fd' = [fd EXCEPT ![p] = None]
    /\ blocked' = blocked \ {p}
    /\ node' = Collected(node, name, fd')
    /\ UNCHANGED name

PipeInit ==
    /\ name = [d \in Dirs |-> None]
    /\ node = [n \in Inodes |-> Free]
    /\ fd = [p \in Procs |-> None]
    /\ blocked = {}

PipeTypeOK ==
    /\ name \in [Dirs -> Inodes \cup {None}]
    /\ node \in [Inodes -> [kind : {"free", "fifo", "file"}, line : BOOLEAN]]
    /\ fd \in [Procs -> Inodes \cup {None}]
    /\ blocked \subseteq Procs
=============================================================================
