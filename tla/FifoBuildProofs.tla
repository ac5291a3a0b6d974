-------------------------- MODULE FifoBuildProofs --------------------------
(***************************************************************************)
(* The safety properties of FifoBuild, for any number of directories,      *)
(* loops and Vims, with any number of interrupts and crashes.              *)
(***************************************************************************)
EXTENDS FifoBuild, FiniteSetTheorems, FunctionTheorems, TLAPS

(***************************************************************************)
(* The file system is consistent: what a name or a descriptor refers to    *)
(* exists, no two names refer to one inode, and nothing else exists.       *)
(***************************************************************************)
PipeInv ==
    /\ \A n \in Inodes : node[n].kind = "free" => node[n] = Free
    /\ \A d \in Dirs : name[d] # None => node[name[d]] # Free
    /\ \A p \in Procs : fd[p] # None => node[fd[p]] # Free
    /\ \A d, e \in Dirs : name[d] # None /\ name[d] = name[e] => d = e
    /\ \A n \in Inodes : node[n] # Free =>
        (\E d \in Dirs : name[d] = n) \/ (\E p \in Procs : fd[p] = n)

\* A process has a descriptor exactly between its open and its close, and the
\* one a signaler has, if its pipe still has a name, is of the directory it
\* looks at.
DescriptorsInv ==
    /\ \A d \in Readers : fd[d] # None <=> wpc[d] = "read"
    /\ \A s \in Writers : fd[s] # None <=> spc[s] \in {"write", "close"}
    /\ \A s \in Writers, d \in Dirs :
        name[d] # None /\ fd[s] = name[d] => dir[s] = d

\* A line in the pipe a fifowait is about to read was written since it started.
LinesFresh ==
    \A d \in Readers :
        wpc[d] \in {"open", "read"} /\ node[name[d]].line => heard[d]

IInv ==
    /\ TypeOK /\ PipeInv /\ DescriptorsInv /\ LinesFresh
    /\ WaitingIsReachable /\ FifoMeansWaiting /\ OnlyFreshSignals
-----------------------------------------------------------------------------
LEMMA NoneIsNoInode == None \notin Inodes
BY InodesAssumption DEF None

\* A function has at most as many values on a finite set as that has elements.
LEMMA ValuesBounded ==
    ASSUME NEW S, IsFiniteSet(S), NEW f
    PROVE  LET T == {f[x] : x \in S}
           IN  IsFiniteSet(T) /\ Cardinality(T) <= Cardinality(S)
<1> DEFINE T == {f[x] : x \in S}
           g == [x \in S |-> f[x]]
<1>1. g \in [S -> T] /\ \A t \in T : \E x \in S : g[x] = t
  OBVIOUS
<1> HIDE DEF T, g
<1>2. g \in Surjection(S, T)
  BY <1>1, Fun_IsSurj
<1>3. IsFiniteSet(T) /\ Cardinality(T) <= Cardinality(S)
  BY <1>2, FS_Surjection
<1> QED  BY <1>3 DEF T

\* There is an inode for a new file.
LEMMA FreeInodeExists ==
    ASSUME PipeTypeOK, PipeInv, NEW d \in Dirs, name[d] = None
    PROVE  FreeInode \in Inodes /\ node[FreeInode] = Free
<1> DEFINE named == {name[e] : e \in Dirs \ {d}}
           read  == {fd[p] : p \in Readers}
           wrtn  == {fd[p] : p \in Writers}
<1>1. \E n \in Inodes : node[n] = Free
  <2>1. SUFFICES ASSUME \A n \in Inodes : node[n] # Free PROVE FALSE
    OBVIOUS
  <2>2. Inodes \subseteq (named \cup read) \cup wrtn
    <3>1. SUFFICES ASSUME NEW n \in Inodes PROVE n \in (named \cup read) \cup wrtn
      OBVIOUS
    <3>2. CASE \E e \in Dirs : name[e] = n
      BY <3>2, NoneIsNoInode
    <3>3. CASE \E p \in Procs : fd[p] = n
      BY <3>3 DEF Procs
    <3> QED  BY <2>1, <3>2, <3>3 DEF PipeInv
  <2>3. /\ IsFiniteSet(Dirs \ {d})
        /\ Cardinality(Dirs \ {d}) = Cardinality(Dirs) - 1
    BY InodesAssumption, FS_RemoveElement
  <2>4. IsFiniteSet(named) /\ Cardinality(named) <= Cardinality(Dirs) - 1
    <3>1. IsFiniteSet(named) /\ Cardinality(named) <= Cardinality(Dirs \ {d})
      BY <2>3, ValuesBounded
    <3> QED  BY <2>3, <3>1
  <2>5. IsFiniteSet(read) /\ Cardinality(read) <= Cardinality(Readers)
    BY InodesAssumption, ValuesBounded
  <2>6. IsFiniteSet(wrtn) /\ Cardinality(wrtn) <= Cardinality(Writers)
    BY InodesAssumption, ValuesBounded
  <2> HIDE DEF named, read, wrtn
  <2>7. /\ Cardinality(named) \in Nat /\ Cardinality(read) \in Nat
        /\ Cardinality(wrtn) \in Nat /\ Cardinality(Dirs) \in Nat
        /\ Cardinality(Readers) \in Nat /\ Cardinality(Writers) \in Nat
        /\ Cardinality(Inodes) \in Nat
    BY <2>4, <2>5, <2>6, InodesAssumption, FS_CardinalityType
  <2>8. /\ IsFiniteSet(named \cup read)
        /\ Cardinality(named \cup read) <= Cardinality(named) + Cardinality(read)
        /\ Cardinality(named \cup read) \in Nat
    <3>1. /\ IsFiniteSet(named \cup read)
          /\ Cardinality(named \cup read)
                = Cardinality(named) + Cardinality(read) - Cardinality(named \cap read)
      BY <2>4, <2>5, FS_Union
    <3>2. Cardinality(named \cap read) \in Nat
      BY <2>4, FS_Intersection, FS_CardinalityType
    <3>3. Cardinality(named \cup read) \in Nat
      BY <3>1, FS_CardinalityType
    <3> QED  BY <2>7, <3>1, <3>2, <3>3
  <2>9. /\ IsFiniteSet((named \cup read) \cup wrtn)
        /\ Cardinality((named \cup read) \cup wrtn)
              <= Cardinality(named \cup read) + Cardinality(wrtn)
        /\ Cardinality((named \cup read) \cup wrtn) \in Nat
    <3>1. /\ IsFiniteSet((named \cup read) \cup wrtn)
          /\ Cardinality((named \cup read) \cup wrtn)
                = Cardinality(named \cup read) + Cardinality(wrtn)
                    - Cardinality((named \cup read) \cap wrtn)
      BY <2>6, <2>8, FS_Union
    <3>2. Cardinality((named \cup read) \cap wrtn) \in Nat
      BY <2>8, FS_Intersection, FS_CardinalityType
    <3>3. Cardinality((named \cup read) \cup wrtn) \in Nat
      BY <3>1, FS_CardinalityType
    <3> QED  BY <2>7, <2>8, <3>1, <3>2, <3>3
  <2>10. Cardinality(Inodes) <= Cardinality((named \cup read) \cup wrtn)
    BY <2>2, <2>9, FS_Subset
  <2> QED  BY <2>4, <2>5, <2>6, <2>7, <2>8, <2>9, <2>10, InodesAssumption
<1> QED  BY <1>1 DEF FreeInode
-----------------------------------------------------------------------------
(***************************************************************************)
(* What each operation on the file system does, and that it keeps it       *)
(* consistent.                                                             *)
(***************************************************************************)
Node == [kind : {"free", "fifo", "file"}, line : BOOLEAN]

LEMMA NodeTypes ==
    /\ Free \in Node /\ New("fifo") \in Node /\ New("file") \in Node
    /\ New("fifo") # Free /\ New("file") # Free
    /\ New("fifo").kind = "fifo" /\ New("file").kind = "file"
    /\ ~New("fifo").line /\ ~New("file").line
BY DEF Node, Free, New

LEMMA MkfifoResult ==
    ASSUME PipeTypeOK, PipeInv, NEW d \in Dirs, Mkfifo(d)
    PROVE  /\ PipeTypeOK' /\ PipeInv'
           /\ name'[d] \in Inodes /\ node'[name'[d]] = New("fifo")
           /\ node[name'[d]] = Free
           /\ \A e \in Dirs \ {d} : name'[e] = name[e]
           /\ \A n \in Inodes : node[n] # Free => node'[n] = node[n]
           /\ fd' = fd
<1> DEFINE f == FreeInode
<1>1. name[d] = None
  BY DEF Mkfifo, Exists
<1>2. f \in Inodes /\ node[f] = Free /\ f # None
  BY <1>1, FreeInodeExists, NoneIsNoInode
<1> HIDE DEF f
<1>3. /\ name' = [name EXCEPT ![d] = f]
      /\ node' = [node EXCEPT ![f] = New("fifo")]
      /\ fd' = fd /\ blocked' = blocked
  BY DEF Mkfifo, f
<1>4. /\ name \in [Dirs -> Inodes \cup {None}] /\ node \in [Inodes -> Node]
      /\ fd \in [Procs -> Inodes \cup {None}] /\ blocked \subseteq Procs
  BY DEF PipeTypeOK, Node
<1>5. PipeTypeOK'
  BY <1>2, <1>3, <1>4, NodeTypes DEF PipeTypeOK, Node
<1>6. /\ \A e \in Dirs : name'[e] = IF e = d THEN f ELSE name[e]
      /\ \A n \in Inodes : node'[n] = IF n = f THEN New("fifo") ELSE node[n]
  BY <1>2, <1>3, <1>4
<1>7. PipeInv'
  <2>1. \A n \in Inodes : node'[n].kind = "free" => node'[n] = Free
    BY <1>6, NodeTypes DEF PipeInv
  <2>2. \A e \in Dirs : name'[e] # None => node'[name'[e]] # Free
    BY <1>2, <1>4, <1>6, NodeTypes DEF PipeInv
  <2>3. \A p \in Procs : fd'[p] # None => node'[fd'[p]] # Free
    BY <1>2, <1>3, <1>4, <1>6, NodeTypes DEF PipeInv
  <2>4. \A e \in Dirs : name[e] # f
    BY <1>2 DEF PipeInv
  <2>5. \A e, g \in Dirs : name'[e] # None /\ name'[e] = name'[g] => e = g
    BY <1>6, <2>4 DEF PipeInv
  <2>6. \A n \in Inodes : node'[n] # Free =>
          (\E e \in Dirs : name'[e] = n) \/ (\E p \in Procs : fd'[p] = n)
    BY <1>1, <1>3, <1>6, NoneIsNoInode DEF PipeInv
  <2> QED  BY <2>1, <2>2, <2>3, <2>5, <2>6 DEF PipeInv
<1> QED  BY <1>2, <1>3, <1>5, <1>6, <1>7

\* Each inode stays what it is, or is emptied or freed.
EmptiedOnly ==
    \A n \in Inodes : /\ node'[n].line => node[n].line
                      /\ node'[n] # Free => node'[n].kind = node[n].kind

\* Removing names and descriptors keeps the inodes that are still referred to,
\* and may only empty them.
LEMMA CollectedResult ==
    ASSUME PipeTypeOK, PipeInv,
           name' \in [Dirs -> Inodes \cup {None}],
           fd' \in [Procs -> Inodes \cup {None}],
           \A d \in Dirs : name'[d] \in {name[d], None},
           \A p \in Procs : fd'[p] \in {fd[p], None},
           node' = Collected(node, name', fd')
    PROVE  node' \in [Inodes -> Node] /\ PipeInv' /\ EmptiedOnly
<1> DEFINE Opened(n) == \E p \in Procs : fd'[p] = n
           Named(n)  == \E d \in Dirs : name'[d] = n
<1>1. \A n \in Inodes :
        node'[n] = IF ~Opened(n) /\ ~Named(n) THEN Free
                   ELSE IF ~Opened(n) /\ node[n].kind = "fifo" THEN New("fifo")
                   ELSE node[n]
  BY DEF Collected
<1>2. node \in [Inodes -> Node]
  BY DEF PipeTypeOK, Node
<1>3. node' \in [Inodes -> Node]
  <2>1. \A n \in Inodes : node'[n] \in Node
    BY <1>1, <1>2, NodeTypes
  <2>2. node' = [n \in Inodes |-> node'[n]]
    BY DEF Collected
  <2> QED  BY <2>1, <2>2
<1>4. \A n \in Inodes : node[n].kind # "free" => node'[n] # Free \/ (~Opened(n) /\ ~Named(n))
  BY <1>1, NodeTypes DEF Free
<1>5. \A n \in Inodes : node[n] # Free => node[n].kind # "free"
  BY DEF PipeInv
<1>6. /\ \A d \in Dirs : name'[d] # None => node'[name'[d]] # Free
      /\ \A p \in Procs : fd'[p] # None => node'[fd'[p]] # Free
  <2>1. ASSUME NEW d \in Dirs, name'[d] # None PROVE node'[name'[d]] # Free
    <3>1. name'[d] = name[d] /\ name[d] \in Inodes /\ node[name[d]] # Free
      BY <2>1 DEF PipeInv
    <3> QED  BY <1>4, <1>5, <3>1
  <2>2. ASSUME NEW p \in Procs, fd'[p] # None PROVE node'[fd'[p]] # Free
    <3>1. fd'[p] = fd[p] /\ fd[p] \in Inodes /\ node[fd[p]] # Free
      BY <2>2 DEF PipeInv
    <3> QED  BY <1>4, <1>5, <3>1
  <2> QED  BY <2>1, <2>2
<1>7. \A n \in Inodes : node'[n].kind = "free" => node'[n] = Free
  BY <1>1, NodeTypes DEF PipeInv
<1>8. \A d, e \in Dirs : name'[d] # None /\ name'[d] = name'[e] => d = e
  BY DEF PipeInv
<1>9. \A n \in Inodes : node'[n] # Free => Named(n) \/ Opened(n)
  BY <1>1
<1>10. PipeInv'
  BY <1>6, <1>7, <1>8, <1>9 DEF PipeInv
<1>11. EmptiedOnly
  BY <1>1, NodeTypes DEF Free, EmptiedOnly
<1> QED  BY <1>3, <1>10, <1>11

LEMMA UnlinkResult ==
    ASSUME PipeTypeOK, PipeInv, NEW d \in Dirs, Unlink(d)
    PROVE  /\ PipeTypeOK' /\ PipeInv' /\ EmptiedOnly
           /\ name'[d] = None /\ \A e \in Dirs \ {d} : name'[e] = name[e]
           /\ fd' = fd
<1>1. /\ name' = [name EXCEPT ![d] = None] /\ fd' = fd /\ blocked' = blocked
      /\ node' = Collected(node, name', fd')
  BY DEF Unlink
<1>2. /\ name \in [Dirs -> Inodes \cup {None}]
      /\ fd \in [Procs -> Inodes \cup {None}] /\ blocked \subseteq Procs
  BY DEF PipeTypeOK
<1>3. /\ name' \in [Dirs -> Inodes \cup {None}]
      /\ \A e \in Dirs : name'[e] = IF e = d THEN None ELSE name[e]
  BY <1>1, <1>2
<1>4. node' \in [Inodes -> Node] /\ PipeInv' /\ EmptiedOnly
  BY <1>1, <1>2, <1>3, CollectedResult
<1> QED  BY <1>1, <1>2, <1>3, <1>4 DEF PipeTypeOK, Node

LEMMA CloseResult ==
    ASSUME PipeTypeOK, PipeInv, NEW p \in Procs, Close(p)
    PROVE  /\ PipeTypeOK' /\ PipeInv' /\ EmptiedOnly
           /\ fd'[p] = None /\ \A q \in Procs \ {p} : fd'[q] = fd[q]
           /\ name' = name
<1>1. /\ fd' = [fd EXCEPT ![p] = None] /\ name' = name
      /\ blocked' = blocked \ {p}
      /\ node' = Collected(node, name', fd')
  BY DEF Close
<1>2. /\ name \in [Dirs -> Inodes \cup {None}]
      /\ fd \in [Procs -> Inodes \cup {None}] /\ blocked \subseteq Procs
  BY DEF PipeTypeOK
<1>3. /\ fd' \in [Procs -> Inodes \cup {None}]
      /\ \A q \in Procs : fd'[q] = IF q = p THEN None ELSE fd[q]
  BY <1>1, <1>2
<1>4. node' \in [Inodes -> Node] /\ PipeInv' /\ EmptiedOnly
  BY <1>1, <1>2, <1>3, CollectedResult
<1> QED  BY <1>1, <1>2, <1>3, <1>4 DEF PipeTypeOK, Node

LEMMA OpenReadResult ==
    ASSUME PipeTypeOK, PipeInv, NEW p \in Procs, NEW d \in Dirs,
           fd[p] = None, OpenRead(p, d)
    PROVE  /\ PipeTypeOK' /\ PipeInv'
           /\ fd'[p] = name[d] /\ name[d] # None
           /\ \A q \in Procs \ {p} : fd'[q] = fd[q]
           /\ name' = name /\ node' = node
<1>1. /\ name[d] # None /\ name' = name /\ node' = node
      /\ fd' = [fd EXCEPT ![p] = name[d]]
  BY DEF OpenRead, Exists
<1>2. /\ name \in [Dirs -> Inodes \cup {None}]
      /\ fd \in [Procs -> Inodes \cup {None}] /\ blocked \subseteq Procs
  BY DEF PipeTypeOK
<1>3. blocked' \subseteq Procs
  BY <1>2 DEF OpenRead, Meet
<1>4. /\ fd' \in [Procs -> Inodes \cup {None}]
      /\ \A q \in Procs : fd'[q] = IF q = p THEN name[d] ELSE fd[q]
  BY <1>1, <1>2
<1>5. PipeTypeOK'
  BY <1>1, <1>3, <1>4 DEF PipeTypeOK
<1>6. PipeInv'
  <2>1. \A q \in Procs : fd'[q] # None => node'[fd'[q]] # Free
    BY <1>1, <1>4 DEF PipeInv
  <2>2. ASSUME NEW n \in Inodes, node'[n] # Free
        PROVE  (\E e \in Dirs : name'[e] = n) \/ (\E q \in Procs : fd'[q] = n)
    BY <1>1, <1>4, <2>2, NoneIsNoInode DEF PipeInv
  <2> QED  BY <1>1, <2>1, <2>2 DEF PipeInv
<1> QED  BY <1>1, <1>4, <1>5, <1>6

\* Process p opens inode n, which is the one of directory d from then on.
OpensForWriting(p, d, n) ==
    /\ n \in Inodes /\ name'[d] = n /\ fd'[p] = n
    /\ \A e \in Dirs \ {d} : name'[e] = name[e]
    /\ \A q \in Procs \ {p} : fd'[q] = fd[q]
    /\ name[d] # None => n = name[d]
    /\ name[d] = None => node[n] = Free
    /\ IF IsFifo(d) THEN node' = node ELSE node'[n] = New("file")
    /\ \A m \in Inodes \ {n} : node'[m] = node[m]

LEMMA OpenWriteResult ==
    ASSUME PipeTypeOK, PipeInv, NEW p \in Procs, NEW d \in Dirs,
           fd[p] = None, OpenWrite(p, d)
    PROVE  /\ PipeTypeOK' /\ PipeInv'
           /\ \E n \in Inodes : OpensForWriting(p, d, n)
<1> DEFINE n == IF Exists(d) THEN name[d] ELSE FreeInode
<1>1. /\ name \in [Dirs -> Inodes \cup {None}] /\ node \in [Inodes -> Node]
      /\ fd \in [Procs -> Inodes \cup {None}] /\ blocked \subseteq Procs
  BY DEF PipeTypeOK, Node
<1>2. /\ n \in Inodes
      /\ name[d] # None => n = name[d]
      /\ name[d] = None => node[n] = Free
      /\ IsFifo(d) => name[d] # None
  BY <1>1, FreeInodeExists DEF Exists, IsFifo
<1>3. /\ name' \in [Dirs -> Inodes \cup {None}] /\ node' \in [Inodes -> Node]
      /\ \A e \in Dirs : name'[e] = IF e = d THEN n ELSE name[e]
      /\ IF IsFifo(d) THEN node' = node ELSE node'[n] = New("file")
      /\ \A m \in Inodes \ {n} : node'[m] = node[m]
      /\ fd' = [fd EXCEPT ![p] = n]
  <2>1. CASE IsFifo(d)
    <3>1. name' = name /\ node' = node /\ fd' = [fd EXCEPT ![p] = n]
      BY <1>2, <2>1 DEF OpenWrite
    <3> QED  BY <1>1, <1>2, <2>1, <3>1
  <2>2. CASE ~IsFifo(d)
    <3>1. /\ name' = [name EXCEPT ![d] = n]
          /\ node' = [node EXCEPT ![n] = New("file")]
          /\ fd' = [fd EXCEPT ![p] = n]
      BY <2>2 DEF OpenWrite
    <3> QED  BY <1>1, <1>2, <2>2, <3>1, NodeTypes
  <2> QED  BY <2>1, <2>2
<1> HIDE DEF n
<1>4. /\ fd' \in [Procs -> Inodes \cup {None}]
      /\ \A q \in Procs : fd'[q] = IF q = p THEN n ELSE fd[q]
  BY <1>1, <1>2, <1>3
<1>5. blocked' \subseteq Procs
  BY <1>1 DEF OpenWrite, Meet
<1>6. OpensForWriting(p, d, n)
  BY <1>2, <1>3, <1>4 DEF OpensForWriting
<1>7. node'[n] # Free
  BY <1>2, <1>3, NodeTypes DEF PipeInv
<1>8. PipeInv'
  <2>1. \A m \in Inodes : node'[m].kind = "free" => node'[m] = Free
    BY <1>3, NodeTypes DEF PipeInv
  <2>2. \A e \in Dirs : name'[e] # None => node'[name'[e]] # Free
    BY <1>1, <1>3, <1>7 DEF PipeInv
  <2>3. \A q \in Procs : fd'[q] # None => node'[fd'[q]] # Free
    BY <1>1, <1>3, <1>4, <1>7 DEF PipeInv
  <2>4. \A e \in Dirs \ {d} : name[e] # n
    BY <1>2, NoneIsNoInode DEF PipeInv
  <2>5. \A e, g \in Dirs : name'[e] # None /\ name'[e] = name'[g] => e = g
    BY <1>3, <2>4 DEF PipeInv
  <2>6. ASSUME NEW m \in Inodes, node'[m] # Free
        PROVE  (\E e \in Dirs : name'[e] = m) \/ (\E q \in Procs : fd'[q] = m)
    <3>1. CASE m = n
      BY <1>3, <3>1
    <3>2. CASE m # n
      <4>1. node[m] # Free
        BY <1>3, <2>6, <3>2
      <4>2. CASE \E e \in Dirs : name[e] = m
        BY <1>2, <1>3, <3>2, <4>2, NoneIsNoInode
      <4>3. CASE \E q \in Procs : fd[q] = m
        BY <1>4, <4>3, NoneIsNoInode
      <4> QED  BY <4>1, <4>2, <4>3 DEF PipeInv
    <3> QED  BY <3>1, <3>2
  <2> QED  BY <2>1, <2>2, <2>3, <2>5, <2>6 DEF PipeInv
<1> QED  BY <1>2, <1>3, <1>4, <1>5, <1>6, <1>8 DEF PipeTypeOK, Node

LEMMA WriteResult ==
    ASSUME PipeTypeOK, PipeInv, NEW p \in Procs, fd[p] # None, Write(p)
    PROVE  /\ PipeTypeOK' /\ PipeInv'
           /\ name' = name /\ fd' = fd
           /\ \A m \in Inodes : node'[m].kind = node[m].kind
           /\ \A m \in Inodes \ {fd[p]} : node'[m] = node[m]
<1> DEFINE n == fd[p]
<1>1. n \in Inodes /\ node[n] \in Node /\ node[n] # Free
  BY DEF PipeTypeOK, PipeInv, Node
<1>2. /\ node' = [node EXCEPT ![n].line = TRUE]
      /\ name' = name /\ fd' = fd /\ blocked' = blocked
  BY DEF Write
<1>3. node \in [Inodes -> Node]
  BY DEF PipeTypeOK, Node
<1>4. /\ node'[n] = [node[n] EXCEPT !.line = TRUE]
      /\ \A m \in Inodes \ {n} : node'[m] = node[m]
  BY <1>1, <1>2, <1>3
<1>5. /\ node'[n] \in Node /\ node'[n].kind = node[n].kind
      /\ node'[n] # Free
  <2>1. node'[n] = [kind |-> node[n].kind, line |-> TRUE]
    BY <1>1, <1>4 DEF Node
  <2>2. node[n].kind \in {"free", "fifo", "file"}
    BY <1>1 DEF Node
  <2> QED  BY <2>1, <2>2 DEF Node, Free
<1>6. node' \in [Inodes -> Node]
  BY <1>1, <1>2, <1>3, <1>5 DEF Node
<1>7. PipeTypeOK'
  BY <1>2, <1>6 DEF PipeTypeOK, Node
<1>8. PipeInv'
  <2>1. node[n].kind # "free"
    BY <1>1 DEF PipeInv
  <2>2. \A m \in Inodes : /\ node'[m].kind = node[m].kind
                          /\ node'[m] # Free <=> node[m] # Free
    BY <1>1, <1>4, <1>5
  <2>3. \A m \in Inodes : node'[m].kind = "free" => node'[m] = Free
    BY <1>4, <1>5, <2>1 DEF PipeInv
  <2> QED  BY <1>2, <2>2, <2>3 DEF PipeInv, PipeTypeOK
<1> QED  BY <1>2, <1>4, <1>5, <1>7, <1>8
-----------------------------------------------------------------------------
(***************************************************************************)
(* Each action preserves the invariant.                                    *)
(***************************************************************************)
LEMMA Types ==
    ASSUME IInv
    PROVE  /\ PipeTypeOK /\ PipeInv
           /\ \A d \in Dirs : name[d] # None =>
                 name[d] \in Inodes /\ node[name[d]] # Free
           /\ \A p \in Procs : fd[p] # None =>
                 fd[p] \in Inodes /\ node[fd[p]] # Free
           /\ dir \in [Writers -> Dirs] /\ heard \in [Readers -> BOOLEAN]
           /\ built \in [Writers -> SUBSET Dirs]
           /\ Readers \subseteq Dirs /\ Readers \subseteq Procs
           /\ Writers \subseteq Procs /\ Readers \cap Writers = {}
BY FifoAssumption, ProcsAssumption DEF IInv, TypeOK, Procs, PipeTypeOK, PipeInv

LEMMA InitSafe ==
    ASSUME Init
    PROVE  IInv
<1>1. TypeOK
  BY FifoAssumption, NodeTypes
     DEF Init, TypeOK, PipeInit, PipeTypeOK, Free
<1>2. PipeInv
  BY DEF Init, PipeInit, PipeInv
<1>3. DescriptorsInv
  BY DEF Init, PipeInit, DescriptorsInv, Procs
<1>4. WaitingIsReachable /\ FifoMeansWaiting /\ OnlyFreshSignals /\ LinesFresh
  BY DEF Init, PipeInit, WaitingIsReachable, FifoMeansWaiting, OnlyFreshSignals,
         LinesFresh, IsFifo
<1> QED  BY <1>1, <1>2, <1>3, <1>4 DEF IInv

WaitPcs == {"loop", "mkfifo", "open", "read", "succeeded", "failing", "build",
            "stopped"}
SignalPcs == {"idle", "scan", "test", "open", "write", "close", "sent", "failed"}

LEMMA WaitStepResult ==
    ASSUME TypeOK, NEW d \in Readers, NEW from, NEW to \in WaitPcs,
           WaitStep(d, from, to)
    PROVE  /\ wpc[d] = from /\ wpc' \in [Readers -> WaitPcs]
           /\ \A e \in Readers : wpc'[e] = IF e = d THEN to ELSE wpc[e]
BY DEF WaitStep, TypeOK, WaitPcs

LEMMA SignalStepResult ==
    ASSUME TypeOK, NEW s \in Writers, NEW from, NEW to \in SignalPcs,
           SignalStep(s, from, to)
    PROVE  /\ spc[s] = from /\ spc' \in [Writers -> SignalPcs]
           /\ \A t \in Writers : spc'[t] = IF t = s THEN to ELSE spc[t]
BY DEF SignalStep, TypeOK, SignalPcs

\* A directory whose entry stays the same keeps its pipe, and no line appears.
LEMMA SameName ==
    ASSUME PipeTypeOK, PipeInv', EmptiedOnly, NEW d \in Dirs, name'[d] = name[d]
    PROVE  /\ IsFifo(d)' <=> IsFifo(d)
           /\ name[d] # None /\ node'[name'[d]].line => node[name[d]].line
<1>1. CASE name[d] = None
  BY <1>1 DEF IsFifo
<1>2. CASE name[d] # None
  <2>1. name[d] \in Inodes
    BY <1>2 DEF PipeTypeOK
  <2>2. node'[name[d]] # Free
    BY <1>2 DEF PipeInv
  <2> QED  BY <2>1, <2>2 DEF EmptiedOnly, IsFifo
<1> QED  BY <1>1, <1>2

(***************************************************************************)
(* Steps of the loop.                                                      *)
(***************************************************************************)
\* Steps of the loop outside of fifowait's use of the pipe.
LEMMA QuietLoopStep ==
    ASSUME IInv, TypeOK', NEW d \in Readers,
           wpc[d] \notin {"open", "read"},
           wpc[d] \in {"succeeded", "failing"} \/ cut[d] => cut'[d],
           wpc'[d] \in {"loop", "mkfifo", "failing", "stopped"},
           \A e \in Readers \ {d} :
               wpc'[e] = wpc[e] /\ heard'[e] = heard[e] /\ cut'[e] = cut[e],
           UNCHANGED <<pipeVars, spc, dir>>
    PROVE  IInv'
<1>1. PipeInv'
  BY DEF IInv, PipeInv, pipeVars
<1>2. DescriptorsInv'
  BY DEF IInv, DescriptorsInv, pipeVars
<1>3. LinesFresh' /\ OnlyFreshSignals'
  BY DEF IInv, LinesFresh, OnlyFreshSignals, pipeVars
<1>4. WaitingIsReachable' /\ FifoMeansWaiting'
  BY DEF IInv, WaitingIsReachable, FifoMeansWaiting, IsFifo, pipeVars
<1> QED  BY <1>1, <1>2, <1>3, <1>4 DEF IInv

LEMMA StartWaitSafe ==
    ASSUME IInv, NEW d \in Readers, StartWait(d)
    PROVE  IInv'
<1>1. /\ wpc[d] = "loop" /\ wpc' \in [Readers -> WaitPcs]
      /\ \A e \in Readers : wpc'[e] = IF e = d THEN "mkfifo" ELSE wpc[e]
  BY WaitStepResult DEF StartWait, IInv, WaitPcs
<1>2. /\ heard' \in [Readers -> BOOLEAN]
      /\ \A e \in Readers \ {d} : heard'[e] = heard[e]
  BY Types DEF StartWait
<1>3. UNCHANGED <<pipeVars, spc, dir, stops, cut, built>>
  BY DEF StartWait
<1>4. TypeOK'
  BY <1>1, <1>2, <1>3 DEF IInv, TypeOK, PipeTypeOK, pipeVars, WaitPcs
<1> QED  BY <1>1, <1>2, <1>3, <1>4, QuietLoopStep

LEMMA RestartSafe ==
    ASSUME IInv, NEW d \in Readers, FinishBuild(d) \/ Restart(d)
    PROVE  IInv'
<1>1. /\ wpc[d] \in {"build", "stopped"} /\ wpc' \in [Readers -> WaitPcs]
      /\ \A e \in Readers : wpc'[e] = IF e = d THEN "loop" ELSE wpc[e]
  BY WaitStepResult DEF FinishBuild, Restart, IInv, WaitPcs
<1>2. UNCHANGED <<pipeVars, spc, dir, stops, cut, heard, built>>
  BY DEF FinishBuild, Restart
<1>3. TypeOK'
  BY <1>1, <1>2 DEF IInv, TypeOK, PipeTypeOK, pipeVars, WaitPcs
<1> QED  BY <1>1, <1>2, <1>3, QuietLoopStep

LEMMA MakeFifoSafe ==
    ASSUME IInv, NEW d \in Readers, MakeFifo(d)
    PROVE  IInv'
<1>1. UNCHANGED <<spc, dir, stops, cut, heard, built>>
  BY DEF MakeFifo
<1>2. CASE WaitStep(d, "mkfifo", "open") /\ Mkfifo(d)
  <2>1. /\ wpc[d] = "mkfifo" /\ wpc' \in [Readers -> WaitPcs]
        /\ \A e \in Readers : wpc'[e] = IF e = d THEN "open" ELSE wpc[e]
    BY <1>2, WaitStepResult DEF IInv, WaitPcs
  <2>2. /\ PipeTypeOK' /\ PipeInv'
        /\ name'[d] \in Inodes /\ node'[name'[d]] = New("fifo")
        /\ node[name'[d]] = Free
        /\ \A e \in Dirs \ {d} : name'[e] = name[e]
        /\ \A n \in Inodes : node[n] # Free => node'[n] = node[n]
        /\ fd' = fd
    BY <1>2, Types, MkfifoResult
  <2>3. TypeOK'
    BY <1>1, <2>1, <2>2 DEF IInv, TypeOK, WaitPcs
  <2>4. \A e \in Dirs \ {d} : /\ IsFifo(e)' <=> IsFifo(e)
                              /\ name[e] # None => node'[name'[e]] = node[name[e]]
    BY <2>2, Types DEF IsFifo
  <2>5. IsFifo(d)' /\ ~node'[name'[d]].line
    BY <2>2, NodeTypes, NoneIsNoInode DEF IsFifo
  <2>6. \A p \in Procs : fd[p] # name'[d]
    BY <2>2, Types, NoneIsNoInode DEF PipeInv
  <2>7. DescriptorsInv'
    BY <1>1, <2>1, <2>2, <2>6, Types DEF IInv, DescriptorsInv
  <2>8. WaitingIsReachable'
    BY <2>1, <2>2, <2>4, <2>5, Types DEF IInv, WaitingIsReachable
  <2>9. FifoMeansWaiting'
    BY <1>1, <2>1, <2>4, Types DEF IInv, FifoMeansWaiting
  <2>10. OnlyFreshSignals'
    BY <1>1, <2>1 DEF IInv, OnlyFreshSignals
  <2>11. LinesFresh'
    BY <1>1, <2>1, <2>4, <2>5, Types DEF IInv, LinesFresh, WaitingIsReachable, IsFifo
  <2> QED  BY <2>2, <2>3, <2>7, <2>8, <2>9, <2>10, <2>11 DEF IInv
<1>3. CASE WaitStep(d, "mkfifo", "failing") /\ UNCHANGED pipeVars
  <2>1. /\ wpc[d] = "mkfifo" /\ wpc' \in [Readers -> WaitPcs]
        /\ \A e \in Readers : wpc'[e] = IF e = d THEN "failing" ELSE wpc[e]
    BY <1>3, WaitStepResult DEF IInv, WaitPcs
  <2>2. TypeOK'
    BY <1>1, <1>3, <2>1 DEF IInv, TypeOK, PipeTypeOK, pipeVars, WaitPcs
  <2> QED  BY <1>1, <1>3, <2>1, <2>2, QuietLoopStep
<1> QED  BY <1>2, <1>3 DEF MakeFifo

LEMMA CloseKeepsNames ==
    ASSUME IInv, NEW p \in Procs, Close(p)
    PROVE  /\ PipeTypeOK' /\ PipeInv' /\ name' = name
           /\ fd'[p] = None /\ \A q \in Procs \ {p} : fd'[q] = fd[q]
           /\ \A e \in Dirs : IsFifo(e)' <=> IsFifo(e)
           /\ \A e \in Dirs : name[e] # None /\ node'[name[e]].line
                                => node[name[e]].line
<1>1. /\ PipeTypeOK' /\ PipeInv' /\ EmptiedOnly
      /\ fd'[p] = None /\ \A q \in Procs \ {p} : fd'[q] = fd[q]
      /\ name' = name
  BY Types, CloseResult
<1>2. ASSUME NEW e \in Dirs
      PROVE  /\ IsFifo(e)' <=> IsFifo(e)
             /\ name[e] # None /\ node'[name'[e]].line => node[name[e]].line
  BY <1>1, Types, SameName
<1> QED  BY <1>1, <1>2

LEMMA OpenForReadSafe ==
    ASSUME IInv, NEW d \in Readers, OpenForRead(d)
    PROVE  IInv'
<1>1. /\ wpc[d] = "open" /\ wpc' \in [Readers -> WaitPcs]
      /\ \A e \in Readers : wpc'[e] = IF e = d THEN "read" ELSE wpc[e]
  BY WaitStepResult DEF OpenForRead, IInv, WaitPcs
<1>2. UNCHANGED <<spc, dir, stops, cut, heard, built>>
  BY DEF OpenForRead
<1>3. fd[d] = None
  BY <1>1 DEF IInv, DescriptorsInv
<1>4. /\ PipeTypeOK' /\ PipeInv'
      /\ fd'[d] = name[d] /\ name[d] # None
      /\ \A q \in Procs \ {d} : fd'[q] = fd[q]
      /\ name' = name /\ node' = node
  BY <1>3, Types, OpenReadResult DEF OpenForRead
<1>5. TypeOK'
  BY <1>1, <1>2, <1>4 DEF IInv, TypeOK, WaitPcs
<1>6. DescriptorsInv'
  BY <1>1, <1>2, <1>4, Types DEF IInv, DescriptorsInv
<1>7. LinesFresh' /\ OnlyFreshSignals'
  BY <1>1, <1>2, <1>4 DEF IInv, LinesFresh, OnlyFreshSignals
<1>8. WaitingIsReachable'
  BY <1>1, <1>4, Types DEF IInv, WaitingIsReachable, IsFifo
<1>9. FifoMeansWaiting'
  BY <1>1, <1>2, <1>4 DEF IInv, FifoMeansWaiting, IsFifo
<1> QED  BY <1>4, <1>5, <1>6, <1>7, <1>8, <1>9 DEF IInv

\* The loop closes, having read a line, or fails.
LEMMA LoopCloses ==
    ASSUME IInv, TypeOK', NEW d \in Readers, Close(d),
           wpc'[d] \in {"succeeded", "failing", "stopped"},
           wpc'[d] = "succeeded" => wpc[d] = "read" /\ node[fd[d]].line,
           (wpc'[d] = "stopped" /\ IsFifo(d)) \/ cut[d] => cut'[d],
           \A e \in Readers \ {d} : wpc'[e] = wpc[e] /\ cut'[e] = cut[e],
           UNCHANGED <<spc, dir, heard>>
    PROVE  IInv'
<1>1. /\ PipeTypeOK' /\ PipeInv' /\ name' = name
      /\ fd'[d] = None /\ \A q \in Procs \ {d} : fd'[q] = fd[q]
      /\ \A e \in Dirs : IsFifo(e)' <=> IsFifo(e)
      /\ \A e \in Dirs : name[e] # None /\ node'[name[e]].line
                           => node[name[e]].line
  BY Types, CloseKeepsNames
<1>2. DescriptorsInv'
  BY <1>1, Types DEF IInv, DescriptorsInv
<1>3. LinesFresh'
  BY <1>1, Types DEF IInv, LinesFresh, WaitingIsReachable, IsFifo
<1>4. OnlyFreshSignals'
  BY DEF IInv, OnlyFreshSignals, LinesFresh, WaitingIsReachable
<1>5. WaitingIsReachable'
  BY <1>1, Types DEF IInv, WaitingIsReachable
<1>6. FifoMeansWaiting'
  BY <1>1, Types DEF IInv, FifoMeansWaiting
<1> QED  BY <1>1, <1>2, <1>3, <1>4, <1>5, <1>6 DEF IInv

LEMMA ReadSignalSafe ==
    ASSUME IInv, NEW d \in Readers, ReadSignal(d)
    PROVE  IInv'
<1>1. PICK to \in {"succeeded", "failing"} :
        /\ WaitStep(d, "read", to)
        /\ to = "succeeded" => LineToRead(d)
  BY DEF ReadSignal
<1>2. /\ wpc[d] = "read" /\ wpc' \in [Readers -> WaitPcs]
      /\ \A e \in Readers : wpc'[e] = IF e = d THEN to ELSE wpc[e]
  BY <1>1, WaitStepResult DEF IInv, WaitPcs
<1>3. Close(d) /\ UNCHANGED <<spc, dir, stops, cut, heard, built>>
  BY DEF ReadSignal
<1>4. PipeTypeOK'
  BY <1>3, Types, CloseKeepsNames
<1>5. TypeOK'
  BY <1>2, <1>3, <1>4 DEF IInv, TypeOK, WaitPcs
<1> QED  BY <1>1, <1>2, <1>3, <1>5, LoopCloses DEF LineToRead

\* The trap removes the pipe, whatever the loop does then.
LEMMA LoopUnlinks ==
    ASSUME IInv, NEW d \in Readers, Unlink(d),
           wpc[d] \in {"succeeded", "failing"}, wpc'[d] \in {"build", "stopped"},
           wpc' \in [Readers -> WaitPcs], cut' \in [Readers -> BOOLEAN],
           stops' \in 0 .. MaxStops, built' \in [Writers -> SUBSET Dirs],
           \A e \in Readers \ {d} : wpc'[e] = wpc[e] /\ cut'[e] = cut[e],
           UNCHANGED <<spc, dir, heard>>
    PROVE  IInv'
<1>4. /\ PipeTypeOK' /\ PipeInv' /\ EmptiedOnly
      /\ name'[d] = None /\ \A e \in Dirs \ {d} : name'[e] = name[e]
      /\ fd' = fd
  BY Types, UnlinkResult
<1>5. TypeOK'
  BY <1>4 DEF IInv, TypeOK, WaitPcs
<1>6. /\ ~IsFifo(d)'
      /\ \A e \in Dirs \ {d} :
           /\ IsFifo(e)' <=> IsFifo(e)
           /\ name[e] # None /\ node'[name'[e]].line => node[name[e]].line
  <2>1. ASSUME NEW e \in Dirs \ {d}
        PROVE  /\ IsFifo(e)' <=> IsFifo(e)
               /\ name[e] # None /\ node'[name'[e]].line => node[name[e]].line
    BY <1>4, Types, SameName
  <2>2. ~IsFifo(d)'
    BY <1>4 DEF IsFifo
  <2> QED  BY <2>1, <2>2
<1>7. DescriptorsInv'
  BY <1>4, Types DEF IInv, DescriptorsInv
<1>8. LinesFresh'
  BY <1>6, Types DEF IInv, LinesFresh, WaitingIsReachable, IsFifo
<1>9. OnlyFreshSignals'
  BY DEF IInv, OnlyFreshSignals
<1>10. WaitingIsReachable'
  BY <1>4, <1>6, Types DEF IInv, WaitingIsReachable
<1>11. FifoMeansWaiting'
  BY <1>6, Types DEF IInv, FifoMeansWaiting
<1> QED  BY <1>4, <1>5, <1>7, <1>8, <1>9, <1>10, <1>11 DEF IInv

LEMMA RunTrapSafe ==
    ASSUME IInv, NEW d \in Readers, RunTrap(d)
    PROVE  IInv'
<1>1. PICK to \in {"build", "stopped"} :
        WaitStep(d, "succeeded", to) \/ WaitStep(d, "failing", to)
  BY DEF RunTrap
<1>2. /\ wpc[d] \in {"succeeded", "failing"} /\ wpc' \in [Readers -> WaitPcs]
      /\ \A e \in Readers : wpc'[e] = IF e = d THEN to ELSE wpc[e]
  BY <1>1, WaitStepResult DEF IInv, WaitPcs
<1>3. /\ Unlink(d) /\ UNCHANGED <<spc, dir, stops, heard>>
      /\ built' \in [Writers -> SUBSET Dirs] /\ stops' \in 0 .. MaxStops
      /\ cut' \in [Readers -> BOOLEAN]
      /\ \A e \in Readers \ {d} : cut'[e] = cut[e]
  BY Types DEF RunTrap, IInv, TypeOK
<1> QED  BY <1>1, <1>2, <1>3, LoopUnlinks

LEMMA InterruptSafe ==
    ASSUME IInv, NEW d \in Readers, Interrupt(d)
    PROVE  IInv'
<1>1. /\ stops < MaxStops /\ stops' = stops + 1
      /\ UNCHANGED <<spc, dir, heard, built>>
  BY DEF Interrupt
<1>2. stops' \in 0 .. MaxStops
  BY <1>1, FifoAssumption DEF IInv, TypeOK
<1>3. CASE (\E pc \in {"mkfifo", "open", "read"} : WaitStep(d, pc, "failing"))
              /\ Close(d) /\ UNCHANGED cut
  <2>1. /\ wpc' \in [Readers -> WaitPcs]
        /\ \A e \in Readers : wpc'[e] = IF e = d THEN "failing" ELSE wpc[e]
    BY <1>3, WaitStepResult DEF IInv, WaitPcs
  <2>2. PipeTypeOK'
    BY <1>3, Types, CloseKeepsNames
  <2>3. TypeOK'
    BY <1>1, <1>2, <1>3, <2>1, <2>2 DEF IInv, TypeOK, WaitPcs
  <2> QED  BY <1>1, <1>3, <2>1, <2>3, LoopCloses
<1>4. CASE (\E pc \in {"loop", "build"} : WaitStep(d, pc, "stopped"))
              /\ UNCHANGED <<pipeVars, cut>>
  <2>1. /\ wpc[d] \in {"loop", "build"} /\ wpc' \in [Readers -> WaitPcs]
        /\ \A e \in Readers : wpc'[e] = IF e = d THEN "stopped" ELSE wpc[e]
    BY <1>4, WaitStepResult DEF IInv, WaitPcs
  <2>2. TypeOK'
    BY <1>1, <1>2, <1>4, <2>1 DEF IInv, TypeOK, PipeTypeOK, pipeVars, WaitPcs
  <2> QED  BY <1>1, <1>4, <2>1, <2>2, QuietLoopStep
<1>5. CASE InterruptTrap(d)
  <2>1. /\ wpc[d] \in {"succeeded", "failing"} /\ wpc' \in [Readers -> WaitPcs]
        /\ \A e \in Readers : wpc'[e] = IF e = d THEN "stopped" ELSE wpc[e]
    BY <1>5, WaitStepResult DEF InterruptTrap, IInv, WaitPcs
  <2>2. /\ cut' \in [Readers -> BOOLEAN] /\ cut'[d]
        /\ \A e \in Readers \ {d} : cut'[e] = cut[e]
    BY <1>5 DEF InterruptTrap, IInv, TypeOK
  <2>3. CASE Unlink(d)
    <3>1. built' \in [Writers -> SUBSET Dirs]
      BY <1>1 DEF IInv, TypeOK
    <3> QED  BY <1>1, <1>2, <2>1, <2>2, <2>3, <3>1, LoopUnlinks
  <2>4. CASE UNCHANGED pipeVars
    <3>1. TypeOK'
      BY <1>1, <1>2, <2>1, <2>2, <2>4
         DEF IInv, TypeOK, PipeTypeOK, pipeVars, WaitPcs
    <3> QED  BY <1>1, <2>1, <2>2, <2>4, <3>1, QuietLoopStep
  <2> QED  BY <1>5, <2>3, <2>4 DEF InterruptTrap
<1> QED  BY <1>3, <1>4, <1>5 DEF Interrupt

LEMMA KillSafe ==
    ASSUME IInv, NEW d \in Readers, Kill(d)
    PROVE  IInv'
<1>1. /\ stops < MaxStops /\ stops' = stops + 1
      /\ Close(d) /\ UNCHANGED <<spc, dir, heard, built>>
      /\ wpc' = [wpc EXCEPT ![d] = "stopped"]
      /\ cut' = [cut EXCEPT ![d] = @ \/ wpc[d] \notin {"loop", "build"}]
  BY DEF Kill
<1>2. stops' \in 0 .. MaxStops
  BY <1>1, FifoAssumption DEF IInv, TypeOK
<1>6. /\ cut' \in [Readers -> BOOLEAN]
      /\ cut'[d] = (cut[d] \/ wpc[d] \notin {"loop", "build"})
      /\ \A e \in Readers \ {d} : cut'[e] = cut[e]
  BY <1>1, Zenon DEF IInv, TypeOK
<1>7. IsFifo(d) => cut[d] \/ wpc[d] \notin {"loop", "build"}
  BY Types DEF IInv, FifoMeansWaiting
<1>3. /\ wpc' \in [Readers -> WaitPcs]
      /\ \A e \in Readers : wpc'[e] = IF e = d THEN "stopped" ELSE wpc[e]
  BY <1>1 DEF IInv, TypeOK, WaitPcs
<1>4. PipeTypeOK'
  BY <1>1, Types, CloseKeepsNames
<1>5. TypeOK'
  BY <1>1, <1>2, <1>3, <1>4, <1>6 DEF IInv, TypeOK, WaitPcs
<1> QED  BY <1>1, <1>3, <1>5, <1>6, <1>7, LoopCloses

(***************************************************************************)
(* Steps of fifosignal.                                                    *)
(***************************************************************************)
LEMMA QuietSignalStep ==
    ASSUME IInv, TypeOK', NEW s \in Writers,
           spc[s] \notin {"write", "close"}, spc'[s] \notin {"write", "close"},
           \A t \in Writers \ {s} : spc'[t] = spc[t] /\ dir'[t] = dir[t],
           UNCHANGED <<pipeVars, wpc, cut, heard>>
    PROVE  IInv'
<1>1. PipeInv'
  BY DEF IInv, PipeInv, pipeVars
<1>2. DescriptorsInv'
  BY DEF IInv, DescriptorsInv, pipeVars
<1>3. LinesFresh' /\ OnlyFreshSignals'
  BY DEF IInv, LinesFresh, OnlyFreshSignals, pipeVars
<1>4. WaitingIsReachable' /\ FifoMeansWaiting'
  BY DEF IInv, WaitingIsReachable, FifoMeansWaiting, IsFifo, pipeVars
<1> QED  BY <1>1, <1>2, <1>3, <1>4 DEF IInv

LEMMA PressSafe ==
    ASSUME IInv, NEW s \in Writers, NEW d \in Dirs, NEW up \in BOOLEAN,
           Press(s, d, up)
    PROVE  IInv'
<1>1. PICK pc \in {"idle", "sent", "failed"} :
        SignalStep(s, pc, IF up THEN "scan" ELSE "test")
  BY DEF Press
<1>2. /\ spc[s] \in {"idle", "sent", "failed"} /\ spc' \in [Writers -> SignalPcs]
      /\ \A t \in Writers \ {s} : spc'[t] = spc[t]
      /\ spc'[s] \in {"scan", "test"}
  BY <1>1, SignalStepResult DEF IInv, SignalPcs
<1>3. /\ UNCHANGED <<pipeVars, wpc, stops, cut, heard>>
      /\ dir' \in [Writers -> Dirs] /\ built' \in [Writers -> SUBSET Dirs]
      /\ \A t \in Writers \ {s} : dir'[t] = dir[t]
  BY Types DEF Press
<1>4. TypeOK'
  BY <1>2, <1>3 DEF IInv, TypeOK, PipeTypeOK, pipeVars, SignalPcs
<1> QED  BY <1>2, <1>3, <1>4, QuietSignalStep

LEMMA ScanSafe ==
    ASSUME IInv, NEW s \in Writers, Scan(s)
    PROVE  IInv'
<1>1. UNCHANGED <<pipeVars, wpc, stops, cut, heard, built>>
  BY DEF Scan
<1>2. PICK to \in {"scan", "test"} : SignalStep(s, "scan", to)
  BY DEF Scan
<1>3. /\ spc[s] = "scan" /\ spc' \in [Writers -> SignalPcs]
      /\ \A t \in Writers : spc'[t] = IF t = s THEN to ELSE spc[t]
  BY <1>2, SignalStepResult DEF IInv, SignalPcs
<1>4. dir' \in [Writers -> Dirs] /\ \A t \in Writers \ {s} : dir'[t] = dir[t]
  <2>1. CASE UNCHANGED dir
    BY <2>1, Types
  <2>2. CASE dir[s] # Depth /\ dir' = [dir EXCEPT ![s] = @ + 1]
    <3>1. dir[s] + 1 \in Dirs
      BY <2>2, Types, FifoAssumption
    <3> QED  BY <2>2, <3>1, Types
  <2> QED  BY <2>1, <2>2 DEF Scan
<1>5. TypeOK'
  BY <1>1, <1>3, <1>4 DEF IInv, TypeOK, PipeTypeOK, pipeVars, SignalPcs
<1> QED  BY <1>1, <1>3, <1>4, <1>5, QuietSignalStep

LEMMA TestFifoSafe ==
    ASSUME IInv, NEW s \in Writers, TestFifo(s)
    PROVE  IInv'
<1>1. UNCHANGED <<pipeVars, wpc, dir, stops, cut, heard, built>>
  BY DEF TestFifo
<1>2. PICK to \in {"open", "failed"} : SignalStep(s, "test", to)
  BY DEF TestFifo
<1>3. /\ spc[s] = "test" /\ spc' \in [Writers -> SignalPcs]
      /\ \A t \in Writers : spc'[t] = IF t = s THEN to ELSE spc[t]
  BY <1>2, SignalStepResult DEF IInv, SignalPcs
<1>4. TypeOK'
  BY <1>1, <1>3 DEF IInv, TypeOK, PipeTypeOK, pipeVars, SignalPcs
<1> QED  BY <1>1, <1>3, <1>4, QuietSignalStep

LEMMA OpenForWriteSafe ==
    ASSUME IInv, NEW s \in Writers, OpenForWrite(s)
    PROVE  IInv'
<1>1. /\ spc[s] = "open" /\ spc' \in [Writers -> SignalPcs]
      /\ \A t \in Writers : spc'[t] = IF t = s THEN "write" ELSE spc[t]
  BY SignalStepResult DEF OpenForWrite, IInv, SignalPcs
<1>2. UNCHANGED <<wpc, dir, stops, cut, heard, built>>
  BY DEF OpenForWrite
<1>0. PICK d \in Dirs : d = dir[s]
  BY Types
<1>3. fd[s] = None /\ s \in Procs /\ d = dir[s]
  BY <1>0, <1>1, Types DEF IInv, DescriptorsInv
<1>4. OpenWrite(s, d)
  BY <1>3 DEF OpenForWrite
<1>5. PipeTypeOK' /\ PipeInv'
  BY <1>3, <1>4, Types, OpenWriteResult
<1>6. PICK n \in Inodes : OpensForWriting(s, d, n)
  BY <1>3, <1>4, Types, OpenWriteResult
<1>7. TypeOK'
  BY <1>1, <1>2, <1>5 DEF IInv, TypeOK, SignalPcs
<1>8. \A e \in Dirs \ {d} :
        /\ name'[e] = name[e]
        /\ name[e] # None => name[e] # n /\ node'[name[e]] = node[name[e]]
        /\ IsFifo(e)' <=> IsFifo(e)
  <2>1. \A e \in Dirs \ {d} : name[e] # None => name[e] # n
    BY <1>3, <1>6, Types DEF OpensForWriting, IInv, PipeInv
  <2> QED  BY <1>6, <2>1, Types DEF OpensForWriting, IsFifo
<1>9. /\ IsFifo(d) => name'[d] = name[d] /\ node' = node /\ IsFifo(d)'
      /\ ~IsFifo(d) => ~IsFifo(d)'
  BY <1>6, NodeTypes DEF OpensForWriting, IsFifo
<1>10. DescriptorsInv'
  <2>1. /\ fd'[s] = n /\ n # None /\ name'[d] = n
        /\ \A q \in Procs \ {s} : fd'[q] = fd[q]
    BY <1>6, NoneIsNoInode DEF OpensForWriting
  <2>2. \A r \in Readers : fd'[r] # None <=> wpc'[r] = "read"
    BY <1>2, <1>3, <2>1, Types DEF IInv, DescriptorsInv
  <2>3. \A t \in Writers : fd'[t] # None <=> spc'[t] \in {"write", "close"}
    BY <1>1, <2>1, Types DEF IInv, DescriptorsInv
  <2>4. ASSUME NEW t \in Writers, NEW e \in Dirs,
               name'[e] # None, fd'[t] = name'[e]
        PROVE  dir'[t] = e
    <3>1. CASE t = s
      <4>1. e = d
        BY <1>3, <1>5, <2>1, <2>4, <3>1 DEF PipeInv
      <4> QED  BY <1>2, <1>3, <3>1, <4>1
    <3>2. CASE t # s /\ e # d
      BY <1>2, <1>8, <2>1, <2>4, <3>2, Types DEF IInv, DescriptorsInv
    <3>3. CASE t # s /\ e = d
      <4>1. fd[t] = n
        BY <2>1, <2>4, <3>3, Types
      <4>2. name[d] = n
        BY <1>6, <2>1, <4>1, Types DEF OpensForWriting
      <4> QED  BY <1>2, <2>1, <3>3, <4>1, <4>2 DEF IInv, DescriptorsInv
    <3> QED  BY <3>1, <3>2, <3>3
  <2> QED  BY <2>2, <2>3, <2>4 DEF DescriptorsInv
<1>11. WaitingIsReachable'
  <2>1. \A r \in Readers : fd'[r] = fd[r]
    BY <1>6, Types DEF OpensForWriting
  <2>2. \A r \in Readers : IsFifo(r) => IsFifo(r)' /\ name'[r] = name[r]
    BY <1>8, <1>9, Types
  <2> QED  BY <1>2, <2>1, <2>2 DEF IInv, WaitingIsReachable
<1>12. FifoMeansWaiting'
  BY <1>2, <1>8, <1>9 DEF IInv, FifoMeansWaiting
<1>13. LinesFresh'
  <2>1. \A r \in Readers : IsFifo(r) => node'[name'[r]] = node[name[r]]
    BY <1>8, <1>9, Types DEF IsFifo
  <2> QED  BY <1>2, <2>1 DEF IInv, LinesFresh, WaitingIsReachable
<1>14. OnlyFreshSignals'
  BY <1>2 DEF IInv, OnlyFreshSignals
<1> QED  BY <1>5, <1>7, <1>10, <1>11, <1>12, <1>13, <1>14 DEF IInv

\* fifosignal ends, in whatever way.
LEMMA SignalerCloses ==
    ASSUME IInv, NEW s \in Writers, Close(s), NEW to \in {"sent", "failed"},
           NEW from, SignalStep(s, from, to),
           stops' \in 0 .. MaxStops,
           UNCHANGED <<wpc, dir, cut, heard, built>>
    PROVE  IInv'
<1>1. /\ PipeTypeOK' /\ PipeInv' /\ name' = name
      /\ fd'[s] = None /\ \A q \in Procs \ {s} : fd'[q] = fd[q]
      /\ \A e \in Dirs : IsFifo(e)' <=> IsFifo(e)
      /\ \A e \in Dirs : name[e] # None /\ node'[name[e]].line
                           => node[name[e]].line
  BY Types, CloseKeepsNames
<1>2. /\ spc' \in [Writers -> SignalPcs]
      /\ \A t \in Writers : spc'[t] = IF t = s THEN to ELSE spc[t]
  BY SignalStepResult DEF IInv, SignalPcs
<1>3. TypeOK'
  BY <1>1, <1>2 DEF IInv, TypeOK, SignalPcs
<1>4. DescriptorsInv'
  BY <1>1, <1>2, Types DEF IInv, DescriptorsInv
<1>5. LinesFresh'
  BY <1>1, Types DEF IInv, LinesFresh, WaitingIsReachable, IsFifo
<1>6. OnlyFreshSignals'
  BY DEF IInv, OnlyFreshSignals
<1>7. WaitingIsReachable'
  BY <1>1, Types DEF IInv, WaitingIsReachable
<1>8. FifoMeansWaiting'
  BY <1>1, Types DEF IInv, FifoMeansWaiting
<1> QED  BY <1>1, <1>3, <1>4, <1>5, <1>6, <1>7, <1>8 DEF IInv

LEMMA WriteSignalSafe ==
    ASSUME IInv, NEW s \in Writers, WriteSignal(s)
    PROVE  IInv'
<1>1. UNCHANGED <<wpc, dir, stops, cut, built>>
  BY DEF WriteSignal
<1>2. stops \in 0 .. MaxStops
  BY DEF IInv, TypeOK
<1>3. CASE SignalStep(s, "write", "failed") /\ Close(s) /\ UNCHANGED heard
  BY <1>1, <1>2, <1>3, SignalerCloses
<1>4. CASE /\ SignalStep(s, "write", "close") /\ Write(s)
           /\ heard' = [d \in Readers |-> heard[d] \/ d = dir[s]]
  <2>1. /\ spc[s] = "write" /\ spc' \in [Writers -> SignalPcs]
        /\ \A t \in Writers : spc'[t] = IF t = s THEN "close" ELSE spc[t]
    BY <1>4, SignalStepResult DEF IInv, SignalPcs
  <2>2. fd[s] # None /\ s \in Procs
    BY <2>1, Types DEF IInv, DescriptorsInv
  <2>3. /\ PipeTypeOK' /\ PipeInv' /\ name' = name /\ fd' = fd
        /\ \A m \in Inodes : node'[m].kind = node[m].kind
        /\ \A m \in Inodes \ {fd[s]} : node'[m] = node[m]
    BY <1>4, <2>2, Types, WriteResult
  <2>4. \A d \in Readers : heard'[d] = (heard[d] \/ d = dir[s])
    BY <1>4
  <2>5. heard' \in [Readers -> BOOLEAN]
    BY <1>4
  <2>6. TypeOK'
    BY <1>1, <2>1, <2>3, <2>5 DEF IInv, TypeOK, SignalPcs
  <2>7. \A e \in Dirs : IsFifo(e)' <=> IsFifo(e)
    BY <2>3, Types DEF IsFifo
  <2>8. DescriptorsInv'
    BY <1>1, <2>1, <2>3 DEF IInv, DescriptorsInv
  <2>9. WaitingIsReachable' /\ FifoMeansWaiting'
    BY <1>1, <2>3, <2>7, Types DEF IInv, WaitingIsReachable, FifoMeansWaiting
  <2>10. OnlyFreshSignals'
    BY <1>1, <2>4 DEF IInv, OnlyFreshSignals
  <2>11. ASSUME NEW d \in Readers, wpc[d] \in {"open", "read"},
                node'[name[d]].line
         PROVE  heard'[d]
    <3>1. name[d] # None /\ name[d] \in Inodes
      BY <2>11, Types DEF IInv, WaitingIsReachable, IsFifo
    <3>2. CASE fd[s] = name[d]
      <4>1. dir[s] = d
        BY <3>1, <3>2, Types DEF IInv, DescriptorsInv
      <4> QED  BY <2>4, <4>1
    <3>3. CASE fd[s] # name[d]
      <4>1. node'[name[d]] = node[name[d]]
        BY <2>3, <3>1, <3>3
      <4>2. heard[d]
        BY <2>11, <4>1 DEF IInv, LinesFresh
      <4> QED  BY <2>4, <4>2
    <3> QED  BY <3>2, <3>3
  <2>12. LinesFresh'
    BY <1>1, <2>3, <2>11 DEF LinesFresh
  <2> QED  BY <2>3, <2>6, <2>8, <2>9, <2>10, <2>12 DEF IInv
<1> QED  BY <1>3, <1>4 DEF WriteSignal

LEMMA EndSignalSafe ==
    ASSUME IInv, NEW s \in Writers, CloseSignal(s) \/ GiveUp(s)
    PROVE  IInv'
<1>1. CASE CloseSignal(s)
  <2>1. stops' \in 0 .. MaxStops
    BY <1>1 DEF CloseSignal, IInv, TypeOK
  <2> QED  BY <1>1, <2>1, SignalerCloses DEF CloseSignal
<1>2. CASE GiveUp(s)
  <2>1. stops' \in 0 .. MaxStops
    BY <1>2, FifoAssumption DEF GiveUp, IInv, TypeOK
  <2>2. PICK pc \in {"scan", "test", "open", "write", "close"} :
          SignalStep(s, pc, "failed")
    BY <1>2 DEF GiveUp
  <2> QED  BY <1>2, <2>1, <2>2, SignalerCloses DEF GiveUp
<1> QED  BY <1>1, <1>2

-----------------------------------------------------------------------------
LEMMA NextSafe ==
    ASSUME IInv, [Next]_vars
    PROVE  IInv'
<1>1. ASSUME NEW d \in Readers, Wait(d) PROVE IInv'
  BY <1>1, StartWaitSafe, MakeFifoSafe, OpenForReadSafe, ReadSignalSafe,
     RunTrapSafe, RestartSafe DEF Wait
<1>2. ASSUME NEW d \in Readers, Restart(d) \/ Interrupt(d) \/ Kill(d) PROVE IInv'
  BY <1>2, RestartSafe, InterruptSafe, KillSafe
<1>3. ASSUME NEW s \in Writers, Signal(s) PROVE IInv'
  BY <1>3, ScanSafe, TestFifoSafe, OpenForWriteSafe, WriteSignalSafe,
     EndSignalSafe DEF Signal
<1>4. ASSUME NEW s \in Writers, GiveUp(s) PROVE IInv'
  BY <1>4, EndSignalSafe
<1>5. ASSUME NEW s \in Writers, NEW d \in Dirs, NEW up \in BOOLEAN,
             Press(s, d, up)
      PROVE  IInv'
  BY <1>5, PressSafe
<1>6. CASE UNCHANGED vars
  BY <1>6 DEF vars, pipeVars, IInv, TypeOK, PipeTypeOK, PipeInv, DescriptorsInv,
       LinesFresh, WaitingIsReachable, FifoMeansWaiting, OnlyFreshSignals, IsFifo
<1> QED  BY <1>1, <1>2, <1>3, <1>4, <1>5, <1>6 DEF Next

\* The invariant holds in every reachable state of every instance.
THEOREM Invariance == Spec => []IInv
<1>1. Init => IInv
  BY InitSafe
<1>2. IInv /\ [Next]_vars => IInv'
  BY NextSafe
<1> QED  BY <1>1, <1>2, PTL DEF Spec

\* Every reachable state is well typed: the file system never runs out of
\* inodes and the scan ends at the root.
THEOREM TypeCorrect == Spec => []TypeOK
<1>1. IInv => TypeOK
  BY DEF IInv
<1> QED  BY <1>1, Invariance, PTL

\* fifowait always waits on the pipe that has its name.
THEOREM AlwaysReachable == Spec => []WaitingIsReachable
<1>1. IInv => WaitingIsReachable
  BY DEF IInv
<1> QED  BY <1>1, Invariance, PTL

\* Each pipe has its fifowait, unless the last one there was ended before its
\* trap had run.
THEOREM NoAbandonedPipe == Spec => []FifoMeansWaiting
<1>1. IInv => FifoMeansWaiting
  BY DEF IInv
<1> QED  BY <1>1, Invariance, PTL

\* No build is started by a signal from before its fifowait.
THEOREM NoStaleSignal == Spec => []OnlyFreshSignals
<1>1. IInv => OnlyFreshSignals
  BY DEF IInv
<1> QED  BY <1>1, Invariance, PTL
=============================================================================
