---------------------------- MODULE SectionStack ----------------------------
(***************************************************************************)
(* What rst2ctags.py keeps of sections, whatever the markup: the sections  *)
(* found so far, the stack of the ones a next section may be nested in,    *)
(* and for each section the one it is nested in.  markdown2ctags.py has    *)
(* this part word for word in common with it.                              *)
(***************************************************************************)
EXTENDS Naturals, Sequences

VARIABLES
    sections,  \* the sections found, in order
    previous   \* previous_sections, as positions in sections

stackVars == <<sections, previous>>

NoParent == 0

\* pop_sections(previous_sections, level): how many of the stack stay.
\* Mutant: a section on the same level is kept.
KeptSameLevel(level) ==
    CHOOSE k \in 0 .. Len(previous) :
        /\ k = 0 \/ sections[previous[k]].level <= level
        /\ \A j \in k + 1 .. Len(previous) : sections[previous[j]].level > level

Kept(level) ==
    CHOOSE k \in 0 .. Len(previous) :
        /\ k = 0 \/ sections[previous[k]].level < level
        /\ \A j \in k + 1 .. Len(previous) : sections[previous[j]].level >= level

\* Its line is the one its name stands on, counted from 1.
NewSection(level, line, style, k) ==
    [level  |-> level, line |-> line, style |-> style,
     parent |-> IF k = 0 THEN NoParent ELSE previous[k]]

AddSection(level, line, style) ==
    LET k == Kept(level)
    IN  /\ sections' = Append(sections, NewSection(level, line, style, k))
        /\ previous' = Append(SubSeq(previous, 1, k), Len(sections) + 1)

StackInit == sections = <<>> /\ previous = <<>>

-----------------------------------------------------------------------------
\* The outline is the one the levels define, whatever order they come in: a
\* section is nested in the nearest earlier one of a lower level.
Encloses(j, k) ==
    /\ j < k /\ sections[j].level < sections[k].level
    /\ \A i \in j + 1 .. k - 1 : sections[i].level >= sections[k].level

NearestParent ==
    \A k \in 1 .. Len(sections) :
        IF sections[k].parent = NoParent
        THEN \A j \in 1 .. k - 1 : ~Encloses(j, k)
        ELSE sections[k].parent \in 1 .. k - 1 /\ Encloses(sections[k].parent, k)
=============================================================================
