---------------------------- MODULE RstSections ----------------------------
(***************************************************************************)
(* find_sections of src/tool/rst2ctags/rst2ctags.py: one step per line of  *)
(* the document, which is any sequence of lines.  A title is underlined,   *)
(* and possibly overlined, with one of several characters; the order in    *)
(* which the document uses them defines their levels.                      *)
(*                                                                         *)
(* Of a line its kind and length are kept, and the character an adornment  *)
(* consists of.  An adornment has at least two of them.                    *)
(***************************************************************************)
EXTENDS SectionStack, FiniteSets

CONSTANTS
    Chars,     \* the characters of adornments
    MaxWidth,  \* bound: how long a line is
    MaxLines   \* bound: how long a document is

ASSUME RstAssumption == MaxWidth \in Nat \ {0} /\ MaxLines \in Nat

NoChar == "none"
ASSUME CharsAssumption == NoChar \notin Chars

Blank      == [kind |-> "blank", ch |-> NoChar, width |-> 0]
Indented   == [kind |-> "indented", ch |-> NoChar, width |-> 1]
Texts      == [kind : {"text"}, ch : {NoChar}, width : 1 .. MaxWidth]
Adornments == [kind : {"adornment"}, ch : Chars, width : 2 .. MaxWidth]
Lines     == {Blank, Indented} \cup Texts \cup Adornments

\* The key of an overlined title is its character twice.
Styles == Chars \X BOOLEAN

VARIABLES
    doc,           \* the lines read so far
    before,        \* lines[i - 1], or what the loop replaced it with
    top_line,      \* lines[i - 2]
    level_values,  \* style -> its level, 0 if it was not used yet
    level          \* the level of the last section

vars == <<stackVars, doc, before, top_line, level_values, level>>

i == Len(doc)
Heading(line) == line.kind = "adornment"
Subject == before.kind \in {"text", "adornment"}

\* Mutant: a longer underline is needed.
LongEnoughStrict(line) == line.width > before.width
LongEnough(line) == line.width >= before.width

Overlined == Heading(top_line)

IsTitle(line) ==
    /\ i >= 1 /\ Heading(line) /\ Subject
    /\ LongEnough(line)
    /\ Overlined => top_line = line

\* Mutant: the level of a known style is forgotten.
NewLevelAlways(key) == level + 1

\* Mutant: a new style is on the level of the last section.
NewLevelSame(key) ==
    IF level_values[key] = 0 THEN level ELSE level_values[key]

NewLevel(key) ==
    IF level_values[key] = 0 THEN level + 1 ELSE level_values[key]

\* lines[i] = lines[i - 1] = lines[i - 2] = ''
\* Mutant: the lines of the title stay.
KeepTitle(line) == before' = line /\ top_line' = before
BlankTitle(line) == before' = Blank /\ top_line' = Blank

Title(line) ==
    LET key == <<line.ch, Overlined>>
    IN  /\ IsTitle(line)
        /\ level_values' = [level_values EXCEPT ![key] = NewLevel(key)]
        /\ level' = NewLevel(key)
        /\ AddSection(NewLevel(key), i, key)
        /\ BlankTitle(line)

NoTitle(line) ==
    /\ ~IsTitle(line)
    /\ before' = line /\ top_line' = before
    /\ UNCHANGED <<stackVars, level_values, level>>

ReadLine(line) ==
    /\ i < MaxLines
    /\ doc' = Append(doc, line)
    /\ Title(line) \/ NoTitle(line)

Init ==
    /\ StackInit
    /\ doc = <<>> /\ before = Blank /\ top_line = Blank
    /\ level_values = [key \in Styles |-> 0]
    /\ level = 0

Next == \E line \in Lines : ReadLine(line)
Spec == Init /\ [][Next]_vars

-----------------------------------------------------------------------------
(***************************************************************************)
(* Properties.                                                             *)
(***************************************************************************)
\* Every variable has its type.
TypeOK ==
    /\ sections \in Seq([level : Nat \ {0}, line : Nat \ {0}, style : Styles,
                         parent : Nat])
    /\ previous \in Seq(1 .. Len(sections))
    /\ doc \in Seq(Lines)
    /\ before \in Lines /\ top_line \in Lines
    /\ level_values \in [Styles -> Nat]
    /\ level \in Nat

\* A comment in the loop: two titles with underlines, one after the other, are
\* not a title with an underline and an overline.  No line is part of two.
LinesOf(k) ==
    LET n == sections[k].line
    IN  n .. n + 1 \cup (IF sections[k].style[2] THEN {n - 1} ELSE {})

TitlesDisjoint ==
    \A j, k \in DOMAIN sections : j # k => LinesOf(j) \cap LinesOf(k) = {}

\* What stands for itself is found: text with a line of one character under it,
\* at least as long, and no such line above.
IsolatedTitles ==
    {n \in 1 .. i - 1 :
        /\ doc[n].kind = "text" /\ Heading(doc[n + 1])
        /\ doc[n + 1].width >= doc[n].width
        /\ n > 1 => ~Heading(doc[n - 1])}

IsolatedFound ==
    \A n \in IsolatedTitles : \E k \in DOMAIN sections :
        sections[k].line = n /\ sections[k].style = <<doc[n + 1].ch, FALSE>>

\* The level of a section is the one of its style, the first time as always,
\* and the levels in use have no gap.
StylesMakeLevels ==
    /\ \A j, k \in DOMAIN sections :
        sections[j].style = sections[k].style => sections[j].level = sections[k].level
    /\ \A k \in DOMAIN sections : sections[k].level > 1 =>
        \E j \in 1 .. k - 1 : sections[j].level = sections[k].level - 1
=============================================================================
