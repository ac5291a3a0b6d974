-------------------------- MODULE HighlightDisplay --------------------------
(***************************************************************************)
(* What the :Highlight commands promise, without match ids, groups or the  *)
(* calls a command is made of: every command takes effect at once, on the  *)
(* configuration it names and no other, and the current window displays    *)
(* the result; a window that is not current keeps what it displayed.       *)
(***************************************************************************)
EXTENDS Naturals

CONSTANTS Wins, Bufs, Closed, Items, Widths, GlobalEnabled, LongLines

VARIABLES
    buf,      \* window -> the buffer it displays, or Closed
    cur,      \* the current window
    items,    \* buffer -> the items last asked for
    enabled,  \* buffer -> "unset", "on" or "off"
    width,    \* buffer -> 'textwidth'
    shown     \* window -> the set of matches it displays

vars == <<buf, cur, items, enabled, width, shown>>

Pattern(i, n) == IF i = LongLines THEN n ELSE 1

\* What a buffer asks for, given its three settings.
Wanted(set, flag, n) ==
    IF flag = "off" \/ (flag = "unset" /\ ~GlobalEnabled) THEN {}
    ELSE {<<i, Pattern(i, n)>> : i \in {j \in set : Pattern(j, n) # 0}}

WantedBy(b) == Wanted(items[b], enabled[b], width[b])

Open == {w \in Wins : buf[w] # Closed}

Init ==
    /\ \E w \in Wins, b \in Bufs :
        /\ cur = w
        /\ buf = [v \in Wins |-> IF v = w THEN b ELSE Closed]
    /\ items = [b \in Bufs |-> {}]
    /\ enabled = [b \in Bufs |-> "unset"]
    /\ width = [b \in Bufs |-> 0]
    /\ shown = [w \in Wins |-> {}]

\* The settings of buffer b become those given, and the current window, which
\* displays b, shows the result.
Reconfigure(b, set, flag, n) ==
    /\ items' = [items EXCEPT ![b] = set]
    /\ enabled' = [enabled EXCEPT ![b] = flag]
    /\ width' = [width EXCEPT ![b] = n]
    /\ shown' = [shown EXCEPT ![cur] = Wanted(set, flag, n)]

\* :Highlight changes the items only.
Ask ==
    /\ \E set \in SUBSET Items :
        Reconfigure(buf[cur], set, enabled[buf[cur]], width[buf[cur]])
    /\ UNCHANGED <<buf, cur>>

\* :HighlightOn and :HighlightOff remember the items.
OnOff ==
    /\ \E flag \in {"on", "off"} :
        Reconfigure(buf[cur], items[buf[cur]], flag, width[buf[cur]])
    /\ UNCHANGED <<buf, cur>>

SetWidth ==
    /\ \E n \in Widths :
        Reconfigure(buf[cur], items[buf[cur]], enabled[buf[cur]], n)
    /\ UNCHANGED <<buf, cur>>

\* The current window turns to buffer b, whose file type may configure it.
Edit(b) ==
    /\ buf' = [buf EXCEPT ![cur] = b]
    /\ \E set \in SUBSET Items, flag \in {"unset", "on", "off"}, n \in Widths :
        Reconfigure(b, set, flag, n)
    /\ UNCHANGED cur

Forget(b) ==
    /\ \A w \in Wins : buf[w] # b
    /\ items' = [items EXCEPT ![b] = {}]
    /\ enabled' = [enabled EXCEPT ![b] = "unset"]
    /\ width' = [width EXCEPT ![b] = 0]
    /\ UNCHANGED <<buf, cur, shown>>

\* A window becomes current, newly opened or not; the one left may close.
Enter(w) ==
    /\ w # cur
    /\ cur' = w
    /\ LET b == IF w \in Open THEN buf[w] ELSE buf[cur]
       IN  \/ /\ buf' = [buf EXCEPT ![w] = b]
              /\ shown' = [shown EXCEPT ![w] = WantedBy(b)]
           \/ /\ w \in Open
              /\ buf' = [buf EXCEPT ![cur] = Closed]
              /\ shown' = [shown EXCEPT ![w] = WantedBy(b), ![cur] = {}]
    /\ UNCHANGED <<items, enabled, width>>

CloseOther(w) ==
    /\ w \in Open \ {cur}
    /\ buf' = [buf EXCEPT ![w] = Closed]
    /\ shown' = [shown EXCEPT ![w] = {}]
    /\ UNCHANGED <<cur, items, enabled, width>>

Next ==
    \/ Ask \/ OnOff \/ SetWidth
    \/ \E b \in Bufs : Edit(b) \/ Forget(b)
    \/ \E w \in Wins : Enter(w) \/ CloseOther(w)

Spec == Init /\ [][Next]_vars
=============================================================================
