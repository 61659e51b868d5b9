----------------------------- MODULE Selection -----------------------------
(***************************************************************************)
(* What the user chooses of a list of files or episodes: with a list of    *)
(* numbers, given as --episodes (extractor_parse_episodes, extractor.c) or *)
(* on a line of input where there is no terminal (tui_apply_spec, tui.c),  *)
(* or in a menu (tui_select_many and tui_episode_select, tui.c) for which  *)
(* the terminal is in raw mode, while signals may come at any point.       *)
(***************************************************************************)
EXTENDS Integers, Sequences, FiniteSets, SequencesExt, FiniteSetsExt

CONSTANTS Count,        \* how many items there are
          Preselected,  \* the items[i].selected
          MaxTokens,    \* bound: the length of a list of numbers
          Rows,         \* heights the terminal may have
          Chromes,      \* rows the prompt reserves besides the items, see episode_render
          Summaries     \* rows its line of what is selected takes

ASSUME SelectionAssumption ==
    /\ Count \in Nat \ {0} /\ Preselected \subseteq 1..Count
    /\ MaxTokens \in Nat
    /\ Rows \subseteq Nat \ {0} /\ Summaries \subseteq Nat \ {0}
    /\ Chromes \subseteq Nat /\ \A c \in Chromes : c >= 8   \* a row each for header and hint, and six

VARIABLES
    tokens,     \* what has been typed
    spec,       \* extractor_parse_episodes on it: [place, from, sel]
    line,       \* tui_apply_spec on it: [place, from, to, sel]
    menu,       \* the main thread's place in the menu, see below
    inline,     \* tui_inline: the episode prompt
    cursor, top, window,  \* top and the number of items shown from there on
    rows,       \* the height of the terminal
    drawn,      \* the last drawing: [rows, chrome, summary], see Draw
    sel,        \* the selected items
    raw,        \* whether the terminal is in raw mode
    active,     \* tui_raw_active
    installed,  \* whether SIGINT and SIGTERM go to tui_on_signal
    signal,     \* "none", "restoring" in the handler, "again" for a second one there
    alive       \* FALSE once a signal has ended the process

listvars == <<tokens, spec, line>>
termvars == <<raw, active, installed, signal, alive>>
viewvars == <<inline, cursor, top, window, rows, drawn>>
selvars == <<listvars, menu, viewvars, sel, termvars>>

Items == 1..Count

SelectionInit ==
    /\ tokens = <<>>
    /\ spec = [place |-> "start", from |-> 0, sel |-> {}]
    /\ line = [place |-> "start", from |-> 0, to |-> 0, sel |-> {}]
    /\ menu = "none" /\ inline \in BOOLEAN
    /\ cursor = 1 /\ top = 1 /\ window = 1
    /\ rows \in Rows /\ drawn = [rows |-> 0, chrome |-> 0, summary |-> 0]
    /\ sel = Preselected
    /\ raw = FALSE /\ active = FALSE /\ installed = FALSE
    /\ signal = "none" /\ alive = TRUE

-----------------------------------------------------------------------------
(***************************************************************************)
(* Lists of numbers.  The places: at the start of the loop, where the list *)
(* may end; before the first number of a range; after it; before and after *)
(* the second; and where it is given up.                                   *)
(***************************************************************************)

Number(v) == [kind |-> "number", v |-> v]
Sign(kind) == [kind |-> kind, v |-> 0]

Tokens == {Number(v) : v \in 0..(Count + 1)} \cup {Sign(s) : s \in {"dash", "comma", "space", "all", "junk"}}

To(place, r) == [r EXCEPT !.place = place]

\* A number out of range is refused as soon as it is read, an interval is selected
\* when it ends.
SpecToken(p, t) ==
    CASE p.place \in {"start", "first"} /\ t.kind = "space" -> To("first", p)
      [] p.place \in {"start", "first"} /\ t.kind = "number" /\ t.v \in Items -> [p EXCEPT !.place = "from", !.from = t.v]
      [] p.place = "from" /\ t.kind = "space" -> p
      [] p.place = "from" /\ t.kind = "dash" -> To("second", p)
      [] p.place = "from" /\ t.kind = "comma" -> [p EXCEPT !.place = "start", !.sel = @ \cup {p.from}]
      [] p.place = "second" /\ t.kind = "space" -> p
      [] p.place = "second" /\ t.kind = "number" /\ t.v \in p.from..Count ->
            [p EXCEPT !.place = "range", !.sel = @ \cup p.from..t.v]
      [] p.place = "range" /\ t.kind = "space" -> p
      [] p.place = "range" /\ t.kind = "comma" -> To("start", p)
      [] OTHER -> To("bad", p)

\* No number at all is an error too.
SpecEnd(p) ==
    LET chosen == IF p.place = "from" THEN p.sel \cup {p.from} ELSE p.sel
    IN  [ok |-> p.place \in {"start", "from", "range"} /\ chosen # {}, sel |-> chosen]

InRange_FromZero(from, to) == from <= to /\ to <= Count

InRange(from, to) == 1 <= from /\ from <= to /\ to <= Count

\* Both numbers are looked at together.
LineToken(p, t) ==
    CASE p.place \in {"start", "first"} /\ t.kind = "space" -> To("first", p)
      [] p.place \in {"start", "first"} /\ t.kind = "number" -> [p EXCEPT !.place = "from", !.from = t.v, !.to = t.v]
      [] p.place \in {"from", "range"} /\ t.kind = "space" -> p
      [] p.place = "from" /\ t.kind = "dash" -> To("second", p)
      [] p.place = "second" /\ t.kind = "space" -> p
      [] p.place = "second" /\ t.kind = "number" -> [p EXCEPT !.place = "range", !.to = t.v]
      [] p.place \in {"from", "range"} /\ t.kind = "comma" /\ InRange(p.from, p.to) ->
            [p EXCEPT !.place = "start", !.sel = @ \cup p.from..p.to]
      [] OTHER -> To("bad", p)

\* "all" on its own; and the empty line, which changes nothing in the episode prompt
\* and chooses nothing, as good as cancelled, elsewhere.
IsAll == \E i \in DOMAIN tokens : i = Len(tokens) /\ tokens[i].kind = "all" /\ \A j \in 1..(i - 1) : tokens[j].kind = "space"

IsBlank == \A i \in DOMAIN tokens : tokens[i].kind = "space"

LineEnd(p) ==
    IF IsAll THEN [ok |-> TRUE, sel |-> Items]
    ELSE IF inline /\ IsBlank THEN [ok |-> TRUE, sel |-> Preselected]
    ELSE IF p.place \in {"from", "range"}
    THEN [ok |-> InRange(p.from, p.to), sel |-> p.sel \cup p.from..p.to]
    ELSE [ok |-> p.place = "start" /\ p.sel # {}, sel |-> p.sel]

\* The digits of a number are one token.
Type ==
    /\ menu = "none" /\ Len(tokens) < MaxTokens
    /\ \E t \in Tokens :
         /\ ~(t.kind = "number" /\ tokens # <<>> /\ Last(tokens).kind = "number")
         /\ tokens' = Append(tokens, t)
         /\ spec' = SpecToken(spec, t)
         /\ line' = LineToken(line, t)
    /\ UNCHANGED <<menu, viewvars, sel, termvars>>

-----------------------------------------------------------------------------
(***************************************************************************)
(* tui_enter and tui_leave                                                 *)
(***************************************************************************)

Going == alive /\ signal = "none"

Handlers ==
    /\ Going /\ menu = "none" /\ tokens = <<>>
    /\ installed' = TRUE
    /\ menu' = "handlers"
    /\ UNCHANGED <<listvars, viewvars, sel, raw, active, signal, alive>>

\* tcsetattr, and then the flag.
SetRaw ==
    /\ Going /\ menu = "handlers"
    /\ raw' = TRUE
    /\ menu' = "raw"
    /\ UNCHANGED <<listvars, viewvars, sel, active, installed, signal, alive>>

\* The terminal cannot be set: a line of input is read instead.
EnterFails ==
    /\ Going /\ menu = "handlers"
    /\ installed' = FALSE
    /\ menu' = "fallback"
    /\ UNCHANGED <<listvars, viewvars, sel, raw, active, signal, alive>>

SetActive ==
    /\ Going /\ menu = "raw"
    /\ active' = TRUE
    /\ menu' = "draw"
    /\ UNCHANGED <<listvars, viewvars, sel, raw, installed, signal, alive>>

\* tui_restore: the flag first, and then tcsetattr.
Leave ==
    /\ Going /\ menu \in {"confirmed", "cancelled"} /\ active
    /\ active' = FALSE
    /\ UNCHANGED <<listvars, menu, viewvars, sel, raw, installed, signal, alive>>

SetBack ==
    /\ Going /\ menu \in {"confirmed", "cancelled"} /\ ~active /\ raw
    /\ raw' = FALSE
    /\ UNCHANGED <<listvars, menu, viewvars, sel, active, installed, signal, alive>>

\* tui_leave with its two halves swapped.
HandlersBack_First ==
    /\ Going /\ menu \in {"confirmed", "cancelled"} /\ ~active /\ installed
    /\ installed' = FALSE
    /\ UNCHANGED <<listvars, menu, viewvars, sel, raw, active, signal, alive>>

HandlersBack ==
    /\ Going /\ menu \in {"confirmed", "cancelled"} /\ ~active /\ ~raw /\ installed
    /\ installed' = FALSE
    /\ UNCHANGED <<listvars, menu, viewvars, sel, raw, active, signal, alive>>

\* SIGINT or SIGTERM from elsewhere (Ctrl-C is a key in raw mode).  tui_on_signal
\* restores the terminal if the flag says so, and then the signal takes its course.
Signal ==
    /\ alive /\ menu # "none"
    /\ IF signal = "none" /\ installed /\ active
       THEN active' = FALSE /\ signal' = "restoring" /\ UNCHANGED alive
       ELSE alive' = FALSE /\ signal' = (IF signal = "restoring" THEN "again" ELSE signal) /\ UNCHANGED active
    /\ UNCHANGED <<listvars, menu, viewvars, sel, raw, installed>>

Restored ==
    /\ alive /\ signal = "restoring"
    /\ raw' = FALSE /\ alive' = FALSE
    /\ UNCHANGED <<listvars, menu, viewvars, sel, active, installed, signal>>

-----------------------------------------------------------------------------
(***************************************************************************)
(* The menu.  Its places: before a drawing; after it, with the user's key  *)
(* still to be asked for; and in read(), which a signal interrupts.        *)
(***************************************************************************)

\* Two rows for an item, and five for the rest.
Visible(height) == IF height > 7 THEN Max({1, (height - 5) \div 2}) ELSE 1

Scrolled(visible) ==
    IF cursor < top THEN cursor
    ELSE IF cursor >= top + visible THEN cursor - visible + 1
    ELSE top

\* episode_render: what is left of the rows, if anything is.
MaxVisible(height, chrome) ==
    LET budget == IF height > 1 THEN height - 1 ELSE 1
    IN  Min({Count, IF budget > chrome THEN budget - chrome ELSE 1})

VisibleStart_Late(visible) == IF Count <= visible THEN 1 ELSE Min({cursor, Count - visible + 2})

\* tui_visible_start: the cursor in the middle, but for the ends.
VisibleStart(visible) ==
    LET half == visible \div 2
    IN  IF Count <= visible THEN 1
        ELSE Min({IF cursor - 1 > half THEN cursor - half ELSE 1, Count - visible + 1})

\* The height is asked for once.  The selected titles are all written, whatever was
\* reserved for them.
Draw ==
    /\ Going /\ menu = "draw"
    /\ \E chrome \in Chromes, summary \in Summaries :
         /\ drawn' = [rows |-> rows, chrome |-> chrome, summary |-> summary]
         /\ window' = IF inline THEN MaxVisible(rows, chrome) ELSE Visible(rows)
         /\ top' = IF inline THEN VisibleStart(window') ELSE Scrolled(window')
    /\ menu' = "drawn"
    /\ UNCHANGED <<listvars, inline, cursor, rows, sel, termvars>>

Read ==
    /\ Going /\ menu = "drawn"
    /\ menu' = "key"
    /\ UNCHANGED <<listvars, viewvars, sel, termvars>>

\* SIGWINCH: tui_on_winch sets tui_resized, which nothing looks at, so that only a
\* read() that is interrupted makes for a drawing.
Resize ==
    /\ Going /\ menu \in {"draw", "drawn", "key"}
    /\ rows' \in Rows \ {rows}
    /\ menu' = IF menu = "key" THEN "draw" ELSE menu
    /\ UNCHANGED <<listvars, inline, cursor, top, window, drawn, sel, termvars>>

\* A key, after which all is drawn again.
Key(newcursor, newsel) ==
    /\ Going /\ menu = "key"
    /\ cursor' = newcursor /\ sel' = newsel
    /\ menu' = "draw"
    /\ UNCHANGED <<listvars, inline, top, window, rows, drawn, termvars>>

Down == Key(Min({cursor + 1, Count}), sel)
Up == Key(Max({cursor - 1, 1}), sel)
Top == Key(1, sel)
Bottom == Key(Count, sel)
Toggle == Key(cursor, IF cursor \in sel THEN sel \ {cursor} ELSE sel \cup {cursor})
ToggleAll == Key(cursor, IF sel = Items THEN {} ELSE Items)
Redraw == Key(cursor, sel)   \* any other key

Finish ==
    /\ Going /\ menu = "key"
    /\ menu' \in {"confirmed", "cancelled"}
    /\ UNCHANGED <<listvars, viewvars, sel, termvars>>

SelectionNext ==
    \/ Type
    \/ Handlers \/ SetRaw \/ EnterFails \/ SetActive
    \/ Draw \/ Read \/ Resize \/ Down \/ Up \/ Top \/ Bottom \/ Toggle \/ ToggleAll \/ Redraw \/ Finish
    \/ Leave \/ SetBack \/ HandlersBack
    \/ Signal \/ Restored

SelectionSpec == SelectionInit /\ [][SelectionNext]_selvars

-----------------------------------------------------------------------------

\* The meaning of a list, as the help and the prompt give it: fields separated by
\* commas, the last of which may be missing, each a number or an interval of them.
Commas == {0, Len(tokens) + 1} \cup {i \in DOMAIN tokens : tokens[i].kind = "comma"}

Fields == {f \in Commas \X Commas : f[1] < f[2] /\ ~\E c \in Commas : f[1] < c /\ c < f[2]}

Marks(f) == {i \in (f[1] + 1)..(f[2] - 1) : tokens[i].kind # "space"}

\* Where the first and the last number of a field are: with nothing else in it, or
\* the sign between them.
Ends(f) ==
    {e \in Marks(f) \X Marks(f) :
        /\ tokens[e[1]].kind = "number" /\ tokens[e[2]].kind = "number"
        /\ \/ e[1] = e[2] /\ Marks(f) = {e[1]}
           \/ \E i \in (e[1] + 1)..(e[2] - 1) : tokens[i].kind = "dash" /\ Marks(f) = {e[1], i, e[2]}}

Interval(f) == UNION {tokens[e[1]].v..tokens[e[2]].v : e \in Ends(f)}

Missing(f) == f[2] = Len(tokens) + 1 /\ f[1] = f[2] - 1

WellFormed == \A f \in Fields : Missing(f) \/ (Interval(f) # {} /\ Interval(f) \subseteq Items)

Meaning == UNION {Interval(f) : f \in Fields}

\* Both readers of lists of numbers take exactly the lists that mean something, for
\* what they mean, whether the list is an option or is typed in at the prompt; only
\* "all" and the empty list are not the same to them.
ListsRight ==
    /\ SpecEnd(spec).ok = (WellFormed /\ Meaning # {})
    /\ SpecEnd(spec).ok => SpecEnd(spec).sel = Meaning
    /\ (~IsAll /\ ~(IsBlank /\ inline)) =>
         /\ LineEnd(line).ok = (WellFormed /\ Meaning # {})
         /\ LineEnd(line).ok => LineEnd(line).sel = Meaning

\* What is written from below the title of the item under the cursor to the line the
\* terminal's own cursor is left in: details, at most, and the other items shown; in
\* the prompt these, the line of how many there are more, two bars and the closer.
LastShown == Min({top + window - 1, Count})

RowsBelow ==
    IF inline THEN (LastShown - cursor) + drawn.summary + 4
    ELSE 2 * (LastShown - cursor) + 2

\* The prompt reserves two rows for the selected titles; up to five do no harm, for the
\* six that it reserves in all.
RowsSuffice ==
    IF inline THEN drawn.summary <= 5 /\ drawn.rows >= drawn.summary + 5
    ELSE drawn.rows >= 3

\* However the terminal is resized while the user moves about: the item under the
\* cursor is among those that are shown, and on a terminal that was not resized since
\* the drawing it has not been scrolled off by what is written below it, though an
\* item alone with the rest may need more rows than there are.
CursorShown ==
    /\ cursor \in Items
    /\ menu \in {"drawn", "key"} =>
         /\ top \in Items /\ cursor \in top..(top + window - 1)
         /\ inline => top + window - 1 <= Count
         /\ (rows = drawn.rows /\ RowsSuffice) => RowsBelow < rows

\* The user gets the terminal back, however the menu ends; but for a signal between
\* tcsetattr and the flag that says what it did, on the way in or out, and for a
\* second signal before the handler of the first has set the terminal back.
TerminalRestored ==
    /\ (~alive /\ raw) => \/ menu = "raw"
                          \/ menu \in {"confirmed", "cancelled"} /\ ~active
                          \/ signal = "again"
    /\ (menu = "none" \/ menu = "fallback" \/ (menu \in {"confirmed", "cancelled"} /\ ~installed)) => ~raw

=============================================================================
