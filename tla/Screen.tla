------------------------------- MODULE Screen -------------------------------
(***************************************************************************)
(* tui.c and sort.c: what is printed on the pad by a refresh, and the      *)
(* cursor that keys move over it until the next one.  The pad is larger    *)
(* than the terminal; scroll_y and scroll_x say which part of it is seen.  *)
(*                                                                         *)
(* A row is a process, a connection or nothing; how it is worded and       *)
(* coloured is left out, but not how many columns it takes (a text longer  *)
(* than the pad goes on in the next line of it) and which line is painted  *)
(* as the selected one.                                                    *)
(* The summary above LINE_START and 'q' (which MainLoop answers) change    *)
(* nothing here.                                                           *)
(***************************************************************************)
EXTENDS Integers, Sequences, SequencesExt, FiniteSets

CONSTANTS
  Lists,                 \* what tui_show() may be given: sets of processes, which
                         \* are [pid, name, width, stat, conns] with connections
                         \* [id, width, stat]; stat maps the columns to numbers,
                         \* width is what the text takes (and the end of the
                         \* line, for a process)
  LINES, COLS,           \* the terminal
  MIN_LINES_PAD, MIN_COLS_PAD,
  verbose, view_conections,  \* the options -v and -c
  MaxScroll,             \* bound: scroll_y has none once the list may get shorter
  NoText, AnyText        \* nothing; what nobody can tell

LINE_START == 4
Top == LINE_START + 1    \* the first row below the header

\* enum cols_sort
S_PID == 0
PPS_TX == 1
PPS_RX == 2
RATE_TX == 3
RATE_RX == 4
TOT_TX == 5
TOT_RX == 6
COLS_TO_SORT == 7

Larger(a, b) == IF a > b THEN a ELSE b
Smaller(a, b) == IF a < b THEN a ELSE b

ASSUME ScreenAssumption ==
  /\ LINES \in Nat /\ LINES > Top + 1 /\ COLS \in Nat
  /\ MIN_LINES_PAD \in Nat /\ MIN_COLS_PAD \in Nat \ {0}
  /\ MaxScroll \in Nat /\ MaxScroll > Top
  /\ verbose \in BOOLEAN /\ view_conections \in BOOLEAN

\* What is shown are numbers, and of two averages of the same samples that of the
\* bytes is not the smaller one (rate.c:51).
ASSUME ListsAssumption ==
  \A ps \in Lists : IsFiniteSet(ps) /\ \A p \in ps :
    /\ DOMAIN p = {"pid", "name", "width", "stat", "conns"}
    /\ p.width \in Nat \ {0} /\ IsFiniteSet(p.conns)
    /\ \A c \in p.conns :
         /\ c.width \in Nat
         /\ \A m \in PPS_TX..RATE_RX : c.stat[m] \in Nat
         /\ c.stat[PPS_RX] <= c.stat[RATE_RX] /\ c.stat[PPS_TX] <= c.stat[RATE_TX]

VARIABLES
  list,           \* the processes as the last refresh sorted them
  sorted_by,      \* the column it sorted the connections by
  pad,            \* what stands in the lines of the pad from Top on
  painted,        \* those shown as selected
  line_original,  \* the copy of the selected line without its colour
  tot_rows, selected, scroll_y, scroll_x, sort_by,
  cur_lines, cur_cols,
  \* history
  sheet,          \* the pad as the last refresh printed it
  whole,          \* it had a line of the pad for each row it printed
  stray,          \* it left the cursor here, below its only row (0: it did not)
  pulled          \* by how many rows refreshes have pulled the cursor up (no more
                  \* are counted than MaxScroll lets the part shown be away)

shown == <<list, sorted_by>>
size == <<cur_lines, cur_cols>>
past == <<sheet, whole, stray, pulled>>
vars == <<list, sorted_by, pad, painted, line_original, tot_rows, selected, scroll_y,
          scroll_x, sort_by, cur_lines, cur_cols, sheet, whole, stray, pulled>>

----------------------------------------------------------------------------
\* compare_process() and compare_connection(): larger values first, but the
\* identifiers of processes upwards; a column connections do not have means the
\* received rate.
ProcessColumn(p, mode) == IF mode = S_PID THEN -p.pid ELSE p.stat[mode]

ConnectionMode(mode) == IF mode \in {PPS_TX, PPS_RX, RATE_TX} THEN mode ELSE RATE_RX
ConnectionColumn(c, mode) == c.stat[ConnectionMode(mode)]

\* qsort_r() may leave equal elements in any order.
Descending(s) == \A i, j \in DOMAIN s : i < j => s[i] >= s[j]

ConnectionOrders(p, mode) ==
  IF view_conections
  THEN {s \in SetToSeqs(p.conns) : Descending([i \in DOMAIN s |-> ConnectionColumn(s[i], mode)])}
  ELSE {SetToSeq(p.conns)}

ProcessOrders(ps, mode) ==
  {s \in SetToSeqs(ps) : Descending([i \in DOMAIN s |-> ProcessColumn(s[i], mode)])}

\* sort(): the list in order, each process with its connections in order
Orders(ps, mode) ==
  UNION {{[i \in DOMAIN s |-> [s[i] EXCEPT !.conns = cs[i]]] :
            cs \in {f \in [DOMAIN s -> UNION {ConnectionOrders(p, mode) : p \in ps}] :
                      \A i \in DOMAIN s : f[i] \in ConnectionOrders(s[i], mode)}} :
         s \in ProcessOrders(ps, mode)}

\* all there is to choose from in an instance
Sortings == [ps \in Lists |-> [mode \in 0..(COLS_TO_SORT - 1) |-> Orders(ps, mode)]]

----------------------------------------------------------------------------
\* faulty: only what is received counts
Silent_Rx(c) == c.stat[RATE_RX] = 0

\* A connection without bytes at the moment
Silent(c) == c.stat[RATE_RX] = 0 /\ c.stat[RATE_TX] = 0

\* show_connections(): the list is cut before the first silent connection but
\* one that leads it.
ShownConnections(cs) ==
  LET last == {i \in DOMAIN cs : i = Len(cs) \/ Silent(cs[i + 1])}
  IN IF cs = <<>> THEN <<>> ELSE SubSeq(cs, 1, Min(last))

Listed(p) == verbose \/ p.stat[TOT_RX] # 0 \/ p.stat[TOT_TX] # 0
Busy(p) == p.stat[RATE_RX] # 0 \/ p.stat[RATE_TX] # 0
Opened(p) == view_conections /\ Busy(p)

\* In a line of the pad stand width characters of a text, the first of them
\* being number from.
Text(of, width) == [of |-> of, from |-> 0, width |-> width]
Blank == Text(NoText, 0)
Mixed == Text(AnyText, 0)

\* the rows of a process: itself, its connections and an empty row
RowsOf(p) ==
  LET self == <<Text(p.name, p.width - 1)>>
  IN IF ~Listed(p) THEN <<>>
     ELSE IF ~Opened(p) \/ p.conns = <<>> THEN self
     ELSE self \o [i \in DOMAIN ShownConnections(p.conns) |->
                     Text(p.conns[i].id, p.conns[i].width)] \o <<Blank>>

Rows(s) == FlattenSeq([i \in DOMAIN s |-> RowsOf(s[i])])

\* wprintw() and '\n': a text that fills a line goes on in the next one, be it
\* only for the end of the line.
Wrapped(t, cols) ==
  [k \in 1..(t.width \div cols + 1) |->
     [of |-> t.of, from |-> (k - 1) * cols, width |-> Smaller(cols, t.width - (k - 1) * cols)]]

\* Printing rows where the cursor of the pad is.  tot_rows counts rows, not lines.
\* At the end of the last line of the pad a new line fails, and what is printed
\* next lands behind what stands there already, also when the pad was made larger
\* in between: from that line on the pad is mixed up.
Printed(at, new) ==
  LET lines == FlattenSeq([i \in DOMAIN new |-> Wrapped(new[i], at.cols)])
      limit == IF at.fresh THEN at.lines - Top ELSE Len(at.rows)
      all == at.rows \o lines
  IN IF new = <<>> THEN at
     ELSE IF at.stuck THEN [at EXCEPT !.count = @ + Len(new)]
     ELSE IF Len(all) > limit
     THEN [at EXCEPT !.count = @ + Len(new), !.rows = SubSeq(all, 1, limit - 1),
                     !.stuck = TRUE, !.whole = FALSE]
     ELSE [at EXCEPT !.count = @ + Len(new), !.rows = all, !.fresh = Len(all) < limit,
                     !.whole = @ /\ \A i \in DOMAIN new : new[i].width < at.cols]

\* A process: resize_pad() is called for its own width, and for its connections
\* once it is printed, as if they were one line each and no wider than the pad.
PrintedProcess(at, p) ==
  LET rows == RowsOf(p)
      self == Printed([at EXCEPT !.cols = Larger(@, p.width)], <<Head(rows)>>)
      lines == IF Opened(p) THEN Larger(at.lines, Len(p.conns) + LINE_START + self.count)
                            ELSE at.lines
  IN IF rows = <<>> THEN at ELSE Printed([self EXCEPT !.lines = lines], Tail(rows))

PrintedList(s) ==
  LET start == [rows |-> <<>>, count |-> 0, fresh |-> TRUE, stuck |-> FALSE, whole |-> TRUE,
                lines |-> cur_lines, cols |-> cur_cols]
      upto[n \in 0..Len(s)] == IF n = 0 THEN start ELSE PrintedProcess(upto[n - 1], s[n])
  IN upto[Len(s)]

\* Behind the last row the pad is cleared.
Sheet(at) ==
  [r \in Top..(at.lines - 1) |->
     IF r - LINE_START \in DOMAIN at.rows THEN at.rows[r - LINE_START]
     ELSE IF at.stuck THEN Mixed ELSE Blank]

----------------------------------------------------------------------------
OnPad(r, lines) == r \in Top..(lines - 1)

\* What paint and restore work on: the lines, which are painted, and the copy.
Paper == [pad |-> pad, painted |-> painted, copy |-> line_original]

\* The copy of a line lacks its last column.
Cut(line, cols) == [line EXCEPT !.width = Smaller(@, cols - 1)]

\* paint_selected(): the line is copied, and the copy painted.  A line below the
\* pad cannot be copied; then an older copy lands where the cursor of the pad is.
Paint(w, r, lines, cols) ==
  IF OnPad(r, lines)
  THEN [pad |-> [w.pad EXCEPT ![r] = Cut(@, cols)], painted |-> w.painted \cup {r},
        copy |-> Cut(w.pad[r], cols)]
  ELSE [pad |-> [s \in DOMAIN w.pad |-> Mixed], painted |-> DOMAIN w.pad, copy |-> w.copy]

\* restore_line(): the copy is written back, without paint, if there is the line.
Restore(w, r, lines) ==
  IF OnPad(r, lines) THEN [w EXCEPT !.pad[r] = w.copy, !.painted = @ \ {r}] ELSE w

Becomes(w) == pad' = w.pad /\ painted' = w.painted /\ line_original' = w.copy

----------------------------------------------------------------------------
\* tui_init(): the cursor stands on the first row of an empty pad.
Init ==
  /\ cur_lines = Larger(LINES, MIN_LINES_PAD) /\ cur_cols = Larger(COLS, MIN_COLS_PAD)
  /\ pad = [r \in Top..(cur_lines - 1) |-> Blank] /\ sheet = pad
  /\ list = <<>> /\ painted = {} /\ line_original = Mixed
  /\ tot_rows = 0 /\ selected = Top /\ scroll_y = Top /\ scroll_x = 0
  /\ sort_by = RATE_RX /\ sorted_by = RATE_RX
  /\ whole = TRUE /\ stray = 0 /\ pulled = 0

\* tui_show(): sort, print, clear what is below, bring the cursor into the list
\* if there are two rows or more, and paint its line.  A copy that is not made
\* anew has nothing in the columns the pad got meanwhile.
Show(order) ==
  LET at == PrintedList(order)
      rows == LINE_START + at.count
      printed == [pad |-> Sheet(at), painted |-> {},
                  copy |-> IF at.cols = cur_cols THEN line_original ELSE Mixed]
      within == IF rows > Top /\ selected > rows THEN rows ELSE selected
  IN /\ list' = order /\ sorted_by' = ConnectionMode(sort_by)
     /\ tot_rows' = rows /\ cur_lines' = at.lines /\ cur_cols' = at.cols
     /\ selected' = within
     /\ Becomes(IF rows > Top THEN Paint(printed, within, at.lines, at.cols) ELSE printed)
     /\ sheet' = Sheet(at) /\ whole' = at.whole
     /\ stray' = IF rows <= Top /\ selected > Top THEN selected ELSE 0
     /\ pulled' = Smaller(pulled + (selected - within), MaxScroll - Top)
     /\ UNCHANGED <<scroll_y, scroll_x, sort_by>>

\* faulty: the new line is copied before the old one is restored
Move_Swapped(from, to) ==
  /\ selected' = to
  /\ Becomes(Restore(Paint(Paper, to, cur_lines, cur_cols), from, cur_lines))
  /\ UNCHANGED <<shown, size, tot_rows, scroll_x, sort_by, past>>

\* faulty: the old line is not restored
Move_Only(from, to) ==
  /\ selected' = to
  /\ Becomes(Paint(Paper, to, cur_lines, cur_cols))
  /\ UNCHANGED <<shown, size, tot_rows, scroll_x, sort_by, past>>

\* The cursor moves to line to from line from.
Move(from, to) ==
  /\ selected' = to
  /\ Becomes(Paint(Restore(Paper, from, cur_lines), to, cur_lines, cur_cols))
  /\ UNCHANGED <<shown, size, tot_rows, scroll_x, sort_by, past>>

\* faulty: scrolled one row late
Down_Late ==
  /\ selected + 1 <= tot_rows
  /\ Move(selected, selected + 1)
  /\ scroll_y' = IF selected + 1 > LINES - 1 THEN scroll_y + 1 ELSE scroll_y
  /\ scroll_y' <= MaxScroll

\* tui_handle_input(): KEY_DOWN scrolls as soon as the last line but one of the
\* terminal is passed, KEY_UP whenever something is scrolled away; beyond the
\* ends of the list they beep and change nothing.
Down ==
  /\ selected + 1 <= tot_rows
  /\ Move(selected, selected + 1)
  /\ scroll_y' = IF selected + 1 >= LINES - 1 THEN scroll_y + 1 ELSE scroll_y
  /\ scroll_y' <= MaxScroll

Up ==
  /\ selected - 1 > LINE_START
  /\ Move(selected, selected - 1)
  /\ scroll_y' = IF scroll_y > LINE_START + 1 THEN scroll_y - 1 ELSE scroll_y

\* KEY_RIGHT and KEY_LEFT: five columns, or as many as there are
StepX(room) == {i \in 1..5 : i <= room}
Slide(x) ==
  /\ scroll_x' = x
  /\ UNCHANGED <<shown, size, pad, painted, line_original, tot_rows, selected, scroll_y,
                 sort_by, past>>

Right ==
  LET steps == StepX(cur_cols - COLS - scroll_x)
  IN steps # {} /\ Slide(scroll_x + Max(steps))
Left ==
  LET steps == StepX(scroll_x)
  IN steps # {} /\ Slide(scroll_x - Max(steps))

\* 's': the next refresh sorts by the next column.
SortKey ==
  /\ sort_by' = (sort_by + 1) % COLS_TO_SORT
  /\ UNCHANGED <<shown, size, pad, painted, line_original, tot_rows, selected, scroll_y,
                 scroll_x, past>>

Next ==
  \/ \E ps \in Lists : \E order \in Sortings[ps][sort_by] : Show(order)
  \/ Down \/ Up \/ Right \/ Left \/ SortKey

Spec == Init /\ [][Next]_vars

----------------------------------------------------------------------------
\* The properties of the cursor are for lists the pad has lines enough for, by
\* the count of the program: processes alone never make it larger (tui.c:424).
Fits == Larger(tot_rows, stray) < cur_lines

\* Whatever keys were pressed since the last refresh, moving the cursor puts each
\* line of the pad back as the refresh printed it, but for its last column; also
\* when rows took more than one line, or there was no room for the last of them.
\* The exception is one line: where a refresh has left the cursor below a list of
\* one row (tui.c:487), KEY_UP writes back a line of an older list (tui.c:635).
\* And when each row had a line of its own the refresh has printed the list.
RowsTrue ==
  /\ Fits => \A r \in DOMAIN pad \ {stray} : pad[r] \in {sheet[r], Cut(sheet[r], cur_cols)}
  /\ whole =>
       LET rows == Rows(list)
       IN \A r \in DOMAIN sheet :
            sheet[r] = IF r - LINE_START \in DOMAIN rows THEN rows[r - LINE_START] ELSE Blank

\* Exactly the line of the cursor is painted, if there is a choice of rows, and
\* none but it in any case; the cursor is on a row of the list, or between there
\* and where a refresh left it.
OnePainted ==
  Fits =>
    /\ painted \subseteq {selected} /\ (tot_rows > Top => painted = {selected})
    /\ selected \in Top..Larger(Top, Larger(tot_rows, stray))

\* The cursor never leaves the terminal downwards, and upwards no farther than
\* refreshes had to pull it up all in all: the part shown stays where it was
\* then (tui.c:496).  As long as none had to, the part shown depends on the
\* cursor alone.
CursorSeen ==
  LET first == Top + Larger(0, selected - (LINES - 2))
  IN /\ scroll_x \in 0..Larger(0, cur_cols - COLS)
     /\ scroll_y \in first..(first + pulled)

\* The list of connections is cut at a silent one in the belief that it was
\* sorted by what makes a connection silent (tui.c:259).  What is true of a
\* connection that is not shown is only that it has nothing in the column the
\* list was sorted by.
HiddenIdle ==
  \A i \in DOMAIN list : Opened(list[i]) =>
    LET cs == list[i].conns
    IN \A j \in (Len(ShownConnections(cs)) + 1)..Len(cs) :
         ConnectionColumn(cs[j], sorted_by) = 0
=============================================================================
