----------------------------- MODULE TextWriter -----------------------------
(***************************************************************************)
(* The framebuffer text writer of vga_text_buffer.rs with its two users:   *)
(* the logger (logging.rs) and the keyboard task (print! and               *)
(* Console::backspace).  A call runs under WRITER's lock, so that calls    *)
(* follow one another here; OutputLocks models the lock.                   *)
(*                                                                         *)
(* A character is a one-letter string, with "esc", "nl", "cr" and "sp" for *)
(* the ones that have no letter.  The writer never reads the framebuffer,  *)
(* so of the framebuffer the model keeps what the last call did to it:     *)
(* `drawn`, a sequence of glyphs and clearings.  The pixels of a glyph are *)
(* left out; they cover GlyphWidth by GlyphHeight from its position.       *)
(***************************************************************************)
EXTENDS Naturals, Sequences, FiniteSets

CONSTANTS
    Width, Height,              \* info.width, info.height
    GlyphWidth, GlyphHeight,    \* CHAR_RASTER_WIDTH, CHAR_RASTER_HEIGHT
    LineSpacing, BorderPadding, \* the font_constants
    Chars                       \* characters printed one at a time

(* The frame has room for a glyph. *)
ASSUME WriterAssumption ==
    /\ Width \in Nat /\ Height \in Nat /\ LineSpacing \in Nat /\ BorderPadding \in Nat
    /\ GlyphWidth \in Nat /\ GlyphHeight \in Nat /\ GlyphWidth > 0 /\ GlyphHeight > 0
    /\ BorderPadding + GlyphWidth < Width
    /\ BorderPadding + GlyphHeight + BorderPadding < Height

VARIABLES
    writer,     \* the struct Writer: x_pos, y_pos, last_width, color, state
    drawn,      \* what the last call did to the framebuffer
    todo,       \* what the call at work still has to write
    call,       \* what it is: its op, and the writer's state and colour before
    panicked    \* the "yes" of an arithmetic overflow (dev profile), else "no"

text_vars == <<writer, drawn, todo, call, panicked>>

Normal == <<"Normal">>

Clearing == [kind |-> "clear"]

(* Writer's initial value, after kernel init's set_fb has cleared it. *)
TextInit ==
    /\ writer = [x_pos |-> BorderPadding, y_pos |-> BorderPadding, last_width |-> 0,
                 color |-> "White", state |-> Normal]
    /\ drawn = <<>> /\ todo = <<>>
    /\ call = [op |-> "print", state |-> Normal, color |-> "White"]
    /\ panicked = "no"

-----------------------------------------------------------------------------

(* WriterState::feed, state by state.  An answer is the next state and     *)
(* whether the character is shown.                                         *)
Shown(state) == [state |-> state, shown |-> TRUE]
Taken(state) == [state |-> state, shown |-> FALSE]

(* Mutant: a code of one digit is not known. *)
two_digits_only(ch) == Taken(<<"SecondCode", ch>>)

feed_first(ch) ==
    IF ch = "0" THEN Taken(<<"Finishing", ch, ch>>) ELSE Taken(<<"SecondCode", ch>>)

code_color ==
    [d \in {"0", "1", "2", "3", "4", "5", "6", "7"} |->
        CASE d = "0" -> "Black"  [] d = "1" -> "Red"     [] d = "2" -> "Green"
          [] d = "3" -> "Yellow" [] d = "4" -> "Blue"    [] d = "5" -> "Magenta"
          [] d = "6" -> "Cyan"   [] d = "7" -> "White"]

(* Mutant: what follows a broken code is taken for another one. *)
starts_over(first, second, ch) ==
    CASE ch # "m" -> Taken(<<"FirstCode">>)
      [] ch = "m" /\ first = "0" -> Taken(<<"Color", "White">>)
      [] ch = "m" /\ first = "3" /\ second \in DOMAIN code_color ->
            Taken(<<"Color", code_color[second]>>)
      [] OTHER -> Taken(Normal)

feed_finishing(first, second, ch) ==
    CASE ch # "m" -> Shown(Normal)
      [] ch = "m" /\ first = "0" -> Taken(<<"Color", "White">>)
      [] ch = "m" /\ first = "3" /\ second \in DOMAIN code_color ->
            Taken(<<"Color", code_color[second]>>)
      [] OTHER -> Taken(Normal)

feed(state, ch) ==
    CASE state[1] = "Normal" -> IF ch = "esc" THEN Taken(<<"Escape">>) ELSE Shown(Normal)
      [] state[1] = "Escape" -> IF ch = "[" THEN Taken(<<"FirstCode">>) ELSE Shown(Normal)
      [] state[1] = "FirstCode" -> feed_first(ch)
      [] state[1] = "SecondCode" -> Taken(<<"Finishing", state[2], ch>>)
      [] state[1] = "Finishing" -> feed_finishing(state[2], state[3], ch)
      [] state[1] = "Color" -> Shown(state)

-----------------------------------------------------------------------------

(* A display is a writer and what was drawn since the call began. *)

carriage_return(d) == [d EXCEPT !.w.x_pos = BorderPadding]

newline(d) == carriage_return([d EXCEPT !.w.y_pos = @ + GlyphHeight + LineSpacing])

clear(d) ==
    [d EXCEPT !.w.x_pos = BorderPadding, !.w.y_pos = BorderPadding,
              !.drawn = Append(@, Clearing)]

(* Mutant: last_width is left as it was. *)
width_forgotten(d, ch) ==
    [d EXCEPT !.w.x_pos = @ + GlyphWidth,
              !.drawn = Append(@, [kind |-> "glyph", ch |-> ch, color |-> d.w.color,
                                   x |-> d.w.x_pos, y |-> d.w.y_pos])]

write_rendered_char(d, ch) ==
    [d EXCEPT !.w.last_width = GlyphWidth,
              !.w.x_pos = @ + GlyphWidth,
              !.drawn = Append(@, [kind |-> "glyph", ch |-> ch, color |-> d.w.color,
                                   x |-> d.w.x_pos, y |-> d.w.y_pos])]

(* Mutant: only a glyph that starts outside is wrapped. *)
starts_outside(d) == d.w.x_pos >= Width

past_right_edge(d) == d.w.x_pos + GlyphWidth >= Width

past_bottom(d) == d.w.y_pos + GlyphHeight + BorderPadding >= Height

write_glyph(d, ch) ==
    LET wrapped == IF past_right_edge(d) THEN newline(d) ELSE d
        fitted  == IF past_bottom(wrapped) THEN clear(wrapped) ELSE wrapped
    IN  write_rendered_char(fitted, ch)

(* After a character that is not shown: a finished colour code is applied. *)
apply_color(d) ==
    IF d.w.state[1] = "Color"
    THEN [d EXCEPT !.w.color = d.w.state[2], !.w.state = Normal]
    ELSE d

write_char(d, ch) ==
    LET fed  == feed(d.w.state, ch)
        next == [d EXCEPT !.w.state = fed.state]
    IN  CASE ~fed.shown -> apply_color(next)
          [] fed.shown /\ ch = "nl" -> newline(next)
          [] fed.shown /\ ch = "cr" -> carriage_return(next)
          [] OTHER -> write_glyph(next, ch)

Show(d) == writer' = d.w /\ drawn' = d.drawn

(* write_string: the characters of a print, one after the other. *)
WriteNext ==
    /\ panicked = "no" /\ todo # <<>>
    /\ Show(write_char([w |-> writer, drawn |-> drawn], Head(todo)))
    /\ todo' = Tail(todo)
    /\ UNCHANGED <<call, panicked>>

(* A print begins, under WRITER's lock. *)
Begin(op, s) ==
    /\ panicked = "no" /\ todo = <<>>
    /\ todo' = s
    /\ drawn' = <<>>
    /\ call' = [op |-> op, state |-> writer.state, color |-> writer.color]
    /\ UNCHANGED <<writer, panicked>>

-----------------------------------------------------------------------------

(* print! of one character, as the keyboard task does.  Bound: no newline  *)
(* while the cursor is below the frame, where one more makes no difference *)
(* to what follows.                                                        *)
PrintChar(ch) ==
    /\ ch = "nl" => writer.y_pos <= Height
    /\ Begin("print", <<ch>>)

color_code ==
    [c \in {"White", "Red", "Yellow", "Green", "Magenta"} |->
        CASE c = "White" -> <<"esc", "[", "3", "7", "m">>
          [] c = "Red" -> <<"esc", "[", "3", "1", "m">>
          [] c = "Yellow" -> <<"esc", "[", "3", "3", "m">>
          [] c = "Green" -> <<"esc", "[", "3", "2", "m">>
          [] c = "Magenta" -> <<"esc", "[", "3", "5", "m">>]

Reset == <<"esc", "[", "0", "m">>

Colored(color, s) == color_code[color] \o s \o Reset

(* Levels but Trace, which goes to the serial port only. *)
Levels == {"Error", "Warn", "Info", "Debug"}

stylized(level) ==
    CASE level = "Error" -> "Red" [] level = "Warn" -> "Yellow"
      [] level = "Info" -> "Green" [] level = "Debug" -> "Magenta"

(* Logger::log: target "t", level "l" and message "a", as one print. *)
log_line(level) ==
    <<"[">> \o Colored("White", <<"t">>) \o <<"]", "sp", "[">>
        \o color_code["Red"] \o Colored(stylized(level), <<"l">>) \o Reset
        \o <<"]", "sp", "a", "nl">>

Log(level) == Begin(level, log_line(level))

(* Writer::backspace: either subtraction may go below zero, which the dev  *)
(* profile's overflow check turns into a panic.                            *)
Backspace ==
    LET back == [w |-> [writer EXCEPT !.x_pos = @ - writer.last_width], drawn |-> <<>>]
        over == write_char(back, "sp")
    IN  /\ panicked = "no" /\ todo = <<>>
        /\ call' = [op |-> "backspace", state |-> writer.state, color |-> writer.color]
        /\ UNCHANGED todo
        /\ \/ /\ writer.x_pos < writer.last_width
              /\ panicked' = "yes"
              /\ UNCHANGED <<writer, drawn>>
           \/ /\ writer.x_pos >= writer.last_width
              /\ over.w.x_pos < over.w.last_width
              /\ Show(over)
              /\ panicked' = "yes"
           \/ /\ writer.x_pos >= writer.last_width
              /\ over.w.x_pos >= over.w.last_width
              /\ Show([over EXCEPT !.w.x_pos = @ - over.w.last_width])
              /\ UNCHANGED panicked

(* The panic handler; OutputLocks models what it prints. *)
Stopped == panicked = "yes" /\ UNCHANGED text_vars

TextNext ==
    \/ \E ch \in Chars : PrintChar(ch)
    \/ \E level \in Levels : Log(level)
    \/ WriteNext
    \/ Backspace
    \/ Stopped

TextSpec == TextInit /\ [][TextNext]_text_vars

-----------------------------------------------------------------------------

Colors == {code_color[d] : d \in DOMAIN code_color}

(* The states the writer rests in: Color is never one of them. *)
RestingState(s) ==
    \/ s \in {Normal, <<"Escape">>, <<"FirstCode">>}
    \/ s[1] = "SecondCode" /\ Len(s) = 2
    \/ s[1] = "Finishing" /\ Len(s) = 3

(* The characters that reach the writer. *)
Letters ==
    Chars \cup {"esc", "[", "]", "sp", "nl", "t", "l", "a", "m", "0", "1", "2", "3", "5", "7"}

(* The state is well typed: subtractions leave the cursor in range, and    *)
(* between characters no colour waits to be applied in the writer's state. *)
TextTypeOK ==
    /\ writer.x_pos \in Nat /\ writer.y_pos \in Nat
    /\ writer.last_width \in {0, GlyphWidth}
    /\ writer.color \in Colors
    /\ RestingState(writer.state)
    /\ todo \in Seq(Letters) /\ call.op \in Levels \cup {"print", "backspace"}
    /\ \A k \in DOMAIN drawn : drawn[k].kind \in {"glyph", "clear"}
    /\ panicked \in {"yes", "no"}

(* write_pixel's index never leaves the framebuffer, and no glyph covers   *)
(* part of another: every glyph lies in the frame, on the grid of glyphs,  *)
(* wherever lines wrapped, the screen was cleared or a backspace went; and *)
(* the cursor never underflows (TextTypeOK).                               *)
GlyphsInFrame ==
    /\ TextTypeOK
    /\ \A k \in DOMAIN drawn : drawn[k].kind = "glyph" =>
           /\ drawn[k].x + GlyphWidth <= Width
           /\ drawn[k].y + GlyphHeight <= Height
           /\ (drawn[k].x - BorderPadding) % GlyphWidth = 0
           /\ (drawn[k].y - BorderPadding) % (GlyphHeight + LineSpacing) = 0

(* The glyph the cursor stands right behind, if the last call ended in one. *)
JustDrawn(g) ==
    /\ drawn # <<>> /\ g = drawn[Len(drawn)] /\ g.kind = "glyph"
    /\ writer.x_pos = g.x + GlyphWidth /\ writer.y_pos = g.y

(* Outside an escape code, a backspace after a glyph covers exactly that   *)
(* glyph and leaves the cursor in its place, also in the last column and   *)
(* in the last line: it neither wraps nor clears.                          *)
BackspaceErases ==
    [][\A k \in DOMAIN drawn :
          (Backspace /\ JustDrawn(drawn[k]) /\ writer.state = Normal) =>
              /\ drawn' = <<[drawn[k] EXCEPT !.ch = "sp", !.color = writer.color]>>
              /\ writer' = [writer EXCEPT !.x_pos = drawn[k].x]
              /\ panicked' = "no"]_text_vars

Glyph(ch, color) == [ch |-> ch, color |-> color]

(* What a log line looks like. *)
LogText(level) ==
    <<Glyph("[", call.color), Glyph("t", "White"), Glyph("]", "White"), Glyph("sp", "White"),
      Glyph("[", "White"), Glyph("l", stylized(level)), Glyph("]", "White"),
      Glyph("sp", "White"), Glyph("a", "White")>>

IsGlyph(g) == g.kind = "glyph"

GlyphsUpTo(s, k) == Cardinality({j \in 1 .. k : IsGlyph(s[j])})

(* Clearings aside, the n-th glyph of s is the n-th of the text. *)
InOrder(s, text) ==
    \A k \in 1 .. Len(s) :
        IsGlyph(s[k]) => Glyph(s[k].ch, s[k].color) = text[GlyphsUpTo(s, k)]

(* The logger's escape codes and the writer's parser agree: a log line     *)
(* that starts outside an escape code shows its text, the level in its     *)
(* colour, no trace of a code, and leaves the writer in white at the       *)
(* start of a line.                                                        *)
LogShowsText ==
    (call.op \in Levels /\ call.state = Normal /\ todo = <<>>) =>
        /\ InOrder(drawn, LogText(call.op))
        /\ GlyphsUpTo(drawn, Len(drawn)) = Len(LogText(call.op))
        /\ writer.state = Normal /\ writer.color = "White"
        /\ writer.x_pos = BorderPadding

(* What follows the target in a log line. *)
LogTail(level) == SubSeq(LogText(level), 3, 9)

(* Clearings aside, the glyphs of s after the first `skipped` are those of *)
(* the text.                                                               *)
InOrderAfter(s, skipped, text) ==
    \A k \in 1 .. Len(s) :
        (IsGlyph(s[k]) /\ GlyphsUpTo(s, k) > skipped) =>
            Glyph(s[k].ch, s[k].color) = text[GlyphsUpTo(s, k) - skipped]

(* Whatever the writer was left in, in the middle of an escape code or in  *)
(* a colour, by keys or by a backspace: a log line is garbled in its       *)
(* target at most.  It shows the level in its colour and the message in    *)
(* white as its last glyphs, and leaves the writer outside a code, in      *)
(* white, at the start of a line.                                          *)
LogRecovers ==
    (call.op \in Levels /\ todo = <<>>) =>
        LET skipped == GlyphsUpTo(drawn, Len(drawn)) - Len(LogTail(call.op))
        IN  /\ skipped >= 0 /\ InOrderAfter(drawn, skipped, LogTail(call.op))
            /\ writer.state = Normal /\ writer.color = "White"
            /\ writer.x_pos = BorderPadding
=============================================================================
