----------------------------- MODULE TextProofs -----------------------------
(***************************************************************************)
(* What the text writer draws, for every frame and font.                   *)
(*                                                                         *)
(* TInv puts the cursor and every glyph on the grid, and lets the last     *)
(* width differ from a glyph's only while nothing is drawn; write_char and *)
(* the subtractions of backspace keep it.  LogInv follows the characters   *)
(* of a log line: after the n-th, the writer's parser is in StateAt, its   *)
(* colour is ColorAt and GlyphsAt glyphs of the text are drawn.            *)
(* RecoverInv does so for a line that began inside a code: CatchingUp is   *)
(* where the parser may be in its first six characters.                    *)
(***************************************************************************)
EXTENDS TextWriter, Integers, FiniteSetTheorems, TLAPS

(* The words the writer's states are made of. *)
Words ==
    Letters \cup {"Normal", "Escape", "FirstCode", "SecondCode", "Finishing", "Color"}
            \cup Colors

Marks ==
    [kind : {"clear"}]
        \cup [kind : {"glyph"}, ch : Letters, color : Colors, x : Nat, y : Nat]

OnGrid(v, step) == \E c \in Int : v = BorderPadding + c * step

Fits(g) ==
    g.kind = "glyph" =>
        /\ g.x + GlyphWidth < Width /\ g.y + GlyphHeight + BorderPadding < Height
        /\ OnGrid(g.x, GlyphWidth) /\ OnGrid(g.y, GlyphHeight + LineSpacing)

Writers ==
    [x_pos : Nat, y_pos : Nat, last_width : {0, GlyphWidth}, color : Colors, state : Seq(Words)]

AtCell(w) == OnGrid(w.x_pos, GlyphWidth) /\ OnGrid(w.y_pos, GlyphHeight + LineSpacing)

(* A display whose glyphs are all in the frame. *)
Sound(d) ==
    /\ d \in [w : Writers, drawn : Seq(Marks)]
    /\ AtCell(d.w)
    /\ \A k \in 1 .. Len(d.drawn) : Fits(d.drawn[k])
    /\ (\E k \in 1 .. Len(d.drawn) : d.drawn[k].kind = "glyph") => d.w.last_width = GlyphWidth

(* The glyph of ch at the cursor. *)
GlyphAt(d, ch) ==
    [kind |-> "glyph", ch |-> ch, color |-> d.w.color, x |-> d.w.x_pos, y |-> d.w.y_pos]

(* The writer's state and colour are as they were. *)
Kept(e, d) == e.w.state = d.w.state /\ e.w.color = d.w.color

(* Every glyph is in the frame, and the cursor is on the grid. *)
TInv ==
    /\ Sound([w |-> writer, drawn |-> drawn]) /\ RestingState(writer.state)
    /\ todo \in Seq(Letters) /\ call.op \in Levels \cup {"print", "backspace"}
    /\ panicked \in {"yes", "no"}

-----------------------------------------------------------------------------

(* A step to the next or the last place of the grid. *)
LEMMA GridFacts ==
    ASSUME NEW step \in Nat, step > 0
    PROVE  /\ OnGrid(BorderPadding, step)
           /\ \A v \in Int : OnGrid(v, step) =>
                /\ OnGrid(v + step, step) /\ OnGrid(v - step, step)
                /\ (v - BorderPadding) % step = 0
<1>. BorderPadding \in Nat  BY WriterAssumption DEF WriterAssumption
<1>1. OnGrid(BorderPadding, step)
  <2>1. 0 \in Int /\ BorderPadding = BorderPadding + 0 * step  OBVIOUS
  <2>. QED  BY <2>1 DEF OnGrid
<1>2. ASSUME NEW v \in Int, OnGrid(v, step)
      PROVE  /\ OnGrid(v + step, step) /\ OnGrid(v - step, step)
             /\ (v - BorderPadding) % step = 0
  <2>1. PICK c \in Int : v = BorderPadding + c * step  BY <1>2 DEF OnGrid
  <2>2. c * step \in Int /\ (c + 1) * step = c * step + step /\ (c - 1) * step = c * step - step
    OBVIOUS
  <2>3. v + step = BorderPadding + (c + 1) * step /\ v - step = BorderPadding + (c - 1) * step
    BY <2>1, <2>2
  <2>4. c + 1 \in Int /\ c - 1 \in Int  OBVIOUS
  <2>5. (c * step) % step = 0  OBVIOUS
  <2>6. v - BorderPadding = c * step  BY <2>1, <2>2
  <2>7. OnGrid(v + step, step) /\ OnGrid(v - step, step)  BY <2>3, <2>4 DEF OnGrid
  <2>. QED  BY <2>5, <2>6, <2>7
<1>. QED  BY <1>1, <1>2

(* What WriterState::feed answers: a state to rest in, or a colour. *)
LEMMA FeedFacts ==
    ASSUME NEW state \in Seq(Words), RestingState(state), NEW ch \in Letters
    PROVE  LET fed == feed(state, ch) IN
           /\ fed.state \in Seq(Words) /\ fed.shown \in BOOLEAN
           /\ \/ RestingState(fed.state) /\ fed.state[1] # "Color"
              \/ ~fed.shown /\ fed.state[1] = "Color" /\ fed.state[2] \in Colors
           /\ (state = Normal /\ ch # "esc") => fed = Shown(Normal)
<1>1. Normal \in Seq(Words) /\ Normal[1] = "Normal"  BY DEF Normal, Words
<1>2. CASE state[1] = "Normal"
  <2>1. feed(state, ch) = IF ch = "esc" THEN Taken(<<"Escape">>) ELSE Shown(Normal)
    BY <1>2 DEF feed
  <2>2. <<"Escape">> \in Seq(Words) /\ <<"Escape">>[1] = "Escape"  BY DEF Words
  <2>. QED  BY <1>1, <2>1, <2>2 DEF Shown, Taken, RestingState
<1>3. CASE state[1] = "Escape"
  <2>1. feed(state, ch) = IF ch = "[" THEN Taken(<<"FirstCode">>) ELSE Shown(Normal)
    BY <1>3 DEF feed
  <2>2. <<"FirstCode">> \in Seq(Words) /\ <<"FirstCode">>[1] = "FirstCode"  BY DEF Words
  <2>. QED  BY <1>1, <1>3, <2>1, <2>2 DEF Shown, Taken, RestingState
<1>4. CASE state[1] = "FirstCode"
  <2>1. feed(state, ch) = IF ch = "0" THEN Taken(<<"Finishing", ch, ch>>)
                          ELSE Taken(<<"SecondCode", ch>>)
    BY <1>4 DEF feed, feed_first
  <2>2. /\ <<"Finishing", ch, ch>> \in Seq(Words) /\ <<"Finishing", ch, ch>>[1] = "Finishing"
        /\ Len(<<"Finishing", ch, ch>>) = 3
        /\ <<"SecondCode", ch>> \in Seq(Words) /\ <<"SecondCode", ch>>[1] = "SecondCode"
        /\ Len(<<"SecondCode", ch>>) = 2
    BY DEF Words
  <2>. QED  BY <1>1, <1>4, <2>1, <2>2 DEF Taken, RestingState
<1>5. CASE state[1] = "SecondCode"
  <2>1. Len(state) = 2  BY <1>1, <1>5 DEF RestingState, Normal
  <2>2. state[2] \in Words  BY <2>1
  <2>3. feed(state, ch) = Taken(<<"Finishing", state[2], ch>>)  BY <1>5 DEF feed
  <2>4. /\ <<"Finishing", state[2], ch>> \in Seq(Words)
        /\ <<"Finishing", state[2], ch>>[1] = "Finishing"
        /\ Len(<<"Finishing", state[2], ch>>) = 3
    BY <2>2 DEF Words
  <2>. QED  BY <1>1, <1>5, <2>3, <2>4 DEF Taken, RestingState
<1>6. CASE state[1] = "Finishing"
  <2>1. feed(state, ch) = feed_finishing(state[2], state[3], ch)  BY <1>6 DEF feed
  <2>2. \/ feed_finishing(state[2], state[3], ch) = Shown(Normal)
        \/ feed_finishing(state[2], state[3], ch) = Taken(Normal)
        \/ feed_finishing(state[2], state[3], ch) = Taken(<<"Color", "White">>)
        \/ /\ state[3] \in DOMAIN code_color
           /\ feed_finishing(state[2], state[3], ch) = Taken(<<"Color", code_color[state[3]]>>)
    BY DEF feed_finishing
  <2>3. Colors \subseteq Words /\ "White" \in Colors  BY DEF Colors, code_color, Words
  <2>4. \A c \in Colors : /\ <<"Color", c>> \in Seq(Words) /\ <<"Color", c>>[1] = "Color"
                          /\ <<"Color", c>>[2] = c
    BY <2>3 DEF Words
  <2>5. state[3] \in DOMAIN code_color => code_color[state[3]] \in Colors  BY DEF Colors
  <2>6. state # Normal  BY <1>1, <1>6
  <2>7. CASE feed(state, ch) \in {Shown(Normal), Taken(Normal)}
    <3>1. feed(state, ch).state = Normal /\ feed(state, ch).shown \in BOOLEAN
      <4>1. CASE feed(state, ch) = Shown(Normal)  BY <4>1 DEF Shown
      <4>2. CASE feed(state, ch) = Taken(Normal)  BY <4>2 DEF Taken
      <4>. QED  BY <2>7, <4>1, <4>2
    <3>2. RestingState(Normal)  BY DEF RestingState
    <3>. QED  BY <1>1, <2>6, <3>1, <3>2
  <2>8. CASE \E c \in Colors : feed(state, ch) = Taken(<<"Color", c>>)
    BY <2>4, <2>6, <2>8 DEF Taken
  <2>. QED  BY <2>1, <2>2, <2>3, <2>5, <2>7, <2>8
<1>. QED  BY <1>2, <1>3, <1>4, <1>5, <1>6 DEF RestingState, Normal

(* carriage_return and newline stay on the grid and draw nothing. *)
LEMMA NewlineFacts ==
    ASSUME NEW d, Sound(d)
    PROVE  /\ Sound(carriage_return(d)) /\ Kept(carriage_return(d), d)
           /\ Sound(newline(d)) /\ Kept(newline(d), d)
           /\ newline(d).w.x_pos = BorderPadding /\ newline(d).drawn = d.drawn
<1>. USE WriterAssumption DEF WriterAssumption
<1>1. ASSUME NEW e, Sound(e)
      PROVE  /\ Sound(carriage_return(e)) /\ Kept(carriage_return(e), e)
             /\ carriage_return(e).w.x_pos = BorderPadding /\ carriage_return(e).drawn = e.drawn
  <2>. DEFINE f == carriage_return(e)
  <2>1. f \in [w : Writers, drawn : Seq(Marks)]
    BY Zenon, <1>1 DEF Sound, carriage_return, Writers
  <2>2. /\ f.w.x_pos = BorderPadding /\ f.w.y_pos = e.w.y_pos /\ f.w.state = e.w.state
        /\ f.w.last_width = e.w.last_width /\ f.drawn = e.drawn /\ f.w.color = e.w.color
    BY <1>1 DEF Sound, carriage_return, Writers
  <2>3. AtCell(f.w)  BY <1>1, <2>2, GridFacts DEF Sound, AtCell
  <2>. HIDE DEF f
  <2>4. Sound(f) /\ Kept(f, e)  BY <1>1, <2>1, <2>2, <2>3 DEF Sound, Kept
  <2>. QED  BY <2>2, <2>4 DEF f
<1>2. ASSUME NEW down, down = [d EXCEPT !.w.y_pos = @ + GlyphHeight + LineSpacing]
      PROVE  Sound(down) /\ Kept(down, d) /\ down.drawn = d.drawn
  <2>1. down \in [w : Writers, drawn : Seq(Marks)]
    <3>1. d.w \in Writers /\ d.drawn \in Seq(Marks)  BY DEF Sound
    <3>2. d.w.y_pos + GlyphHeight + LineSpacing \in Nat
      <4>1. d.w.y_pos \in Nat  BY <3>1 DEF Writers
      <4>. QED  BY <4>1
    <3>3. [d.w EXCEPT !.y_pos = @ + GlyphHeight + LineSpacing] \in Writers
      BY Zenon, <3>1, <3>2 DEF Writers
    <3>4. down.w = [d.w EXCEPT !.y_pos = @ + GlyphHeight + LineSpacing]
      BY <1>2 DEF Sound
    <3>. QED  BY Zenon, <1>2, <3>3, <3>4 DEF Sound
  <2>2. /\ down.w.x_pos = d.w.x_pos /\ down.w.y_pos = d.w.y_pos + (GlyphHeight + LineSpacing)
        /\ down.w.state = d.w.state /\ down.w.last_width = d.w.last_width
        /\ down.drawn = d.drawn /\ d.w.y_pos \in Int /\ down.w.color = d.w.color
    BY <1>2 DEF Sound, Writers
  <2>3. OnGrid(d.w.y_pos + (GlyphHeight + LineSpacing), GlyphHeight + LineSpacing)
    <3>1. GlyphHeight + LineSpacing \in Nat /\ GlyphHeight + LineSpacing > 0  OBVIOUS
    <3>2. OnGrid(d.w.y_pos, GlyphHeight + LineSpacing)  BY DEF Sound, AtCell
    <3>. QED  BY Zenon, <2>2, <3>1, <3>2, GridFacts
  <2>. QED  BY <2>1, <2>2, <2>3 DEF Sound, AtCell, Kept
<1>. QED  BY <1>1, <1>2 DEF newline, Kept

(* clear starts again at the top left corner. *)
LEMMA ClearFacts ==
    ASSUME NEW d, Sound(d)
    PROVE  /\ Sound(clear(d)) /\ Kept(clear(d), d)
           /\ clear(d).w.x_pos = BorderPadding /\ clear(d).w.y_pos = BorderPadding
           /\ clear(d).drawn = Append(d.drawn, Clearing)
<1>. USE WriterAssumption DEF WriterAssumption
<1>. DEFINE c == clear(d)
<1>1. Clearing \in Marks /\ Clearing.kind = "clear"  BY DEF Clearing, Marks
<1>2. d.drawn \in Seq(Marks)  BY DEF Sound
<1>3. /\ Append(d.drawn, Clearing) \in Seq(Marks)
      /\ Len(Append(d.drawn, Clearing)) = Len(d.drawn) + 1
      /\ \A k \in 1 .. Len(d.drawn) + 1 :
            Append(d.drawn, Clearing)[k] = IF k <= Len(d.drawn) THEN d.drawn[k] ELSE Clearing
  BY <1>1, <1>2
<1>4. c \in [w : Writers, drawn : Seq(Marks)]  BY Zenon, <1>3 DEF Sound, clear, Writers
<1>5. /\ c.w.x_pos = BorderPadding /\ c.w.y_pos = BorderPadding /\ c.w.state = d.w.state
      /\ c.w.last_width = d.w.last_width /\ c.drawn = Append(d.drawn, Clearing)
      /\ c.w.color = d.w.color
  BY Zenon DEF Sound, clear, Writers
<1>6. AtCell(c.w)
  <2>1. GlyphHeight + LineSpacing \in Nat /\ GlyphHeight + LineSpacing > 0  OBVIOUS
  <2>2. OnGrid(BorderPadding, GlyphHeight + LineSpacing)  BY <2>1, GridFacts
  <2>. QED  BY <1>5, <2>2, GridFacts DEF AtCell
<1>7. ASSUME NEW k \in 1 .. Len(c.drawn)
      PROVE  Fits(c.drawn[k]) /\ (c.drawn[k].kind = "glyph" => c.w.last_width = GlyphWidth)
  <2>1. CASE k <= Len(d.drawn)
    <3>1. k \in 1 .. Len(d.drawn) /\ c.drawn[k] = d.drawn[k]
      BY <1>2, <1>3, <1>5, <1>7, <2>1
    <3>. QED  BY <1>5, <3>1 DEF Sound
  <2>2. CASE ~(k <= Len(d.drawn))
    <3>1. c.drawn[k] = Clearing  BY <1>3, <1>5, <1>7, <2>2
    <3>. QED  BY <1>1, <3>1 DEF Fits
  <2>. QED  BY <2>1, <2>2
<1>. QED  BY <1>4, <1>5, <1>6, <1>7 DEF Sound, Kept

(* write_rendered_char draws at the cursor, and puts it behind the glyph. *)
LEMMA RenderedFacts ==
    ASSUME NEW d, Sound(d), ~past_right_edge(d), ~past_bottom(d), NEW ch \in Letters
    PROVE  /\ Sound(write_rendered_char(d, ch))
           /\ Kept(write_rendered_char(d, ch), d)
           /\ write_rendered_char(d, ch).drawn = Append(d.drawn, GlyphAt(d, ch))
           /\ GlyphAt(d, ch) \in Marks
<1>. USE WriterAssumption DEF WriterAssumption
<1>. DEFINE g == GlyphAt(d, ch)
            r == write_rendered_char(d, ch)
<1>1. /\ d.w.x_pos \in Nat /\ d.w.y_pos \in Nat /\ d.w.color \in Colors
      /\ d.drawn \in Seq(Marks)
  BY DEF Sound, Writers
<1>2. g \in Marks /\ Fits(g)
  <2>1. g \in Marks  BY <1>1 DEF Marks, GlyphAt
  <2>2. d.w.x_pos + GlyphWidth < Width /\ d.w.y_pos + GlyphHeight + BorderPadding < Height
    <3>. DEFINE x == d.w.x_pos
                y == d.w.y_pos
    <3>1. ~(x + GlyphWidth >= Width) /\ ~(y + GlyphHeight + BorderPadding >= Height)
      BY DEF past_right_edge, past_bottom
    <3>2. x \in Nat /\ y \in Nat  BY <1>1
    <3>. HIDE DEF x, y
    <3>3. x + GlyphWidth < Width /\ y + GlyphHeight + BorderPadding < Height  BY <3>1, <3>2
    <3>. QED  BY <3>3 DEF x, y
  <2>3. OnGrid(d.w.x_pos, GlyphWidth) /\ OnGrid(d.w.y_pos, GlyphHeight + LineSpacing)
    BY DEF Sound, AtCell
  <2>. QED  BY <2>1, <2>2, <2>3 DEF Fits, GlyphAt
<1>3. /\ Append(d.drawn, g) \in Seq(Marks) /\ Len(Append(d.drawn, g)) = Len(d.drawn) + 1
      /\ \A k \in 1 .. Len(d.drawn) + 1 :
            Append(d.drawn, g)[k] = IF k <= Len(d.drawn) THEN d.drawn[k] ELSE g
  <2>. HIDE DEF g
  <2>. QED  BY <1>1, <1>2
<1>4. /\ r.w.x_pos = d.w.x_pos + GlyphWidth /\ r.w.y_pos = d.w.y_pos /\ r.w.state = d.w.state
      /\ r.w.last_width = GlyphWidth /\ r.drawn = Append(d.drawn, g)
      /\ r.w.color = d.w.color
  BY Zenon DEF Sound, write_rendered_char, Writers, GlyphAt
<1>5. r \in [w : Writers, drawn : Seq(Marks)]
  <2>1. d.w \in Writers /\ d.w.x_pos + GlyphWidth \in Nat  BY <1>1 DEF Sound
  <2>2. [d.w EXCEPT !.last_width = GlyphWidth, !.x_pos = @ + GlyphWidth] \in Writers
    BY Zenon, <2>1 DEF Writers
  <2>3. r.w = [d.w EXCEPT !.last_width = GlyphWidth, !.x_pos = @ + GlyphWidth]
    BY DEF Sound, write_rendered_char, GlyphAt
  <2>4. r = [d EXCEPT !.w = r.w, !.drawn = r.drawn]
    BY Zenon DEF Sound, write_rendered_char, GlyphAt
  <2>. HIDE DEF g, r
  <2>. QED  BY Zenon, <1>3, <1>4, <2>2, <2>3, <2>4 DEF Sound
<1>6. AtCell(r.w)
  <2>1. OnGrid(d.w.x_pos, GlyphWidth) /\ OnGrid(d.w.y_pos, GlyphHeight + LineSpacing)
    BY DEF Sound, AtCell
  <2>2. OnGrid(d.w.x_pos + GlyphWidth, GlyphWidth)
    <3>1. d.w.x_pos \in Int /\ GlyphWidth \in Nat /\ GlyphWidth > 0  BY <1>1
    <3>. QED  BY <2>1, <3>1, GridFacts
  <2>. HIDE DEF g, r
  <2>. QED  BY <1>4, <2>1, <2>2 DEF AtCell
<1>7. ASSUME NEW k \in 1 .. Len(r.drawn)
      PROVE  Fits(r.drawn[k])
  <2>. HIDE DEF g, r
  <2>1. CASE k <= Len(d.drawn)
    <3>1. k \in 1 .. Len(d.drawn) /\ r.drawn[k] = d.drawn[k]
      BY <1>1, <1>3, <1>4, <1>7, <2>1
    <3>. QED  BY <3>1 DEF Sound
  <2>2. CASE ~(k <= Len(d.drawn))
    <3>1. r.drawn[k] = g  BY <1>3, <1>4, <1>7, <2>2
    <3>. QED  BY <1>2, <3>1
  <2>. QED  BY <2>1, <2>2
<1>. HIDE DEF g, r
<1>8. Sound(r)  BY <1>4, <1>5, <1>6, <1>7 DEF Sound
<1>. QED  BY <1>2, <1>4, <1>8 DEF r, g, Kept

(* What write_char does, by what feed answered: e is what d becomes. *)
Written(d, ch, fed, e) ==
    /\ ~fed.shown =>
         /\ e.drawn = d.drawn
         /\ fed.state[1] = "Color" => e.w.color = fed.state[2] /\ e.w.state = Normal
         /\ fed.state[1] # "Color" => e.w.color = d.w.color /\ e.w.state = fed.state
    /\ fed.shown => e.w.color = d.w.color /\ e.w.state = fed.state
    /\ (fed.shown /\ ch = "nl") => e.drawn = d.drawn /\ e.w.x_pos = BorderPadding
    /\ (fed.shown /\ ch \notin {"nl", "cr"}) =>
         \E g \in Marks :
            /\ IsGlyph(g) /\ g.ch = ch /\ g.color = d.w.color
            /\ e.drawn \in {Append(d.drawn, g), Append(Append(d.drawn, Clearing), g)}

(* write_char wraps before it draws, so what it draws is in the frame. *)
LEMMA WriteCharFacts ==
    ASSUME NEW d, Sound(d), RestingState(d.w.state), NEW ch \in Letters
    PROVE  /\ Sound(write_char(d, ch)) /\ RestingState(write_char(d, ch).w.state)
           /\ Written(d, ch, feed(d.w.state, ch), write_char(d, ch))
<1>. DEFINE fed == feed(d.w.state, ch)
            next == [d EXCEPT !.w.state = fed.state]
<1>1. d \in [w : Writers, drawn : Seq(Marks)] /\ d.w \in Writers /\ d.w.state \in Seq(Words)
  BY DEF Sound, Writers
<1>2. /\ fed.state \in Seq(Words) /\ fed.shown \in BOOLEAN
      /\ \/ RestingState(fed.state) /\ fed.state[1] # "Color"
         \/ ~fed.shown /\ fed.state[1] = "Color" /\ fed.state[2] \in Colors
  BY <1>1, FeedFacts
<1>. HIDE DEF fed
<1>3. next.w = [d.w EXCEPT !.state = fed.state] /\ next.drawn = d.drawn
  BY <1>1
<1>4. next.w \in Writers  BY Zenon, <1>1, <1>2, <1>3 DEF Writers
<1>5. /\ next.w.x_pos = d.w.x_pos /\ next.w.y_pos = d.w.y_pos
      /\ next.w.last_width = d.w.last_width /\ next.w.state = fed.state
      /\ next.w.color = d.w.color
  BY <1>1, <1>3 DEF Writers
<1>6. next \in [w : Writers, drawn : Seq(Marks)]  BY <1>1, <1>3, <1>4
<1>. HIDE DEF next
<1>7. Sound(next)  BY <1>3, <1>5, <1>6 DEF Sound, AtCell
<1>8. /\ ~fed.shown => write_char(d, ch) = apply_color(next)
      /\ fed.shown /\ ch = "nl" => write_char(d, ch) = newline(next)
      /\ fed.shown /\ ch = "cr" => write_char(d, ch) = carriage_return(next)
      /\ fed.shown /\ ch \notin {"nl", "cr"} => write_char(d, ch) = write_glyph(next, ch)
  BY <1>2 DEF write_char, next, fed
<1>9. CASE ~fed.shown
  <2>1. CASE fed.state[1] = "Color"
    <3>. DEFINE c == [next EXCEPT !.w.color = next.w.state[2], !.w.state = Normal]
    <3>1. apply_color(next) = c  BY <1>5, <2>1 DEF apply_color
    <3>2. fed.state[2] \in Colors  BY <1>2, <2>1
    <3>3. Normal \in Seq(Words) /\ RestingState(Normal)  BY DEF Normal, Words, RestingState
    <3>4. c.w = [next.w EXCEPT !.color = fed.state[2], !.state = Normal] /\ c.drawn = next.drawn
      BY <1>5, <1>6
    <3>5. c.w \in Writers
      <4>1. [next.w EXCEPT !.color = fed.state[2], !.state = Normal] \in Writers
        BY Zenon, <1>4, <3>2, <3>3 DEF Writers
      <4>. QED  BY <3>4, <4>1
    <3>6. c \in [w : Writers, drawn : Seq(Marks)]  BY Zenon, <1>6, <3>4, <3>5
    <3>. HIDE DEF c
    <3>7. /\ c.w.x_pos = next.w.x_pos /\ c.w.y_pos = next.w.y_pos
          /\ c.w.last_width = next.w.last_width /\ c.w.state = Normal
          /\ c.w.color = fed.state[2]
      <4>. DEFINE w == next.w
                  v == [w EXCEPT !.color = fed.state[2], !.state = Normal]
      <4>1. w \in Writers  BY <1>4
      <4>. HIDE DEF w
      <4>2. v.x_pos = w.x_pos /\ v.y_pos = w.y_pos /\ v.last_width = w.last_width
        BY <4>1 DEF Writers
      <4>3. v.state = Normal /\ v.color = fed.state[2]  BY <4>1 DEF Writers
      <4>. HIDE DEF v
      <4>4. c.w = v  BY <3>4 DEF v, w
      <4>. QED  BY <4>2, <4>3, <4>4 DEF w
    <3>8. Sound(c)  BY <1>7, <3>4, <3>6, <3>7 DEF Sound, AtCell
    <3>9. Written(d, ch, fed, c)  BY <1>3, <1>9, <2>1, <3>4, <3>7 DEF Written
    <3>. QED  BY <1>8, <1>9, <3>1, <3>3, <3>7, <3>8, <3>9 DEF fed
  <2>2. CASE fed.state[1] # "Color"
    <3>1. apply_color(next) = next  BY <1>5, <2>2 DEF apply_color
    <3>2. Written(d, ch, fed, next)  BY <1>3, <1>5, <1>9, <2>2 DEF Written
    <3>. QED  BY <1>2, <1>5, <1>7, <1>8, <1>9, <2>2, <3>1, <3>2 DEF fed
  <2>. QED  BY <2>1, <2>2
<1>10. CASE fed.shown
  <2>1. RestingState(next.w.state)  BY <1>2, <1>5, <1>10
  <2>2. /\ Sound(write_glyph(next, ch)) /\ Kept(write_glyph(next, ch), next)
        /\ \E g \in Marks :
              /\ IsGlyph(g) /\ g.ch = ch /\ g.color = d.w.color
              /\ write_glyph(next, ch).drawn
                     \in {Append(d.drawn, g), Append(Append(d.drawn, Clearing), g)}
    <3>. DEFINE wrapped == IF past_right_edge(next) THEN newline(next) ELSE next
                fitted == IF past_bottom(wrapped) THEN clear(wrapped) ELSE wrapped
    <3>1. Sound(wrapped) /\ Kept(wrapped, next) /\ wrapped.drawn = d.drawn
      BY Zenon, <1>3, <1>7, NewlineFacts DEF Kept
    <3>2. ~past_right_edge(wrapped)
      <4>1. CASE past_right_edge(next)
        BY <1>7, <4>1, NewlineFacts, WriterAssumption DEF past_right_edge, WriterAssumption
      <4>2. CASE ~past_right_edge(next)  BY <4>2
      <4>. QED  BY <4>1, <4>2
    <3>. HIDE DEF wrapped
    <3>3. /\ Sound(fitted) /\ Kept(fitted, wrapped)
          /\ fitted.drawn \in {d.drawn, Append(d.drawn, Clearing)}
      BY <3>1, ClearFacts DEF Kept
    <3>4. ~past_right_edge(fitted) /\ ~past_bottom(fitted)
      <4>1. CASE past_bottom(wrapped)
        BY <3>1, <4>1, ClearFacts, WriterAssumption
        DEF past_right_edge, past_bottom, WriterAssumption
      <4>2. CASE ~past_bottom(wrapped)  BY <3>2, <4>2
      <4>. QED  BY <4>1, <4>2
    <3>5. write_glyph(next, ch) = write_rendered_char(fitted, ch)
      BY DEF write_glyph, wrapped
    <3>. HIDE DEF fitted
    <3>6. /\ Sound(write_glyph(next, ch)) /\ Kept(write_glyph(next, ch), fitted)
          /\ write_glyph(next, ch).drawn = Append(fitted.drawn, GlyphAt(fitted, ch))
          /\ GlyphAt(fitted, ch) \in Marks
      BY <3>3, <3>4, <3>5, RenderedFacts
    <3>7. fitted.w.color = d.w.color  BY <1>5, <3>1, <3>3 DEF Kept
    <3>8. /\ IsGlyph(GlyphAt(fitted, ch)) /\ GlyphAt(fitted, ch).ch = ch
          /\ GlyphAt(fitted, ch).color = d.w.color
      BY <3>7 DEF GlyphAt, IsGlyph
    <3>. QED  BY <3>1, <3>3, <3>6, <3>8 DEF Kept
  <2>3. CASE ch = "nl"
    <3>1. Written(d, ch, fed, newline(next))
      BY Zenon, <1>3, <1>5, <1>7, <1>10, <2>3, NewlineFacts DEF Written, Kept
    <3>. QED  BY <1>7, <1>8, <1>10, <2>1, <2>3, <3>1, NewlineFacts DEF Kept, fed
  <2>4. CASE ch = "cr"
    <3>1. Written(d, ch, fed, carriage_return(next))
      BY <1>5, <1>7, <1>10, <2>4, NewlineFacts DEF Written, Kept
    <3>. QED  BY <1>7, <1>8, <1>10, <2>1, <2>4, <3>1, NewlineFacts DEF Kept, fed
  <2>5. CASE ch \notin {"nl", "cr"}
    <3>1. Written(d, ch, fed, write_glyph(next, ch))
      BY <1>5, <1>10, <2>2, <2>5 DEF Written, Kept
    <3>. QED  BY <1>8, <1>10, <2>1, <2>2, <2>5, <3>1 DEF Kept, fed
  <2>. QED  BY <2>3, <2>4, <2>5
<1>. QED  BY <1>2, <1>9, <1>10

-----------------------------------------------------------------------------

(* The positions of a log line at which an escape code begins: those that  *)
(* name a colour, and the resets.                                          *)
ColorStarts == {2, 15, 20}
ResetStarts == {8, 26, 30}

LineLength == 37

(* The digit of the level's colour. *)
LevelDigit(level) ==
    CASE level = "Error" -> "1" [] level = "Warn" -> "3"
      [] level = "Info" -> "2" [] level = "Debug" -> "5"

DigitAt(level, start) ==
    CASE start = 2 -> "7" [] start = 15 -> "1" [] start = 20 -> LevelDigit(level)

(* The n-th character of a log line. *)
LetterAt(level, n) ==
    CASE n \in ColorStarts \cup ResetStarts -> "esc"
      [] n - 1 \in ColorStarts \cup ResetStarts -> "["
      [] n - 2 \in ColorStarts -> "3"
      [] n - 3 \in ColorStarts -> DigitAt(level, n - 3)
      [] n - 4 \in ColorStarts -> "m"
      [] n - 2 \in ResetStarts -> "0"
      [] n - 3 \in ResetStarts -> "m"
      [] n \in {1, 14} -> "[" [] n = 7 -> "t" [] n = 25 -> "l" [] n = 36 -> "a"
      [] n \in {12, 34} -> "]" [] n \in {13, 35} -> "sp"
      [] n = 37 -> "nl"

(* The items of two sequences put together. *)
LEMMA Joined ==
    ASSUME NEW s \in Seq(Letters), NEW t \in Seq(Letters)
    PROVE  /\ s \o t \in Seq(Letters) /\ Len(s \o t) = Len(s) + Len(t)
           /\ \A i \in 1 .. Len(s) : (s \o t)[i] = s[i]
           /\ \A i \in 1 .. Len(t) : (s \o t)[Len(s) + i] = t[i]
OBVIOUS

(* Logger::log writes the line that LetterAt spells out. *)
LEMMA LogLine ==
    ASSUME NEW level \in Levels
    PROVE  /\ log_line(level) \in Seq(Letters) /\ Len(log_line(level)) = LineLength
           /\ \A n \in 1 .. LineLength : log_line(level)[n] = LetterAt(level, n)
<1>. DEFINE digit == LevelDigit(level)
            white == color_code["White"]
            red == color_code["Red"]
            own == color_code[stylized(level)]
            target == (white \o <<"t">>) \o Reset
            shown == (own \o <<"l">>) \o Reset
            start == <<"]", "sp", "[">>
            rest == <<"]", "sp", "a", "nl">>
<1>1. white = <<"esc", "[", "3", "7", "m">> /\ red = <<"esc", "[", "3", "1", "m">>
  BY DEF color_code
<1>2. own = <<"esc", "[", "3", digit, "m">> /\ digit \in {"1", "2", "3", "5"}
  BY DEF color_code, stylized, Levels, LevelDigit
<1>. HIDE DEF digit, white, red, own
<1>3. /\ white \in Seq(Letters) /\ Len(white) = 5 /\ red \in Seq(Letters) /\ Len(red) = 5
      /\ own \in Seq(Letters) /\ Len(own) = 5
  BY <1>1, <1>2 DEF Letters
<1>4. /\ Reset \in Seq(Letters) /\ Len(Reset) = 4 /\ start \in Seq(Letters) /\ Len(start) = 3
      /\ rest \in Seq(Letters) /\ Len(rest) = 4
      /\ <<"[">> \in Seq(Letters) /\ Len(<<"[">>) = 1
      /\ <<"t">> \in Seq(Letters) /\ Len(<<"t">>) = 1
      /\ <<"l">> \in Seq(Letters) /\ Len(<<"l">>) = 1
  BY DEF Letters, Reset
<1>5. ASSUME NEW c \in Seq(Letters), Len(c) = 5, NEW x \in Seq(Letters), Len(x) = 1
      PROVE  LET s == (c \o x) \o Reset IN
             /\ s \in Seq(Letters) /\ Len(s) = 10
             /\ \A i \in 1 .. 5 : s[i] = c[i]
             /\ s[6] = x[1]
             /\ \A i \in 1 .. 4 : s[6 + i] = Reset[i]
  <2>. DEFINE h == c \o x
              s == h \o Reset
  <2>1. /\ h \in Seq(Letters) /\ Len(h) = Len(c) + Len(x)
        /\ \A i \in 1 .. Len(c) : h[i] = c[i]
        /\ \A i \in 1 .. Len(x) : h[Len(c) + i] = x[i]
    BY Joined, Zenon
  <2>. HIDE DEF h
  <2>2. Len(h) = 6 /\ (\A i \in 1 .. 5 : h[i] = c[i]) /\ h[6] = x[1]  BY <1>5, <2>1
  <2>3. /\ s \in Seq(Letters) /\ Len(s) = Len(h) + Len(Reset)
        /\ \A i \in 1 .. Len(h) : s[i] = h[i]
        /\ \A i \in 1 .. Len(Reset) : s[Len(h) + i] = Reset[i]
    <3>1. h \in Seq(Letters) /\ Reset \in Seq(Letters)  BY <1>4, <2>1
    <3>. QED  BY <3>1, Joined, Zenon
  <2>. HIDE DEF s
  <2>4. /\ Len(s) = 10 /\ \A i \in 1 .. 5 : s[i] = c[i]
        /\ s[6] = x[1] /\ \A i \in 1 .. 4 : s[6 + i] = Reset[i]
    BY <1>4, <2>2, <2>3
  <2>. QED  BY Zenon, <2>3, <2>4 DEF s, h
<1>. HIDE DEF start, rest
<1>6. /\ target \in Seq(Letters) /\ Len(target) = 10 /\ \A i \in 1 .. 5 : target[i] = white[i]
      /\ target[6] = "t" /\ \A i \in 1 .. 4 : target[6 + i] = Reset[i]
  <2>1. white \in Seq(Letters) /\ Len(white) = 5 /\ <<"t">> \in Seq(Letters)
        /\ Len(<<"t">>) = 1 /\ <<"t">>[1] = "t"
    BY <1>3, <1>4
  <2>. QED  BY <1>5, <2>1, Zenon
<1>7. /\ shown \in Seq(Letters) /\ Len(shown) = 10 /\ \A i \in 1 .. 5 : shown[i] = own[i]
      /\ shown[6] = "l" /\ \A i \in 1 .. 4 : shown[6 + i] = Reset[i]
  <2>1. own \in Seq(Letters) /\ Len(own) = 5 /\ <<"l">> \in Seq(Letters)
        /\ Len(<<"l">>) = 1 /\ <<"l">>[1] = "l"
    BY <1>3, <1>4
  <2>. QED  BY <1>5, <2>1, Zenon
<1>. HIDE DEF target, shown
<1>. DEFINE s1 == <<"[">> \o target
            s2 == s1 \o start
            s3 == s2 \o red
            s4 == s3 \o shown
            s5 == s4 \o Reset
            s6 == s5 \o rest
<1>8. log_line(level) = s6
  BY DEF log_line, Colored, target, shown, white, red, own, start, rest
<1>9. /\ s1 \in Seq(Letters) /\ Len(s1) = 11
      /\ \A i \in 1 .. 1 : s1[i] = <<"[">>[i]
      /\ \A i \in 1 .. 10 : s1[1 + i] = target[i]
  <2>1. /\ s1 \in Seq(Letters) /\ Len(s1) = Len(<<"[">>) + Len(target)
        /\ \A i \in 1 .. Len(<<"[">>) : s1[i] = <<"[">>[i]
        /\ \A i \in 1 .. Len(target) : s1[Len(<<"[">>) + i] = target[i]
    <3>1. <<"[">> \in Seq(Letters) /\ target \in Seq(Letters)  BY <1>4, <1>6
    <3>. QED  BY <3>1, Joined, Zenon
  <2>. HIDE DEF s1
  <2>. QED  BY <1>4, <1>6, <2>1
<1>. HIDE DEF s1
<1>10. /\ s2 \in Seq(Letters) /\ Len(s2) = 14
       /\ \A i \in 1 .. 11 : s2[i] = s1[i]
       /\ \A i \in 1 .. 3 : s2[11 + i] = start[i]
  <2>1. /\ s2 \in Seq(Letters) /\ Len(s2) = Len(s1) + Len(start)
        /\ \A i \in 1 .. Len(s1) : s2[i] = s1[i]
        /\ \A i \in 1 .. Len(start) : s2[Len(s1) + i] = start[i]
    <3>1. s1 \in Seq(Letters) /\ start \in Seq(Letters)  BY <1>4, <1>9
    <3>. QED  BY <3>1, Joined, Zenon
  <2>. HIDE DEF s2
  <2>. QED  BY <1>4, <1>9, <2>1
<1>. HIDE DEF s2
<1>11. /\ s3 \in Seq(Letters) /\ Len(s3) = 19
       /\ \A i \in 1 .. 14 : s3[i] = s2[i]
       /\ \A i \in 1 .. 5 : s3[14 + i] = red[i]
  <2>1. /\ s3 \in Seq(Letters) /\ Len(s3) = Len(s2) + Len(red)
        /\ \A i \in 1 .. Len(s2) : s3[i] = s2[i]
        /\ \A i \in 1 .. Len(red) : s3[Len(s2) + i] = red[i]
    <3>1. s2 \in Seq(Letters) /\ red \in Seq(Letters)  BY <1>3, <1>10
    <3>. QED  BY <3>1, Joined, Zenon
  <2>. HIDE DEF s3
  <2>. QED  BY <1>3, <1>10, <2>1
<1>. HIDE DEF s3
<1>12. /\ s4 \in Seq(Letters) /\ Len(s4) = 29
       /\ \A i \in 1 .. 19 : s4[i] = s3[i]
       /\ \A i \in 1 .. 10 : s4[19 + i] = shown[i]
  <2>1. /\ s4 \in Seq(Letters) /\ Len(s4) = Len(s3) + Len(shown)
        /\ \A i \in 1 .. Len(s3) : s4[i] = s3[i]
        /\ \A i \in 1 .. Len(shown) : s4[Len(s3) + i] = shown[i]
    <3>1. s3 \in Seq(Letters) /\ shown \in Seq(Letters)  BY <1>7, <1>11
    <3>. QED  BY <3>1, Joined, Zenon
  <2>. HIDE DEF s4
  <2>. QED  BY <1>7, <1>11, <2>1
<1>. HIDE DEF s4
<1>13. /\ s5 \in Seq(Letters) /\ Len(s5) = 33
       /\ \A i \in 1 .. 29 : s5[i] = s4[i]
       /\ \A i \in 1 .. 4 : s5[29 + i] = Reset[i]
  <2>1. /\ s5 \in Seq(Letters) /\ Len(s5) = Len(s4) + Len(Reset)
        /\ \A i \in 1 .. Len(s4) : s5[i] = s4[i]
        /\ \A i \in 1 .. Len(Reset) : s5[Len(s4) + i] = Reset[i]
    <3>1. s4 \in Seq(Letters) /\ Reset \in Seq(Letters)  BY <1>4, <1>12
    <3>. QED  BY <3>1, Joined, Zenon
  <2>. HIDE DEF s5
  <2>. QED  BY <1>4, <1>12, <2>1
<1>. HIDE DEF s5
<1>14. /\ s6 \in Seq(Letters) /\ Len(s6) = 37
       /\ \A i \in 1 .. 33 : s6[i] = s5[i]
       /\ \A i \in 1 .. 4 : s6[33 + i] = rest[i]
  <2>1. /\ s6 \in Seq(Letters) /\ Len(s6) = Len(s5) + Len(rest)
        /\ \A i \in 1 .. Len(s5) : s6[i] = s5[i]
        /\ \A i \in 1 .. Len(rest) : s6[Len(s5) + i] = rest[i]
    <3>1. s5 \in Seq(Letters) /\ rest \in Seq(Letters)  BY <1>4, <1>13
    <3>. QED  BY <3>1, Joined, Zenon
  <2>. HIDE DEF s6
  <2>. QED  BY <1>4, <1>13, <2>1
<1>. HIDE DEF s6
<1>15. /\ s6[1] = "["
       /\ \A i \in 1 .. 5 : s6[1 + i] = white[i]
       /\ s6[7] = "t"
       /\ \A i \in 1 .. 4 : s6[7 + i] = Reset[i]
       /\ \A i \in 1 .. 3 : s6[11 + i] = start[i]
       /\ \A i \in 1 .. 5 : s6[14 + i] = red[i]
       /\ \A i \in 1 .. 5 : s6[19 + i] = own[i]
       /\ s6[25] = "l"
       /\ \A i \in 1 .. 4 : s6[25 + i] = Reset[i]
       /\ \A i \in 1 .. 4 : s6[29 + i] = Reset[i]
       /\ \A i \in 1 .. 4 : s6[33 + i] = rest[i]
  <2>1. ASSUME NEW i \in 1 .. 29 PROVE s6[i] = s4[i]
    <3>1. i \in 1 .. 33  OBVIOUS
    <3>2. s6[i] = s5[i]  BY <1>14, <3>1, Zenon
    <3>3. s5[i] = s4[i]  BY <1>13, Zenon
    <3>. QED  BY <3>2, <3>3
  <2>2. ASSUME NEW i \in 1 .. 19 PROVE s6[i] = s3[i]
    <3>1. i \in 1 .. 29  OBVIOUS
    <3>. QED  BY <1>12, <2>1, <3>1, Zenon
  <2>3. ASSUME NEW i \in 1 .. 14 PROVE s6[i] = s2[i]
    <3>1. i \in 1 .. 19  OBVIOUS
    <3>. QED  BY <1>11, <2>2, <3>1, Zenon
  <2>4. ASSUME NEW i \in 1 .. 11 PROVE s6[i] = s1[i]
    <3>1. i \in 1 .. 14  OBVIOUS
    <3>. QED  BY <1>10, <2>3, <3>1, Zenon
  <2>5. /\ s6[1] = "[" /\ \A i \in 1 .. 5 : s6[1 + i] = white[i]
        /\ s6[1 + 6] = "t" /\ \A i \in 1 .. 4 : s6[7 + i] = Reset[i]
    BY <1>6, <1>9, <2>4
  <2>6. \A i \in 1 .. 3 : s6[11 + i] = start[i]  BY <1>10, <2>3
  <2>7. \A i \in 1 .. 5 : s6[14 + i] = red[i]  BY <1>11, <2>2
  <2>8. ASSUME NEW i \in 1 .. 10 PROVE s6[19 + i] = shown[i]
    <3>1. 19 + i \in 1 .. 29  OBVIOUS
    <3>. QED  BY <1>12, <2>1, <3>1, Zenon
  <2>9. ASSUME NEW i \in 1 .. 4 PROVE s6[29 + i] = Reset[i]
    <3>1. 29 + i \in 1 .. 33  OBVIOUS
    <3>2. s6[29 + i] = s5[29 + i]  BY <1>14, <3>1, Zenon
    <3>3. s5[29 + i] = Reset[i]  BY <1>13, Zenon
    <3>. QED  BY <3>2, <3>3
  <2>10. /\ \A i \in 1 .. 5 : s6[19 + i] = own[i]
         /\ s6[19 + 6] = "l"
         /\ \A i \in 1 .. 4 : s6[19 + (6 + i)] = Reset[i]
    <3>1. ASSUME NEW i \in 1 .. 5 PROVE s6[19 + i] = own[i]
      <4>1. i \in 1 .. 10  OBVIOUS
      <4>. QED  BY <1>7, <2>8, <4>1, Zenon
    <3>2. 6 \in 1 .. 10  OBVIOUS
    <3>3. ASSUME NEW i \in 1 .. 4 PROVE s6[19 + (6 + i)] = Reset[i]
      <4>1. 6 + i \in 1 .. 10  OBVIOUS
      <4>. QED  BY <1>7, <2>8, <4>1, Zenon
    <3>. QED  BY <1>7, <2>8, <3>1, <3>2, <3>3, Zenon
  <2>. QED  BY <1>14, <2>5, <2>6, <2>7, <2>9, <2>10
<1>16. ASSUME NEW n \in 1 .. LineLength PROVE s6[n] = LetterAt(level, n)
  <2>1. CASE n \in {1, 7, 25}
    BY <1>15, <2>1 DEF LetterAt, ColorStarts, ResetStarts
  <2>2. CASE n \in 2 .. 6
    <3>1. n - 1 \in 1 .. 5 /\ 1 + (n - 1) = n  BY <2>2
    <3>2. s6[n] = white[n - 1]  BY <1>15, <3>1
    <3>. QED  BY <1>1, <2>2, <3>2 DEF LetterAt, ColorStarts, ResetStarts, DigitAt
  <2>3. CASE n \in 8 .. 11
    <3>1. n - 7 \in 1 .. 4 /\ 7 + (n - 7) = n  BY <2>3
    <3>2. s6[n] = Reset[n - 7]  BY <1>15, <3>1
    <3>. QED  BY <2>3, <3>2 DEF LetterAt, ColorStarts, ResetStarts, Reset
  <2>4. CASE n \in 12 .. 14
    <3>1. n - 11 \in 1 .. 3 /\ 11 + (n - 11) = n  BY <2>4
    <3>2. s6[n] = start[n - 11]  BY <1>15, <3>1
    <3>. QED  BY <2>4, <3>2 DEF LetterAt, ColorStarts, ResetStarts, start
  <2>5. CASE n \in 15 .. 19
    <3>1. n - 14 \in 1 .. 5 /\ 14 + (n - 14) = n  BY <2>5
    <3>2. s6[n] = red[n - 14]  BY <1>15, <3>1
    <3>. QED  BY <1>1, <2>5, <3>2 DEF LetterAt, ColorStarts, ResetStarts, DigitAt
  <2>6. CASE n \in 20 .. 24
    <3>1. n - 19 \in 1 .. 5 /\ 19 + (n - 19) = n  BY <2>6
    <3>2. s6[n] = own[n - 19]  BY <1>15, <3>1
    <3>. QED  BY <1>2, <2>6, <3>2 DEF LetterAt, ColorStarts, ResetStarts, DigitAt, digit
  <2>7. CASE n \in 26 .. 29
    <3>1. n - 25 \in 1 .. 4 /\ 25 + (n - 25) = n  BY <2>7
    <3>2. s6[n] = Reset[n - 25]  BY <1>15, <3>1
    <3>. QED  BY <2>7, <3>2 DEF LetterAt, ColorStarts, ResetStarts, Reset
  <2>8. CASE n \in 30 .. 33
    <3>1. n - 29 \in 1 .. 4 /\ 29 + (n - 29) = n  BY <2>8
    <3>2. s6[n] = Reset[n - 29]  BY <1>15, <3>1
    <3>. QED  BY <2>8, <3>2 DEF LetterAt, ColorStarts, ResetStarts, Reset
  <2>9. CASE n \in 34 .. 37
    <3>1. n - 33 \in 1 .. 4 /\ 33 + (n - 33) = n  BY <2>9
    <3>2. s6[n] = rest[n - 33]  BY <1>15, <3>1
    <3>. QED  BY <2>9, <3>2 DEF LetterAt, ColorStarts, ResetStarts, rest
  <2>. QED  BY <2>1, <2>2, <2>3, <2>4, <2>5, <2>6, <2>7, <2>8, <2>9 DEF LineLength
<1>. QED  BY <1>8, <1>14, <1>16 DEF LineLength

-----------------------------------------------------------------------------

(* Drawing over or starting a call keeps a display sound. *)
LEMMA CursorFacts ==
    ASSUME NEW d, Sound(d)
    PROVE  /\ Sound([d EXCEPT !.drawn = <<>>])
           /\ d.w.x_pos >= d.w.last_width =>
                LET back == [d EXCEPT !.w.x_pos = @ - d.w.last_width] IN
                /\ Sound(back) /\ back.w.state = d.w.state
<1>. USE WriterAssumption DEF WriterAssumption
<1>1. d \in [w : Writers, drawn : Seq(Marks)] /\ d.w \in Writers  BY DEF Sound
<1>2. Sound([d EXCEPT !.drawn = <<>>])
  <2>. DEFINE e == [d EXCEPT !.drawn = <<>>]
  <2>1. <<>> \in Seq(Marks) /\ 1 .. Len(<<>>) = {}  OBVIOUS
  <2>2. e.w = d.w /\ e.drawn = <<>> /\ e \in [w : Writers, drawn : Seq(Marks)]  BY Zenon, <1>1, <2>1
  <2>. HIDE DEF e
  <2>3. Sound(e)  BY <2>1, <2>2 DEF Sound
  <2>. QED  BY <2>3 DEF e
<1>3. ASSUME d.w.x_pos >= d.w.last_width, NEW back,
             back = [d EXCEPT !.w.x_pos = @ - d.w.last_width]
      PROVE  Sound(back) /\ back.w.state = d.w.state
  <2>1. d.w.x_pos \in Nat /\ d.w.last_width \in {0, GlyphWidth}  BY <1>1 DEF Writers
  <2>2. d.w.x_pos - d.w.last_width \in Nat  BY <1>3, <2>1
  <2>3. back.w = [d.w EXCEPT !.x_pos = @ - d.w.last_width] /\ back.drawn = d.drawn
    BY <1>1, <1>3
  <2>4. [d.w EXCEPT !.x_pos = @ - d.w.last_width] \in Writers  BY Zenon, <1>1, <2>2 DEF Writers
  <2>5. /\ back.w.x_pos = d.w.x_pos - d.w.last_width /\ back.w.y_pos = d.w.y_pos
        /\ back.w.last_width = d.w.last_width /\ back.w.state = d.w.state
    BY <1>1, <2>3 DEF Writers
  <2>6. back \in [w : Writers, drawn : Seq(Marks)]  BY <1>1, <1>3, <2>3, <2>4
  <2>7. OnGrid(d.w.x_pos, GlyphWidth) /\ OnGrid(d.w.y_pos, GlyphHeight + LineSpacing)
    BY DEF Sound, AtCell
  <2>8. OnGrid(d.w.x_pos - d.w.last_width, GlyphWidth)
    <3>1. CASE d.w.last_width = 0
      <4>1. d.w.x_pos - d.w.last_width = d.w.x_pos  BY <2>1, <3>1
      <4>. QED  BY <2>7, <4>1
    <3>2. CASE d.w.last_width = GlyphWidth
      <4>1. d.w.x_pos \in Int /\ GlyphWidth \in Nat /\ GlyphWidth > 0  BY <2>1
      <4>2. OnGrid(d.w.x_pos - GlyphWidth, GlyphWidth)  BY <2>7, <4>1, GridFacts
      <4>. QED  BY <3>2, <4>2
    <3>. QED  BY <2>1, <3>1, <3>2
  <2>. QED  BY <2>3, <2>5, <2>6, <2>7, <2>8 DEF Sound, AtCell
<1>. QED  BY Zenon, <1>2, <1>3

(* Every call keeps the invariant, one character after the other. *)
LEMMA TextInductive ==
    ASSUME TInv, [TextNext]_text_vars
    PROVE  TInv'
<1>. DEFINE d == [w |-> writer, drawn |-> drawn]
            e == [w |-> writer', drawn |-> drawn']
<1>1. Sound(d) /\ d.w = writer /\ d.drawn = drawn /\ RestingState(writer.state)
  BY DEF TInv
<1>2. e.w = writer' /\ e.drawn = drawn'  OBVIOUS
<1>3. ASSUME NEW f, Show(f), Sound(f)
      PROVE  Sound(e)
  <2>1. f = [w |-> f.w, drawn |-> f.drawn]  BY <1>3 DEF Sound
  <2>2. writer' = f.w /\ drawn' = f.drawn  BY <1>3 DEF Show
  <2>. HIDE DEF Sound
  <2>. QED  BY <1>3, <2>1, <2>2
<1>4. ASSUME NEW op \in Levels \cup {"print"}, NEW s \in Seq(Letters), Begin(op, s)
      PROVE  TInv'
  <2>1. e = [d EXCEPT !.drawn = <<>>]  BY <1>4 DEF Begin
  <2>2. Sound(e)  BY Zenon, <1>1, <2>1, CursorFacts
  <2>3. /\ todo' = s /\ writer' = writer /\ panicked' = panicked
        /\ call' = [op |-> op, state |-> writer.state, color |-> writer.color]
    BY <1>4 DEF Begin
  <2>4. call'.op = op  BY <2>3
  <2>. HIDE DEF e
  <2>. QED  BY <1>1, <2>2, <2>3, <2>4 DEF TInv, e
<1>5. ASSUME NEW ch \in Chars, PrintChar(ch)
      PROVE  TInv'
  <2>1. Begin("print", <<ch>>)  BY <1>5 DEF PrintChar
  <2>2. <<ch>> \in Seq(Letters)  BY DEF Letters
  <2>. QED  BY Zenon, <1>4, <2>1, <2>2
<1>6. ASSUME NEW level \in Levels, Log(level)
      PROVE  TInv'
  BY <1>4, <1>6, LogLine DEF Log
<1>7. CASE WriteNext
  <2>1. Show(write_char(d, Head(todo)))  BY <1>7 DEF WriteNext
  <2>2. /\ todo \in Seq(Letters) /\ todo # <<>> /\ todo' = Tail(todo)
        /\ call' = call /\ panicked' = panicked
    BY <1>7 DEF WriteNext, TInv
  <2>3. Head(todo) \in Letters /\ todo' \in Seq(Letters)  BY <2>2
  <2>. HIDE DEF d
  <2>4. Sound(write_char(d, Head(todo))) /\ RestingState(write_char(d, Head(todo)).w.state)
    BY <1>1, <2>3, WriteCharFacts
  <2>5. Sound(e)  BY <1>3, <2>1, <2>4
  <2>6. RestingState(writer'.state)  BY <2>1, <2>4 DEF Show
  <2>. HIDE DEF e
  <2>. QED  BY <2>2, <2>3, <2>5, <2>6 DEF TInv, e
<1>8. CASE Backspace
  <2>. DEFINE back == [w |-> [writer EXCEPT !.x_pos = @ - writer.last_width], drawn |-> <<>>]
              over == write_char(back, "sp")
  <2>1. /\ todo' = todo /\ panicked' \in {panicked, "yes"} /\ call'.op = "backspace"
        /\ \/ UNCHANGED <<writer, drawn>>
           \/ /\ writer.x_pos >= writer.last_width
              /\ Show(over)
           \/ /\ writer.x_pos >= writer.last_width
              /\ over.w.x_pos >= over.w.last_width
              /\ Show([over EXCEPT !.w.x_pos = @ - over.w.last_width])
    BY <1>8 DEF Backspace
  <2>2. todo \in Seq(Letters) /\ panicked \in {"yes", "no"}  BY DEF TInv
  <2>3. ASSUME writer.x_pos >= writer.last_width
        PROVE  Sound(back) /\ back.w.state = writer.state
    <3>. DEFINE blank == [d EXCEPT !.drawn = <<>>]
    <3>1. Sound(blank)  BY Zenon, <1>1, CursorFacts
    <3>2. blank.w = writer /\ blank = [w |-> writer, drawn |-> <<>>]  OBVIOUS
    <3>. HIDE DEF blank
    <3>3. back = [blank EXCEPT !.w.x_pos = @ - blank.w.last_width]  BY <3>2
    <3>. HIDE DEF back
    <3>. QED  BY <2>3, <3>1, <3>2, <3>3, CursorFacts
  <2>. HIDE DEF back
  <2>4. ASSUME writer.x_pos >= writer.last_width
        PROVE  Sound(over) /\ RestingState(over.w.state)
    <3>1. "sp" \in Letters  BY DEF Letters
    <3>. QED  BY <1>1, <2>3, <2>4, <3>1, WriteCharFacts
  <2>. HIDE DEF over
  <2>5. Sound(e) /\ RestingState(writer'.state)
    <3>1. CASE UNCHANGED <<writer, drawn>>  BY <1>1, <3>1
    <3>2. CASE writer.x_pos >= writer.last_width /\ Show(over)
      BY <1>3, <2>4, <3>2 DEF Show
    <3>3. CASE /\ writer.x_pos >= writer.last_width
               /\ over.w.x_pos >= over.w.last_width
               /\ Show([over EXCEPT !.w.x_pos = @ - over.w.last_width])
      <4>. DEFINE left == [over EXCEPT !.w.x_pos = @ - over.w.last_width]
      <4>1. Sound(over) /\ RestingState(over.w.state)  BY <2>4, <3>3
      <4>2. Sound(left) /\ left.w.state = over.w.state  BY Zenon, <3>3, <4>1, CursorFacts
      <4>3. Show(left)  BY <3>3
      <4>. HIDE DEF left
      <4>. QED  BY <1>3, <4>1, <4>2, <4>3 DEF Show
    <3>. QED  BY <2>1, <3>1, <3>2, <3>3
  <2>. HIDE DEF e
  <2>. QED  BY <2>1, <2>2, <2>5 DEF TInv, e
<1>9. CASE Stopped \/ UNCHANGED text_vars
  BY <1>9 DEF Stopped, text_vars, TInv
<1>. QED  BY <1>5, <1>6, <1>7, <1>8, <1>9 DEF TextNext

(* Writer starts at the top left corner, with nothing drawn. *)
LEMMA TextInitInv == TextInit => TInv
<1>. SUFFICES ASSUME TextInit PROVE TInv  OBVIOUS
<1>. USE WriterAssumption DEF WriterAssumption
<1>. DEFINE d == [w |-> writer, drawn |-> drawn]
<1>1. Normal \in Seq(Words) /\ RestingState(Normal)  BY DEF Normal, Words, RestingState
<1>2. "White" \in Colors  BY DEF Colors, code_color
<1>3. writer \in Writers  BY <1>1, <1>2 DEF TextInit, Writers
<1>4. writer.x_pos = BorderPadding /\ writer.y_pos = BorderPadding /\ writer.state = Normal
  BY DEF TextInit
<1>5. AtCell(writer)
  <2>1. GlyphHeight + LineSpacing \in Nat /\ GlyphHeight + LineSpacing > 0  OBVIOUS
  <2>2. OnGrid(BorderPadding, GlyphHeight + LineSpacing)  BY <2>1, GridFacts
  <2>. QED  BY <1>4, <2>2, GridFacts DEF AtCell
<1>6. <<>> \in Seq(Marks) /\ 1 .. Len(<<>>) = {} /\ <<>> \in Seq(Letters)  OBVIOUS
<1>7. d.w = writer /\ d.drawn = <<>> /\ d \in [w : Writers, drawn : Seq(Marks)]
  BY <1>3, <1>6 DEF TextInit
<1>. HIDE DEF d
<1>8. Sound(d)  BY <1>5, <1>6, <1>7 DEF Sound
<1>9. todo = <<>> /\ call.op = "print" /\ panicked = "no"  BY DEF TextInit
<1>. QED  BY <1>1, <1>4, <1>6, <1>8, <1>9 DEF TInv, d

(* Every glyph the writer draws is in the frame and on the grid. *)
THEOREM GlyphsStayInFrame == TextSpec => []GlyphsInFrame
<1>1. ASSUME TInv PROVE GlyphsInFrame
  <2>. USE WriterAssumption DEF WriterAssumption
  <2>. DEFINE d == [w |-> writer, drawn |-> drawn]
  <2>1. Sound(d) /\ d.w = writer /\ d.drawn = drawn  BY <1>1 DEF TInv
  <2>. HIDE DEF d
  <2>2. writer \in Writers /\ drawn \in Seq(Marks)  BY <2>1 DEF Sound
  <2>3. DOMAIN drawn = 1 .. Len(drawn)  BY <2>2
  <2>4. ASSUME NEW k \in DOMAIN drawn
        PROVE  drawn[k] \in Marks /\ Fits(drawn[k])
    BY <2>1, <2>2, <2>3 DEF Sound
  <2>5. TextTypeOK
    <3>1. \A k \in DOMAIN drawn : drawn[k].kind \in {"glyph", "clear"}  BY <2>4 DEF Marks
    <3>. QED  BY <1>1, <2>2, <3>1 DEF TextTypeOK, TInv, Writers
  <2>6. ASSUME NEW k \in DOMAIN drawn, drawn[k].kind = "glyph"
        PROVE  /\ drawn[k].x + GlyphWidth <= Width
               /\ drawn[k].y + GlyphHeight <= Height
               /\ (drawn[k].x - BorderPadding) % GlyphWidth = 0
               /\ (drawn[k].y - BorderPadding) % (GlyphHeight + LineSpacing) = 0
    <3>. DEFINE x == drawn[k].x
                y == drawn[k].y
    <3>1. x \in Nat /\ y \in Nat  BY <2>4, <2>6 DEF Marks
    <3>2. /\ x + GlyphWidth < Width /\ y + GlyphHeight + BorderPadding < Height
          /\ OnGrid(x, GlyphWidth) /\ OnGrid(y, GlyphHeight + LineSpacing)
      BY <2>4, <2>6 DEF Fits
    <3>. HIDE DEF x, y
    <3>3. x + GlyphWidth <= Width /\ y + GlyphHeight <= Height  BY <3>1, <3>2
    <3>4. GlyphHeight + LineSpacing \in Nat /\ GlyphHeight + LineSpacing > 0
          /\ x \in Int /\ y \in Int
      BY <3>1
    <3>5. (x - BorderPadding) % GlyphWidth = 0  BY <3>2, <3>4, GridFacts
    <3>6. (y - BorderPadding) % (GlyphHeight + LineSpacing) = 0  BY <3>2, <3>4, GridFacts
    <3>. QED  BY <3>3, <3>5, <3>6 DEF x, y
  <2>. QED  BY <2>5, <2>6 DEF GlyphsInFrame
<1>. QED  BY <1>1, TextInitInv, TextInductive, PTL DEF TextSpec

(* A backspace covers the glyph before the cursor, and only it. *)
THEOREM BackspaceErasesOne == TextSpec => BackspaceErases
<1>1. ASSUME TInv, NEW k \in DOMAIN drawn, Backspace, JustDrawn(drawn[k]),
             writer.state = Normal
      PROVE  /\ drawn' = <<[drawn[k] EXCEPT !.ch = "sp", !.color = writer.color]>>
             /\ writer' = [writer EXCEPT !.x_pos = drawn[k].x]
             /\ panicked' = "no"
  <2>. USE WriterAssumption DEF WriterAssumption
  <2>. DEFINE d == [w |-> writer, drawn |-> drawn]
              g == drawn[k]
              back == [w |-> [writer EXCEPT !.x_pos = @ - writer.last_width], drawn |-> <<>>]
              over == write_char(back, "sp")
              blank == [kind |-> "glyph", ch |-> "sp", color |-> writer.color,
                        x |-> g.x, y |-> g.y]
  <2>1. Sound(d) /\ d.w = writer /\ d.drawn = drawn  BY <1>1 DEF TInv
  <2>2. writer \in Writers /\ drawn \in Seq(Marks)
    <3>. HIDE DEF d
    <3>. QED  BY <2>1 DEF Sound
  <2>3. k \in 1 .. Len(drawn) /\ g \in Marks /\ g.kind = "glyph" /\ Fits(g)
        /\ writer.last_width = GlyphWidth
    <3>1. k \in 1 .. Len(drawn)  BY <1>1, <2>2
    <3>2. g.kind = "glyph"  BY <1>1 DEF JustDrawn
    <3>. HIDE DEF d
    <3>. QED  BY <2>1, <2>2, <3>1, <3>2 DEF Sound
  <2>4. /\ g \in [kind : {"glyph"}, ch : Letters, color : Colors, x : Nat, y : Nat]
        /\ g.x \in Nat /\ g.y \in Nat
    BY <2>3 DEF Marks
  <2>5. writer.x_pos = g.x + GlyphWidth /\ writer.y_pos = g.y  BY <1>1 DEF JustDrawn
  <2>6. g.x + GlyphWidth < Width /\ g.y + GlyphHeight + BorderPadding < Height
    BY <2>3 DEF Fits
  <2>. HIDE DEF g, d
  <2>7. [g EXCEPT !.ch = "sp", !.color = writer.color] = blank
    <3>. DEFINE e == [g EXCEPT !.ch = "sp", !.color = writer.color]
    <3>1. "sp" \in Letters /\ writer.color \in Colors  BY <2>2 DEF Letters, Writers
    <3>2. e \in [kind : {"glyph"}, ch : Letters, color : Colors, x : Nat, y : Nat]
      BY Zenon, <2>4, <3>1
    <3>3. e.ch = "sp" /\ e.color = writer.color /\ e.x = g.x /\ e.y = g.y  BY <2>4
    <3>. HIDE DEF e
    <3>4. e = [kind |-> e.kind, ch |-> e.ch, color |-> e.color, x |-> e.x, y |-> e.y]
          /\ e.kind = "glyph"
      BY <3>2
    <3>5. e = blank  BY <3>3, <3>4
    <3>. QED  BY <3>5 DEF e
  <2>8. writer.x_pos - writer.last_width = g.x  BY <2>3, <2>4, <2>5
  <2>9. back.w = [writer EXCEPT !.x_pos = g.x] /\ back.drawn = <<>>  BY <2>8
  <2>10. /\ back.w.x_pos = g.x /\ back.w.y_pos = g.y /\ back.w.state = Normal
         /\ back.w.last_width = GlyphWidth /\ back.w.color = writer.color
    BY Zenon, <1>1, <2>2, <2>3, <2>5, <2>9 DEF Writers
  <2>11. over = write_rendered_char(back, "sp")
    <3>1. feed(Normal, "sp") = Shown(Normal)  BY DEF feed, Normal
    <3>2. [back EXCEPT !.w.state = Normal] = back
      <4>1. [writer EXCEPT !.x_pos = g.x] \in Writers  BY Zenon, <2>2, <2>4 DEF Writers
      <4>2. <<>> \in Seq(Marks)  OBVIOUS
      <4>3. back \in [w : Writers, drawn : Seq(Marks)]  BY <2>9, <4>1, <4>2
      <4>. HIDE DEF back
      <4>. QED  BY <2>10, <4>3 DEF Writers
    <3>. HIDE DEF back
    <3>3. ~past_right_edge(back) /\ ~past_bottom(back)
      BY <2>4, <2>6, <2>10 DEF past_right_edge, past_bottom
    <3>4. write_glyph(back, "sp") = write_rendered_char(back, "sp")  BY <3>3 DEF write_glyph
    <3>. QED  BY <2>10, <3>1, <3>2, <3>4 DEF write_char, Shown
  <2>12. over.drawn = <<blank>>
    <3>1. back = [w |-> back.w, drawn |-> <<>>]  OBVIOUS
    <3>. HIDE DEF back
    <3>2. over.drawn = Append(back.drawn, [kind |-> "glyph", ch |-> "sp", color |-> back.w.color,
                                           x |-> back.w.x_pos, y |-> back.w.y_pos])
      BY Zenon, <2>11, <3>1 DEF write_rendered_char
    <3>. HIDE DEF over
    <3>3. over.drawn = Append(<<>>, blank)  BY <2>9, <2>10, <3>2
    <3>. HIDE DEF blank
    <3>. QED  BY <3>3
  <2>13. over.w = [writer EXCEPT !.x_pos = g.x + GlyphWidth]
    <3>1. back = [w |-> back.w, drawn |-> <<>>]  OBVIOUS
    <3>. HIDE DEF back
    <3>2. over.w = [back.w EXCEPT !.last_width = GlyphWidth, !.x_pos = @ + GlyphWidth]
      BY Zenon, <2>11, <3>1 DEF write_rendered_char
    <3>. HIDE DEF over
    <3>. QED  BY Zenon, <2>2, <2>3, <2>9, <3>2 DEF Writers
  <2>14. over.w.x_pos = g.x + GlyphWidth /\ over.w.last_width = GlyphWidth
    <3>. HIDE DEF over
    <3>. QED  BY <2>2, <2>3, <2>13 DEF Writers
  <2>15. panicked' = panicked /\ Show([over EXCEPT !.w.x_pos = @ - over.w.last_width])
    <3>1. ~(writer.x_pos < writer.last_width)  BY <2>3, <2>4, <2>5
    <3>2. ~(over.w.x_pos < over.w.last_width)
      <4>. HIDE DEF over
      <4>. QED  BY <2>4, <2>14
    <3>. QED  BY <1>1, <3>1, <3>2 DEF Backspace
  <2>16. over = [w |-> over.w, drawn |-> over.drawn]
    <3>1. back = [w |-> back.w, drawn |-> <<>>]  OBVIOUS
    <3>. HIDE DEF back
    <3>. QED  BY Zenon, <2>11, <3>1 DEF write_rendered_char
  <2>. HIDE DEF over, back, blank
  <2>17. writer' = [over.w EXCEPT !.x_pos = @ - over.w.last_width] /\ drawn' = over.drawn
    BY <2>15, <2>16 DEF Show
  <2>18. writer' = [writer EXCEPT !.x_pos = g.x]
    <3>1. writer' = [over.w EXCEPT !.x_pos = g.x]
      <4>1. over.w.x_pos - over.w.last_width = g.x  BY <2>4, <2>14
      <4>. QED  BY <2>17, <4>1
    <3>2. [[writer EXCEPT !.x_pos = g.x + GlyphWidth] EXCEPT !.x_pos = g.x]
              = [writer EXCEPT !.x_pos = g.x]
      BY Zenon, <2>2 DEF Writers
    <3>. QED  BY <2>13, <3>1, <3>2
  <2>19. panicked = "no"  BY <1>1 DEF Backspace
  <2>. QED  BY <2>7, <2>12, <2>15, <2>17, <2>18, <2>19 DEF g
<1>2. ASSUME TInv, [TextNext]_text_vars
      PROVE  [\A k \in DOMAIN drawn :
                (Backspace /\ JustDrawn(drawn[k]) /\ writer.state = Normal) =>
                    /\ drawn' = <<[drawn[k] EXCEPT !.ch = "sp", !.color = writer.color]>>
                    /\ writer' = [writer EXCEPT !.x_pos = drawn[k].x]
                    /\ panicked' = "no"]_text_vars
  BY Zenon, <1>1, <1>2
<1>. QED  BY <1>2, TextInitInv, TextInductive, PTL DEF TextSpec, BackspaceErases
-----------------------------------------------------------------------------

(* The writer's state, its colour and the glyphs drawn, after n characters. *)
StateAt(level, n) ==
    CASE n \in ColorStarts \cup ResetStarts -> <<"Escape">>
      [] n - 1 \in ColorStarts \cup ResetStarts -> <<"FirstCode">>
      [] n - 2 \in ColorStarts -> <<"SecondCode", "3">>
      [] n - 3 \in ColorStarts -> <<"Finishing", "3", DigitAt(level, n - 3)>>
      [] n - 2 \in ResetStarts -> <<"Finishing", "0", "0">>
      [] OTHER -> Normal

ColorAt(level, before, n) ==
    CASE n < 6 -> before
      [] n \in 6 .. 18 \cup 29 .. 37 -> "White"
      [] n \in 19 .. 23 -> "Red"
      [] n \in 24 .. 28 -> stylized(level)

GlyphsAt(n) ==
    CASE n = 0 -> 0 [] n \in 1 .. 6 -> 1 [] n \in 7 .. 11 -> 2 [] n = 12 -> 3
      [] n = 13 -> 4 [] n \in 14 .. 24 -> 5 [] n \in 25 .. 33 -> 6 [] n = 34 -> 7
      [] n = 35 -> 8 [] n \in {36, 37} -> 9

(* A log line that began outside an escape code is where it should be. *)
LogInv ==
    (call.op \in Levels /\ call.state = Normal) =>
        LET level == call.op
            n == LineLength - Len(todo)
        IN  /\ Len(todo) <= LineLength
            /\ \A i \in 1 .. Len(todo) : todo[i] = LetterAt(level, n + i)
            /\ writer.state = StateAt(level, n)
            /\ writer.color = ColorAt(level, call.color, n)
            /\ InOrder(drawn, LogText(level))
            /\ GlyphsUpTo(drawn, Len(drawn)) = GlyphsAt(n)
            /\ todo = <<>> => writer.x_pos = BorderPadding


(* Each mark drawn adds to the count if it is a glyph, and leaves the      *)
(* places of the glyphs before it.                                         *)
LEMMA CountFacts ==
    ASSUME NEW s \in Seq(Marks), NEW m \in Marks
    PROVE  /\ GlyphsUpTo(s, Len(s)) \in Nat
           /\ \A k \in 1 .. Len(s) : GlyphsUpTo(Append(s, m), k) = GlyphsUpTo(s, k)
           /\ GlyphsUpTo(Append(s, m), Len(s) + 1)
                  = GlyphsUpTo(s, Len(s)) + (IF IsGlyph(m) THEN 1 ELSE 0)
<1>. DEFINE t == Append(s, m)
            before == {j \in 1 .. Len(s) : IsGlyph(s[j])}
<1>1. Len(s) \in Nat /\ t[Len(s) + 1] = m /\ \A j \in 1 .. Len(s) : t[j] = s[j]
  OBVIOUS
<1>. HIDE DEF t
<1>2. IsFiniteSet(before)
  <2>1. IsFiniteSet(1 .. Len(s))  BY <1>1, FS_Interval
  <2>. QED  BY <2>1, FS_Subset
<1>3. Cardinality(before) \in Nat  BY <1>2, FS_CardinalityType
<1>4. ASSUME NEW k \in 1 .. Len(s) PROVE GlyphsUpTo(t, k) = GlyphsUpTo(s, k)
  <2>1. {j \in 1 .. k : IsGlyph(t[j])} = {j \in 1 .. k : IsGlyph(s[j])}  BY <1>1
  <2>. QED  BY Zenon, <2>1 DEF GlyphsUpTo
<1>. DEFINE after == {j \in 1 .. Len(s) + 1 : IsGlyph(t[j])}
<1>5. CASE IsGlyph(m)
  <2>1. after = before \cup {Len(s) + 1}  BY <1>1, <1>5
  <2>2. Len(s) + 1 \notin before  BY <1>1
  <2>. HIDE DEF after, before
  <2>3. Cardinality(after) = Cardinality(before) + 1  BY Zenon, <1>2, <2>1, <2>2, FS_AddElement
  <2>. QED  BY Zenon, <1>3, <1>4, <1>5, <2>3 DEF GlyphsUpTo, after, before, t
<1>6. CASE ~IsGlyph(m)
  <2>1. after = before  BY <1>1, <1>6
  <2>2. GlyphsUpTo(t, Len(s) + 1) = GlyphsUpTo(s, Len(s))  BY Zenon, <2>1 DEF GlyphsUpTo
  <2>3. GlyphsUpTo(s, Len(s)) \in Nat  BY <1>3 DEF GlyphsUpTo
  <2>. QED  BY <1>4, <1>6, <2>2, <2>3 DEF t
<1>. QED  BY <1>5, <1>6

(* How the writer takes the n-th character of a log line: as a part of an  *)
(* escape code, as the end of one, as a glyph of the text or as the end of *)
(* the line.                                                               *)
TakesPart(level, before, n) ==
    /\ feed(StateAt(level, n - 1), LetterAt(level, n)) = Taken(StateAt(level, n))
    /\ StateAt(level, n)[1] # "Color"
    /\ ColorAt(level, before, n) = ColorAt(level, before, n - 1)
    /\ GlyphsAt(n) = GlyphsAt(n - 1) /\ n < LineLength

TakesColor(level, before, n) ==
    /\ feed(StateAt(level, n - 1), LetterAt(level, n))
           = Taken(<<"Color", ColorAt(level, before, n)>>)
    /\ StateAt(level, n) = Normal
    /\ GlyphsAt(n) = GlyphsAt(n - 1) /\ n < LineLength

TakesGlyph(level, before, n, text) ==
    /\ feed(StateAt(level, n - 1), LetterAt(level, n)) = Shown(Normal)
    /\ LetterAt(level, n) \notin {"nl", "cr"}
    /\ StateAt(level, n) = Normal
    /\ ColorAt(level, before, n) = ColorAt(level, before, n - 1)
    /\ GlyphsAt(n) = GlyphsAt(n - 1) + 1 /\ n < LineLength
    /\ text[GlyphsAt(n)] = Glyph(LetterAt(level, n), ColorAt(level, before, n - 1))

TakesNewline(level, before, n) ==
    /\ feed(StateAt(level, n - 1), LetterAt(level, n)) = Shown(Normal)
    /\ LetterAt(level, n) = "nl"
    /\ StateAt(level, n) = Normal
    /\ ColorAt(level, before, n) = ColorAt(level, before, n - 1)
    /\ GlyphsAt(n) = GlyphsAt(n - 1)

(* The writer's parser and the logger's codes agree on every character. *)
LEMMA LineStep ==
    ASSUME NEW level \in Levels, NEW n \in 1 .. LineLength
    PROVE  LET before == call.color
           IN  \/ TakesPart(level, before, n)
               \/ TakesColor(level, before, n)
               \/ TakesGlyph(level, before, n, LogText(level))
               \/ TakesNewline(level, before, n)
<1>. DEFINE before == call.color
<1>. USE DEF LineLength, ColorStarts, ResetStarts
<1>1. CASE n \in ColorStarts \cup ResetStarts
  <2>1. StateAt(level, n - 1) = Normal /\ LetterAt(level, n) = "esc"
        /\ StateAt(level, n) = <<"Escape">>
    BY <1>1 DEF StateAt, LetterAt
  <2>2. ColorAt(level, before, n) = ColorAt(level, before, n - 1) /\ GlyphsAt(n) = GlyphsAt(n - 1)
    BY <1>1 DEF ColorAt, GlyphsAt
  <2>3. feed(Normal, "esc") = Taken(<<"Escape">>)  BY DEF feed, Normal
  <2>. QED  BY <1>1, <2>1, <2>2, <2>3 DEF TakesPart
<1>2. CASE n - 1 \in ColorStarts \cup ResetStarts
  <2>1. StateAt(level, n - 1) = <<"Escape">> /\ LetterAt(level, n) = "["
        /\ StateAt(level, n) = <<"FirstCode">>
    BY <1>2 DEF StateAt, LetterAt
  <2>2. ColorAt(level, before, n) = ColorAt(level, before, n - 1) /\ GlyphsAt(n) = GlyphsAt(n - 1)
    BY <1>2 DEF ColorAt, GlyphsAt
  <2>3. feed(<<"Escape">>, "[") = Taken(<<"FirstCode">>)  BY DEF feed
  <2>. QED  BY <1>2, <2>1, <2>2, <2>3 DEF TakesPart
<1>3. CASE n - 2 \in ColorStarts
  <2>1. StateAt(level, n - 1) = <<"FirstCode">> /\ LetterAt(level, n) = "3"
        /\ StateAt(level, n) = <<"SecondCode", "3">>
    BY <1>3 DEF StateAt, LetterAt
  <2>2. ColorAt(level, before, n) = ColorAt(level, before, n - 1) /\ GlyphsAt(n) = GlyphsAt(n - 1)
    BY <1>3 DEF ColorAt, GlyphsAt
  <2>3. feed(<<"FirstCode">>, "3") = Taken(<<"SecondCode", "3">>)  BY DEF feed, feed_first
  <2>. QED  BY <1>3, <2>1, <2>2, <2>3 DEF TakesPart
<1>4. CASE n - 2 \in ResetStarts
  <2>1. StateAt(level, n - 1) = <<"FirstCode">> /\ LetterAt(level, n) = "0"
        /\ StateAt(level, n) = <<"Finishing", "0", "0">>
    BY <1>4 DEF StateAt, LetterAt
  <2>2. ColorAt(level, before, n) = ColorAt(level, before, n - 1) /\ GlyphsAt(n) = GlyphsAt(n - 1)
    BY <1>4 DEF ColorAt, GlyphsAt
  <2>3. feed(<<"FirstCode">>, "0") = Taken(<<"Finishing", "0", "0">>)  BY DEF feed, feed_first
  <2>. QED  BY <1>4, <2>1, <2>2, <2>3 DEF TakesPart
<1>5. CASE n - 3 \in ColorStarts
  <2>. DEFINE d == DigitAt(level, n - 3)
  <2>1. StateAt(level, n - 1) = <<"SecondCode", "3">> /\ LetterAt(level, n) = d
        /\ StateAt(level, n) = <<"Finishing", "3", d>>
    BY <1>5 DEF StateAt, LetterAt
  <2>2. ColorAt(level, before, n) = ColorAt(level, before, n - 1) /\ GlyphsAt(n) = GlyphsAt(n - 1)
    BY <1>5 DEF ColorAt, GlyphsAt
  <2>. HIDE DEF d
  <2>3. feed(<<"SecondCode", "3">>, d) = Taken(<<"Finishing", "3", d>>)  BY DEF feed
  <2>. QED  BY <1>5, <2>1, <2>2, <2>3 DEF TakesPart
<1>6. CASE n - 4 \in ColorStarts
  <2>. DEFINE d == DigitAt(level, n - 4)
  <2>1. StateAt(level, n - 1) = <<"Finishing", "3", d>> /\ LetterAt(level, n) = "m"
        /\ StateAt(level, n) = Normal
    BY <1>6 DEF StateAt, LetterAt
  <2>2. GlyphsAt(n) = GlyphsAt(n - 1)  BY <1>6 DEF GlyphsAt
  <2>3. d \in DOMAIN code_color /\ code_color[d] = ColorAt(level, before, n)
    BY <1>6 DEF DigitAt, LevelDigit, Levels, stylized, code_color, ColorAt
  <2>. HIDE DEF d
  <2>4. feed(<<"Finishing", "3", d>>, "m") = Taken(<<"Color", code_color[d]>>)
    BY <2>3 DEF feed, feed_finishing
  <2>. QED  BY <1>6, <2>1, <2>2, <2>3, <2>4 DEF TakesColor
<1>7. CASE n - 3 \in ResetStarts
  <2>1. StateAt(level, n - 1) = <<"Finishing", "0", "0">> /\ LetterAt(level, n) = "m"
        /\ StateAt(level, n) = Normal
    BY <1>7 DEF StateAt, LetterAt
  <2>2. ColorAt(level, before, n) = "White" /\ GlyphsAt(n) = GlyphsAt(n - 1)
    BY <1>7 DEF ColorAt, GlyphsAt
  <2>3. feed(<<"Finishing", "0", "0">>, "m") = Taken(<<"Color", "White">>)
    BY DEF feed, feed_finishing
  <2>. QED  BY <1>7, <2>1, <2>2, <2>3 DEF TakesColor
<1>8. CASE n \in {1, 7, 12, 13, 14, 25, 34, 35, 36}
  <2>1. StateAt(level, n - 1) = Normal /\ StateAt(level, n) = Normal
    BY <1>8 DEF StateAt
  <2>2. LetterAt(level, n) \in {"[", "t", "]", "sp", "l", "a"}
    BY <1>8 DEF LetterAt
  <2>3. ColorAt(level, before, n) = ColorAt(level, before, n - 1)
        /\ GlyphsAt(n) = GlyphsAt(n - 1) + 1
    BY <1>8 DEF ColorAt, GlyphsAt
  <2>4. LogText(level)[GlyphsAt(n)] = Glyph(LetterAt(level, n), ColorAt(level, before, n - 1))
    <3>1. CASE n = 1  BY <3>1 DEF LogText, GlyphsAt, LetterAt, ColorAt
    <3>2. CASE n = 7  BY <3>2 DEF LogText, GlyphsAt, LetterAt, ColorAt
    <3>3. CASE n = 12  BY <3>3 DEF LogText, GlyphsAt, LetterAt, ColorAt
    <3>4. CASE n = 13  BY <3>4 DEF LogText, GlyphsAt, LetterAt, ColorAt
    <3>5. CASE n = 14  BY <3>5 DEF LogText, GlyphsAt, LetterAt, ColorAt
    <3>6. CASE n = 25  BY <3>6 DEF LogText, GlyphsAt, LetterAt, ColorAt
    <3>7. CASE n = 34  BY <3>7 DEF LogText, GlyphsAt, LetterAt, ColorAt
    <3>8. CASE n = 35  BY <3>8 DEF LogText, GlyphsAt, LetterAt, ColorAt
    <3>9. CASE n = 36  BY <3>9 DEF LogText, GlyphsAt, LetterAt, ColorAt
    <3>. QED  BY <1>8, <3>1, <3>2, <3>3, <3>4, <3>5, <3>6, <3>7, <3>8, <3>9
  <2>5. feed(Normal, LetterAt(level, n)) = Shown(Normal)  BY <2>2 DEF feed, Normal
  <2>. QED  BY <1>8, <2>1, <2>2, <2>3, <2>4, <2>5 DEF TakesGlyph
<1>9. CASE n = 37
  <2>1. StateAt(level, n - 1) = Normal /\ StateAt(level, n) = Normal /\ LetterAt(level, n) = "nl"
    BY <1>9 DEF StateAt, LetterAt
  <2>2. ColorAt(level, before, n) = ColorAt(level, before, n - 1) /\ GlyphsAt(n) = GlyphsAt(n - 1)
    BY <1>9 DEF ColorAt, GlyphsAt
  <2>3. feed(Normal, "nl") = Shown(Normal)  BY DEF feed, Normal
  <2>. QED  BY <2>1, <2>2, <2>3 DEF TakesNewline
<1>. QED  BY <1>1, <1>2, <1>3, <1>4, <1>5, <1>6, <1>7, <1>8, <1>9
(* A mark drawn in its place keeps the text in order. *)
LEMMA InOrderFacts ==
    ASSUME NEW s \in Seq(Marks), NEW text, InOrder(s, text), NEW m \in Marks,
           IsGlyph(m) => Glyph(m.ch, m.color) = text[GlyphsUpTo(s, Len(s)) + 1]
    PROVE  /\ Append(s, m) \in Seq(Marks) /\ InOrder(Append(s, m), text)
           /\ GlyphsUpTo(Append(s, m), Len(Append(s, m)))
                  = GlyphsUpTo(s, Len(s)) + (IF IsGlyph(m) THEN 1 ELSE 0)
<1>. DEFINE t == Append(s, m)
<1>1. /\ t \in Seq(Marks) /\ Len(t) = Len(s) + 1 /\ Len(s) \in Nat
      /\ t[Len(s) + 1] = m /\ \A k \in 1 .. Len(s) : t[k] = s[k]
  OBVIOUS
<1>2. /\ \A k \in 1 .. Len(s) : GlyphsUpTo(t, k) = GlyphsUpTo(s, k)
      /\ GlyphsUpTo(t, Len(s) + 1) = GlyphsUpTo(s, Len(s)) + (IF IsGlyph(m) THEN 1 ELSE 0)
  BY CountFacts
<1>. HIDE DEF t
<1>3. ASSUME NEW k \in 1 .. Len(t), IsGlyph(t[k])
      PROVE  Glyph(t[k].ch, t[k].color) = text[GlyphsUpTo(t, k)]
  <2>1. CASE k \in 1 .. Len(s)
    <3>1. t[k] = s[k] /\ GlyphsUpTo(t, k) = GlyphsUpTo(s, k)  BY <1>1, <1>2, <2>1
    <3>. QED  BY <1>3, <2>1, <3>1 DEF InOrder
  <2>2. CASE k = Len(s) + 1
    <3>1. t[k] = m /\ IsGlyph(m)  BY <1>1, <1>3, <2>2
    <3>2. GlyphsUpTo(t, k) = GlyphsUpTo(s, Len(s)) + 1  BY <1>2, <2>2, <3>1
    <3>. QED  BY <3>1, <3>2
  <2>. QED  BY <1>1, <2>1, <2>2
<1>4. InOrder(t, text)  BY <1>3 DEF InOrder
<1>. QED  BY <1>1, <1>2, <1>4 DEF t

(* Every step keeps a log line where it should be: the logger starts it    *)
(* outside a code, and the writer takes its characters one by one.         *)
LEMMA LogInductive ==
    ASSUME TInv, LogInv, [TextNext]_text_vars
    PROVE  LogInv'
<1>. DEFINE d == [w |-> writer, drawn |-> drawn]
<1>1. Sound(d) /\ d.w = writer /\ d.drawn = drawn /\ RestingState(writer.state)
  BY DEF TInv
<1>2. todo \in Seq(Letters)  BY DEF TInv
<1>. HIDE DEF d
<1>3. drawn \in Seq(Marks)  BY <1>1 DEF Sound
<1>4. ASSUME NEW level \in Levels, Log(level)
      PROVE  LogInv'
  <2>1. /\ todo' = log_line(level) /\ drawn' = <<>> /\ writer' = writer
        /\ call' = [op |-> level, state |-> writer.state, color |-> writer.color]
    BY <1>4 DEF Log, Begin
  <2>2. call'.op = level /\ call'.state = writer.state /\ call'.color = writer.color  BY <2>1
  <2>3. /\ Len(todo') = 37 /\ 37 - Len(todo') = 0
        /\ \A i \in 1 .. 37 : todo'[i] = LetterAt(level, i)
    <3>1. /\ Len(log_line(level)) = LineLength
          /\ \A i \in 1 .. LineLength : log_line(level)[i] = LetterAt(level, i)
      BY LogLine
    <3>. QED  BY <2>1, <3>1 DEF LineLength
  <2>4. StateAt(level, 0) = Normal /\ GlyphsAt(0) = 0
        /\ ColorAt(level, writer.color, 0) = writer.color
    BY DEF StateAt, GlyphsAt, ColorAt, ColorStarts, ResetStarts
  <2>5. GlyphsUpTo(drawn', Len(drawn')) = 0
    <3>1. {j \in 1 .. Len(drawn') : IsGlyph(drawn'[j])} = {}  BY <2>1
    <3>. QED  BY Zenon, <3>1, FS_EmptySet DEF GlyphsUpTo
  <2>6. InOrder(drawn', LogText(level)')
    <3>. DEFINE text == LogText(level)'
    <3>. HIDE DEF text
    <3>1. 1 .. Len(drawn') = {}  BY <2>1
    <3>2. InOrder(drawn', text)  BY <3>1 DEF InOrder
    <3>. QED  BY <3>2 DEF text
  <2>7. todo' # <<>>
    <3>1. Len(<<>>) = 0 /\ 37 # 0  OBVIOUS
    <3>. QED  BY <2>3, <3>1, Zenon
  <2>. QED
    BY <2>1, <2>2, <2>3, <2>4, <2>5, <2>6, <2>7 DEF LogInv, LineLength
<1>5. ASSUME WriteNext, call.op \in Levels, call.state = Normal
      PROVE  LogInv'
  <2>. DEFINE level == call.op
              n == LineLength - Len(todo) + 1
              ch == Head(todo)
              fed == feed(writer.state, ch)
              e == write_char(d, ch)
              text == LogText(level)
  <2>1. /\ todo # <<>> /\ todo' = Tail(todo) /\ call' = call /\ Show(e)
    BY <1>5 DEF WriteNext, d
  <2>2. /\ Len(todo) \in 1 .. LineLength /\ n \in 1 .. LineLength
        /\ Len(todo') = Len(todo) - 1
        /\ \A i \in 1 .. Len(todo') : todo'[i] = todo[i + 1]
        /\ ch = todo[1] /\ ch \in Letters
    <3>1. Len(todo) <= 37  BY <1>5 DEF LogInv, LineLength
    <3>2. Len(todo) \in Nat /\ Len(todo) > 0  BY <1>2, <2>1
    <3>3. /\ Len(todo') = Len(todo) - 1
          /\ \A i \in 1 .. Len(todo') : todo'[i] = todo[i + 1]
          /\ ch = todo[1] /\ ch \in Letters
      <4>1. /\ Len(Tail(todo)) = Len(todo) - 1
            /\ \A i \in 1 .. Len(Tail(todo)) : Tail(todo)[i] = todo[i + 1]
            /\ Head(todo) = todo[1] /\ Head(todo) \in Letters
        BY <1>2, <2>1
      <4>. QED  BY <2>1, <4>1, Zenon
    <3>4. Len(todo) \in 1 .. LineLength /\ n \in 1 .. LineLength
      <4>. DEFINE m == Len(todo)
      <4>1. m \in Nat /\ m > 0 /\ m <= 37  BY <3>1, <3>2
      <4>. HIDE DEF m
      <4>2. m \in 1 .. 37 /\ 37 - m + 1 \in 1 .. 37  BY <4>1
      <4>. QED  BY <4>2 DEF m, LineLength
    <3>. QED  BY <3>3, <3>4
  <2>3. /\ \A i \in 1 .. Len(todo) : todo[i] = LetterAt(level, LineLength - Len(todo) + i)
        /\ writer.state = StateAt(level, n - 1)
        /\ writer.color = ColorAt(level, call.color, n - 1)
        /\ InOrder(drawn, text) /\ GlyphsUpTo(drawn, Len(drawn)) = GlyphsAt(n - 1)
    <3>1. n - 1 = LineLength - Len(todo)  BY <2>2 DEF LineLength
    <3>. QED  BY <1>5, <3>1 DEF LogInv
  <2>4. ch = LetterAt(level, n)  BY <2>2, <2>3
  <2>. HIDE DEF e, fed, ch
  <2>5. Sound(e) /\ Written(d, ch, fed, e)
    BY <1>1, <2>2, WriteCharFacts DEF e, fed
  <2>6. writer' = e.w /\ drawn' = e.drawn  BY <2>1 DEF Show
  <2>7. LogText(level)' = text  BY <2>1 DEF LogText
  <2>. HIDE DEF text
  <2>8. /\ writer'.state = StateAt(level, n) /\ writer'.color = ColorAt(level, call.color, n)
        /\ InOrder(drawn', text) /\ GlyphsUpTo(drawn', Len(drawn')) = GlyphsAt(n)
        /\ n = LineLength => writer'.x_pos = BorderPadding
    <3>1. CASE TakesPart(level, call.color, n)
      <4>1. fed = Taken(StateAt(level, n)) /\ StateAt(level, n)[1] # "Color"
        BY <2>3, <2>4, <3>1 DEF TakesPart, fed
      <4>2. ~fed.shown /\ fed.state = StateAt(level, n)  BY <4>1 DEF Taken
      <4>3. e.drawn = drawn /\ e.w.color = writer.color /\ e.w.state = StateAt(level, n)
        BY <1>1, <2>5, <4>1, <4>2 DEF Written
      <4>4. n # LineLength  BY <2>2, <3>1 DEF TakesPart, LineLength
      <4>. QED  BY <2>3, <2>6, <3>1, <4>3, <4>4 DEF TakesPart
    <3>2. CASE TakesColor(level, call.color, n)
      <4>. DEFINE c == ColorAt(level, call.color, n)
      <4>1. fed = Taken(<<"Color", c>>)  BY <2>3, <2>4, <3>2 DEF TakesColor, fed
      <4>. HIDE DEF c
      <4>2. ~fed.shown /\ fed.state = <<"Color", c>>  BY <4>1 DEF Taken
      <4>3. fed.state[1] = "Color" /\ fed.state[2] = c  BY <4>2
      <4>4. e.drawn = drawn /\ e.w.color = c /\ e.w.state = Normal
        BY <1>1, <2>5, <4>2, <4>3 DEF Written
      <4>5. n # LineLength  BY <2>2, <3>2 DEF TakesColor, LineLength
      <4>. QED  BY <2>3, <2>6, <3>2, <4>4, <4>5 DEF TakesColor, c
    <3>3. CASE TakesGlyph(level, call.color, n, text)
      <4>1. fed = Shown(Normal) /\ ch \notin {"nl", "cr"}
        BY <2>3, <2>4, <3>3 DEF TakesGlyph, fed
      <4>2. fed.shown /\ fed.state = Normal  BY <4>1 DEF Shown
      <4>3. e.w.color = writer.color /\ e.w.state = Normal
        BY <1>1, <2>5, <4>2 DEF Written
      <4>4. PICK g \in Marks :
                /\ IsGlyph(g) /\ g.ch = ch /\ g.color = writer.color
                /\ drawn' \in {Append(drawn, g), Append(Append(drawn, Clearing), g)}
        BY <1>1, <2>5, <2>6, <4>1, <4>2 DEF Written
      <4>5. GlyphsAt(n) = GlyphsAt(n - 1) + 1 /\ GlyphsAt(n - 1) \in Nat
            /\ Glyph(g.ch, g.color) = text[GlyphsAt(n - 1) + 1]
        <5>1. GlyphsAt(n - 1) \in Nat
          <6>1. Clearing \in Marks  BY DEF Clearing, Marks
          <6>. QED  BY <1>3, <2>3, <6>1, CountFacts
        <5>. QED  BY <2>3, <2>4, <3>3, <4>4, <5>1 DEF TakesGlyph
      <4>6. InOrder(drawn', text) /\ GlyphsUpTo(drawn', Len(drawn')) = GlyphsAt(n - 1) + 1
        <5>1. CASE drawn' = Append(drawn, g)
          BY <1>3, <2>3, <4>4, <4>5, <5>1, InOrderFacts
        <5>2. CASE drawn' = Append(Append(drawn, Clearing), g)
          <6>. DEFINE s == Append(drawn, Clearing)
          <6>1. Clearing \in Marks /\ ~IsGlyph(Clearing)  BY DEF Clearing, Marks, IsGlyph
          <6>2. /\ s \in Seq(Marks) /\ InOrder(s, text)
                /\ GlyphsUpTo(s, Len(s)) = GlyphsUpTo(drawn, Len(drawn)) + 0
            BY <1>3, <2>3, <6>1, InOrderFacts
          <6>. HIDE DEF s
          <6>3. GlyphsUpTo(s, Len(s)) = GlyphsAt(n - 1)  BY <2>3, <4>5, <6>2
          <6>4. drawn' = Append(s, g)  BY <5>2 DEF s
          <6>. QED  BY <4>4, <4>5, <6>2, <6>3, <6>4, InOrderFacts
        <5>. QED  BY <4>4, <5>1, <5>2
      <4>7. n # LineLength  BY <2>2, <3>3 DEF TakesGlyph, LineLength
      <4>. QED  BY <2>3, <2>6, <3>3, <4>3, <4>5, <4>6, <4>7 DEF TakesGlyph
    <3>4. CASE TakesNewline(level, call.color, n)
      <4>1. fed = Shown(Normal) /\ ch = "nl"  BY <2>3, <2>4, <3>4 DEF TakesNewline, fed
      <4>2. fed.shown /\ fed.state = Normal  BY <4>1 DEF Shown
      <4>3. /\ e.w.color = writer.color /\ e.w.state = Normal /\ e.drawn = drawn
            /\ e.w.x_pos = BorderPadding
        BY <1>1, <2>5, <4>1, <4>2 DEF Written
      <4>. QED  BY <2>3, <2>6, <3>4, <4>3 DEF TakesNewline
    <3>. QED  BY <1>5, <2>2, <3>1, <3>2, <3>3, <3>4, LineStep DEF text
  <2>9. LineLength - Len(todo') = n /\ Len(todo') <= LineLength
    <3>. DEFINE m == Len(todo)
                rest == Len(todo')
    <3>1. m \in 1 .. 37 /\ rest = m - 1  BY Zenon, <2>2 DEF LineLength
    <3>. HIDE DEF m, rest
    <3>2. 37 - rest = 37 - m + 1 /\ rest <= 37  BY <3>1
    <3>. QED  BY <3>2 DEF LineLength, m, rest
  <2>10. ASSUME NEW i \in 1 .. Len(todo') PROVE todo'[i] = LetterAt(level, n + i)
    <3>1. /\ i + 1 \in 1 .. Len(todo) /\ LineLength - Len(todo) + (i + 1) = n + i
      BY <2>2 DEF LineLength
    <3>. QED  BY <2>2, <2>3, <2>10, <3>1
  <2>11. todo' = <<>> => n = LineLength  BY <2>9 DEF LineLength
  <2>. HIDE DEF n
  <2>. QED  BY <2>1, <2>7, <2>8, <2>9, <2>10, <2>11 DEF LogInv
<1>6. CASE WriteNext /\ ~(call.op \in Levels /\ call.state = Normal)
  BY <1>6 DEF WriteNext, LogInv
<1>7. ASSUME NEW ch \in Chars, PrintChar(ch)
      PROVE  LogInv'
  BY <1>7 DEF PrintChar, Begin, LogInv, Levels
<1>8. CASE Backspace
  <2>1. call'.op = "backspace"  BY <1>8 DEF Backspace
  <2>. QED  BY <2>1 DEF LogInv, Levels
<1>9. CASE Stopped \/ UNCHANGED text_vars
  BY <1>9 DEF Stopped, text_vars, LogInv, LogText
<1>. QED  BY <1>4, <1>5, <1>6, <1>7, <1>8, <1>9 DEF TextNext

(* The logger and the writer agree: a log line that starts outside an      *)
(* escape code shows its text in its colours, whatever the frame's size    *)
(* and wherever it wraps or clears, and leaves the writer in white at the  *)
(* start of a line.                                                        *)
THEOREM LogLinesShow == TextSpec => []LogShowsText
<1>1. TextInit => LogInv
  <2>1. TextInit => call.op = "print"  BY DEF TextInit
  <2>. QED  BY <2>1 DEF LogInv, Levels
<1>2. LogInv => LogShowsText
  <2>. SUFFICES ASSUME LogInv, call.op \in Levels, call.state = Normal, todo = <<>>
                PROVE  /\ InOrder(drawn, LogText(call.op))
                       /\ GlyphsUpTo(drawn, Len(drawn)) = Len(LogText(call.op))
                       /\ writer.state = Normal /\ writer.color = "White"
                       /\ writer.x_pos = BorderPadding
    BY DEF LogShowsText
  <2>1. Len(todo) = 0 /\ LineLength - Len(todo) = 37  BY DEF LineLength
  <2>2. /\ writer.state = StateAt(call.op, 37)
        /\ writer.color = ColorAt(call.op, call.color, 37)
        /\ InOrder(drawn, LogText(call.op)) /\ GlyphsUpTo(drawn, Len(drawn)) = GlyphsAt(37)
        /\ writer.x_pos = BorderPadding
    BY <2>1 DEF LogInv
  <2>3. StateAt(call.op, 37) = Normal /\ GlyphsAt(37) = 9
        /\ ColorAt(call.op, call.color, 37) = "White"
    BY DEF StateAt, GlyphsAt, ColorAt, ColorStarts, ResetStarts
  <2>4. Len(LogText(call.op)) = 9  BY DEF LogText
  <2>. QED  BY <2>2, <2>3, <2>4
<1>. QED  BY <1>1, <1>2, TextInitInv, TextInductive, LogInductive, PTL DEF TextSpec

-----------------------------------------------------------------------------

(* Recovery.  The states the writer may be in after the first characters   *)
(* of a log line, whatever it was left in: the colour code of the target   *)
(* is broken off or swallowed, and the writer is outside a code after it.  *)
CatchingUp(n, s) ==
    /\ n = 0 => RestingState(s)
    /\ n = 1 => s \in {Normal, <<"FirstCode">>, <<"SecondCode", "[">>} \/ s[1] = "Finishing"
    /\ n = 2 => s \in {Normal, <<"Escape">>, <<"SecondCode", "esc">>, <<"Finishing", "[", "esc">>}
    /\ n = 3 => s \in {Normal, <<"FirstCode">>, <<"Finishing", "esc", "[">>}
    /\ n = 4 => s \in {Normal, <<"SecondCode", "3">>}
    /\ n = 5 => s \in {Normal, <<"Finishing", "3", "7">>}
    /\ n = 6 => s = Normal

(* A log line, however it began: in step from its sixth character on, and  *)
(* in white from the reset behind the target on, which is the eleventh.    *)
RecoverInv ==
    call.op \in Levels =>
        LET level == call.op
            n == LineLength - Len(todo)
        IN  /\ Len(todo) <= LineLength
            /\ \A i \in 1 .. Len(todo) : todo[i] = LetterAt(level, n + i)
            /\ n <= 6 => CatchingUp(n, writer.state)
            /\ n > 6 => writer.state = StateAt(level, n)
            /\ n >= 11 => /\ writer.color = ColorAt(level, call.color, n)
                          /\ \E skipped \in Nat :
                                /\ InOrderAfter(drawn, skipped, LogTail(level))
                                /\ GlyphsUpTo(drawn, Len(drawn)) = skipped + (GlyphsAt(n) - 2)
            /\ todo = <<>> => writer.x_pos = BorderPadding

(* What the writer may make of its n-th character while it catches up. *)
Caught(n, fed) ==
    \/ n = 6 /\ fed.state[1] = "Color" /\ ~fed.shown
    \/ fed.state[1] # "Color" /\ CatchingUp(n, fed.state)

(* A character shown, or taken for the next state of a code. *)
LEMMA CaughtFacts ==
    ASSUME NEW n \in 1 .. 6
    PROVE  /\ Caught(n, Shown(Normal)) /\ Caught(n, Taken(Normal))
           /\ \A s : (s[1] # "Color" /\ CatchingUp(n, s)) => Caught(n, Taken(s))
<1>1. CatchingUp(n, Normal)  BY DEF CatchingUp
<1>2. Normal[1] # "Color"  BY DEF Normal
<1>3. Shown(Normal).state = Normal /\ Taken(Normal).state = Normal  BY DEF Shown, Taken
<1>4. \A s : Taken(s).state = s  BY DEF Taken
<1>5. Caught(n, Shown(Normal)) /\ Caught(n, Taken(Normal))
  BY Zenon, <1>1, <1>2, <1>3 DEF Caught
<1>6. \A s : (s[1] # "Color" /\ CatchingUp(n, s)) => Caught(n, Taken(s))
  BY Zenon, <1>4 DEF Caught
<1>. QED  BY Zenon, <1>5, <1>6

(* How feed takes the first six characters of a log line, state by state. *)
LEMMA CatchStep ==
    ASSUME NEW level \in Levels, NEW n \in 1 .. 6, NEW s, CatchingUp(n - 1, s)
    PROVE  Caught(n, feed(s, LetterAt(level, n)))
<1>. USE DEF ColorStarts, ResetStarts
<1>1. \A c : c # "esc" => feed(Normal, c) = Shown(Normal)  BY DEF feed, Normal
<1>2. CASE n = 1
  <2>1. LetterAt(level, 1) = "["  BY DEF LetterAt
  <2>2. RestingState(s)  BY <1>2 DEF CatchingUp
  <2>3. Caught(1, feed(Normal, "["))  BY Zenon, <1>1, CaughtFacts, <1>2
  <2>4. Caught(1, feed(<<"Escape">>, "["))
    <3>1. feed(<<"Escape">>, "[") = Taken(<<"FirstCode">>)  BY DEF feed
    <3>2. <<"FirstCode">>[1] # "Color" /\ CatchingUp(1, <<"FirstCode">>)  BY DEF CatchingUp
    <3>. QED  BY Zenon, <1>2, <3>1, <3>2, CaughtFacts
  <2>5. Caught(1, feed(<<"FirstCode">>, "["))
    <3>1. feed(<<"FirstCode">>, "[") = Taken(<<"SecondCode", "[">>)  BY DEF feed, feed_first
    <3>2. <<"SecondCode", "[">>[1] # "Color" /\ CatchingUp(1, <<"SecondCode", "[">>)
      BY DEF CatchingUp
    <3>. QED  BY Zenon, <1>2, <3>1, <3>2, CaughtFacts
  <2>6. ASSUME s[1] = "SecondCode" PROVE Caught(1, feed(s, "["))
    <3>. DEFINE t == <<"Finishing", s[2], "[">>
    <3>1. feed(s, "[") = Taken(t)  BY <2>6 DEF feed
    <3>2. t[1] = "Finishing" /\ "Finishing" # "Color"  OBVIOUS
    <3>. HIDE DEF t
    <3>3. CatchingUp(1, t)  BY <3>2 DEF CatchingUp
    <3>. QED  BY Zenon, <1>2, <3>1, <3>2, <3>3, CaughtFacts
  <2>7. ASSUME s[1] = "Finishing" PROVE Caught(1, feed(s, "["))
    <3>1. feed(s, "[") = feed_finishing(s[2], s[3], "[")  BY <2>7 DEF feed
    <3>2. feed_finishing(s[2], s[3], "[") = Shown(Normal)  BY DEF feed_finishing
    <3>. QED  BY Zenon, <1>2, <3>1, <3>2, CaughtFacts
  <2>. QED  BY Zenon, <1>2, <2>1, <2>2, <2>3, <2>4, <2>5, <2>6, <2>7 DEF RestingState
<1>3. CASE n = 2
  <2>1. LetterAt(level, 2) = "esc"  BY DEF LetterAt
  <2>2. s \in {Normal, <<"FirstCode">>, <<"SecondCode", "[">>} \/ s[1] = "Finishing"  BY <1>3 DEF CatchingUp
  <2>3. Caught(2, feed(Normal, "esc"))
    <3>1. feed(Normal, "esc") = Taken(<<"Escape">>)  BY DEF feed, Normal
    <3>2. <<"Escape">>[1] # "Color" /\ CatchingUp(2, <<"Escape">>)  BY DEF CatchingUp
    <3>. QED  BY Zenon, <1>3, <3>1, <3>2, CaughtFacts
  <2>4. Caught(2, feed(<<"FirstCode">>, "esc"))
    <3>1. feed(<<"FirstCode">>, "esc") = Taken(<<"SecondCode", "esc">>)  BY DEF feed, feed_first
    <3>2. <<"SecondCode", "esc">>[1] # "Color" /\ CatchingUp(2, <<"SecondCode", "esc">>)  BY DEF CatchingUp
    <3>. QED  BY Zenon, <1>3, <3>1, <3>2, CaughtFacts
  <2>5. Caught(2, feed(<<"SecondCode", "[">>, "esc"))
    <3>1. feed(<<"SecondCode", "[">>, "esc") = Taken(<<"Finishing", "[", "esc">>)  BY DEF feed
    <3>2. <<"Finishing", "[", "esc">>[1] # "Color" /\ CatchingUp(2, <<"Finishing", "[", "esc">>)  BY DEF CatchingUp
    <3>. QED  BY Zenon, <1>3, <3>1, <3>2, CaughtFacts
  <2>6. ASSUME s[1] = "Finishing" PROVE Caught(2, feed(s, "esc"))
    <3>1. feed(s, "esc") = feed_finishing(s[2], s[3], "esc")  BY <2>6 DEF feed
    <3>2. feed_finishing(s[2], s[3], "esc") = Shown(Normal)  BY DEF feed_finishing
    <3>. QED  BY Zenon, <1>3, <3>1, <3>2, CaughtFacts
  <2>. QED  BY Zenon, <1>3, <2>1, <2>2, <2>3, <2>4, <2>5, <2>6
<1>4. CASE n = 3
  <2>1. LetterAt(level, 3) = "["  BY DEF LetterAt
  <2>2. s \in {Normal, <<"Escape">>, <<"SecondCode", "esc">>, <<"Finishing", "[", "esc">>}  BY <1>4 DEF CatchingUp
  <2>3. Caught(3, feed(Normal, "["))  BY Zenon, <1>1, <1>4, CaughtFacts
  <2>4. Caught(3, feed(<<"Escape">>, "["))
    <3>1. feed(<<"Escape">>, "[") = Taken(<<"FirstCode">>)  BY DEF feed
    <3>2. <<"FirstCode">>[1] # "Color" /\ CatchingUp(3, <<"FirstCode">>)  BY DEF CatchingUp
    <3>. QED  BY Zenon, <1>4, <3>1, <3>2, CaughtFacts
  <2>5. Caught(3, feed(<<"SecondCode", "esc">>, "["))
    <3>1. feed(<<"SecondCode", "esc">>, "[") = Taken(<<"Finishing", "esc", "[">>)  BY DEF feed
    <3>2. <<"Finishing", "esc", "[">>[1] # "Color" /\ CatchingUp(3, <<"Finishing", "esc", "[">>)  BY DEF CatchingUp
    <3>. QED  BY Zenon, <1>4, <3>1, <3>2, CaughtFacts
  <2>6. Caught(3, feed(<<"Finishing", "[", "esc">>, "["))
    <3>1. feed(<<"Finishing", "[", "esc">>, "[") = Shown(Normal)  BY DEF feed, feed_finishing
    <3>. QED  BY Zenon, <1>4, <3>1, CaughtFacts
  <2>. QED  BY Zenon, <1>4, <2>1, <2>2, <2>3, <2>4, <2>5, <2>6
<1>5. CASE n = 4
  <2>1. LetterAt(level, 4) = "3"  BY DEF LetterAt
  <2>2. s \in {Normal, <<"FirstCode">>, <<"Finishing", "esc", "[">>}  BY <1>5 DEF CatchingUp
  <2>3. Caught(4, feed(Normal, "3"))  BY Zenon, <1>1, <1>5, CaughtFacts
  <2>4. Caught(4, feed(<<"FirstCode">>, "3"))
    <3>1. feed(<<"FirstCode">>, "3") = Taken(<<"SecondCode", "3">>)  BY DEF feed, feed_first
    <3>2. <<"SecondCode", "3">>[1] # "Color" /\ CatchingUp(4, <<"SecondCode", "3">>)  BY DEF CatchingUp
    <3>. QED  BY Zenon, <1>5, <3>1, <3>2, CaughtFacts
  <2>5. Caught(4, feed(<<"Finishing", "esc", "[">>, "3"))
    <3>1. feed(<<"Finishing", "esc", "[">>, "3") = Shown(Normal)  BY DEF feed, feed_finishing
    <3>. QED  BY Zenon, <1>5, <3>1, CaughtFacts
  <2>. QED  BY Zenon, <1>5, <2>1, <2>2, <2>3, <2>4, <2>5
<1>6. CASE n = 5
  <2>1. LetterAt(level, 5) = "7"  BY DEF LetterAt, DigitAt
  <2>2. s \in {Normal, <<"SecondCode", "3">>}  BY <1>6 DEF CatchingUp
  <2>3. Caught(5, feed(Normal, "7"))  BY Zenon, <1>1, <1>6, CaughtFacts
  <2>4. Caught(5, feed(<<"SecondCode", "3">>, "7"))
    <3>1. feed(<<"SecondCode", "3">>, "7") = Taken(<<"Finishing", "3", "7">>)  BY DEF feed
    <3>2. <<"Finishing", "3", "7">>[1] # "Color" /\ CatchingUp(5, <<"Finishing", "3", "7">>)  BY DEF CatchingUp
    <3>. QED  BY Zenon, <1>6, <3>1, <3>2, CaughtFacts
  <2>. QED  BY Zenon, <1>6, <2>1, <2>2, <2>3, <2>4
<1>7. CASE n = 6
  <2>1. LetterAt(level, 6) = "m"  BY DEF LetterAt
  <2>2. s \in {Normal, <<"Finishing", "3", "7">>}  BY <1>7 DEF CatchingUp
  <2>3. Caught(6, feed(Normal, "m"))  BY Zenon, <1>1, <1>7, CaughtFacts
  <2>4. Caught(6, feed(<<"Finishing", "3", "7">>, "m"))
    <3>. DEFINE t == <<"Color", code_color["7"]>>
    <3>1. "7" \in DOMAIN code_color  BY DEF code_color
    <3>2. feed(<<"Finishing", "3", "7">>, "m") = Taken(t)  BY <3>1 DEF feed, feed_finishing
    <3>3. t[1] = "Color"  OBVIOUS
    <3>. HIDE DEF t
    <3>4. Taken(t).state = t /\ ~Taken(t).shown  BY DEF Taken
    <3>. QED  BY Zenon, <3>2, <3>3, <3>4 DEF Caught
  <2>. QED  BY Zenon, <1>7, <2>1, <2>2, <2>3, <2>4
<1>. QED  BY <1>2, <1>3, <1>4, <1>5, <1>6, <1>7

(* The characters behind the one the writer takes are the rest of the line. *)
LEMMA LineAdvances ==
    ASSUME todo \in Seq(Letters), todo # <<>>, Len(todo) <= LineLength, todo' = Tail(todo),
           NEW level \in Levels,
           \A i \in 1 .. Len(todo) : todo[i] = LetterAt(level, LineLength - Len(todo) + i)
    PROVE  LET n == LineLength - Len(todo) + 1
           IN  /\ n \in 1 .. LineLength /\ n - 1 = LineLength - Len(todo)
               /\ Head(todo) = LetterAt(level, n) /\ Head(todo) \in Letters
               /\ LineLength - Len(todo') = n /\ Len(todo') <= LineLength
               /\ \A i \in 1 .. Len(todo') : todo'[i] = LetterAt(level, n + i)
               /\ todo' = <<>> => n = LineLength
<1>. DEFINE m == Len(todo)
            rest == Len(todo')
<1>1. m \in Nat /\ m > 0 /\ m <= 37  BY DEF LineLength
<1>2. /\ Len(Tail(todo)) = Len(todo) - 1 /\ Head(todo) = todo[1] /\ Head(todo) \in Letters
      /\ \A i \in 1 .. Len(Tail(todo)) : Tail(todo)[i] = todo[i + 1]
  OBVIOUS
<1>3. rest = m - 1 /\ \A i \in 1 .. rest : todo'[i] = todo[i + 1]  BY <1>2, Zenon
<1>4. \A i \in 1 .. m : todo[i] = LetterAt(level, 37 - m + i)  BY DEF LineLength
<1>5. todo' = <<>> => rest = 0
  <2>1. Len(<<>>) = 0  OBVIOUS
  <2>. QED  BY Zenon, <2>1
<1>. HIDE DEF m, rest
<1>6. /\ 37 - m + 1 \in 1 .. 37 /\ 37 - m + 1 - 1 = 37 - m
      /\ 37 - rest = 37 - m + 1 /\ rest <= 37 /\ (rest = 0 => 37 - m + 1 = 37) /\ 1 \in 1 .. m
  BY <1>1, <1>3
<1>7. ASSUME NEW i \in 1 .. rest PROVE todo'[i] = LetterAt(level, 37 - m + 1 + i)
  <2>1. i + 1 \in 1 .. m /\ 37 - m + (i + 1) = 37 - m + 1 + i  BY <1>1, <1>3
  <2>2. todo[i + 1] = LetterAt(level, 37 - m + (i + 1))  BY <1>4, <2>1, Zenon
  <2>. QED  BY <1>3, <2>1, <2>2, Zenon
<1>8. Head(todo) = LetterAt(level, 37 - m + 1)  BY Zenon, <1>2, <1>4, <1>6
<1>9. todo' = <<>> => 37 - m + 1 = 37  BY Zenon, <1>5, <1>6
<1>10. /\ 37 - m + 1 \in 1 .. 37 /\ 37 - m + 1 - 1 = 37 - m
       /\ Head(todo) = LetterAt(level, 37 - m + 1) /\ Head(todo) \in Letters
       /\ 37 - rest = 37 - m + 1 /\ rest <= 37
       /\ \A i \in 1 .. rest : todo'[i] = LetterAt(level, 37 - m + 1 + i)
       /\ todo' = <<>> => 37 - m + 1 = 37
  BY Zenon, <1>2, <1>6, <1>7, <1>8, <1>9
<1>. QED  BY <1>10 DEF LineLength, m, rest

(* The count of glyphs only grows along what was drawn. *)
LEMMA CountBounded ==
    ASSUME NEW s \in Seq(Marks), NEW k \in 1 .. Len(s)
    PROVE  GlyphsUpTo(s, k) \in Nat /\ GlyphsUpTo(s, Len(s)) \in Nat
           /\ GlyphsUpTo(s, k) <= GlyphsUpTo(s, Len(s))
<1>. DEFINE some == {j \in 1 .. k : IsGlyph(s[j])}
            all == {j \in 1 .. Len(s) : IsGlyph(s[j])}
<1>1. IsFiniteSet(1 .. Len(s))  BY FS_Interval
<1>2. IsFiniteSet(all)  BY <1>1, FS_Subset
<1>3. some \subseteq all  OBVIOUS
<1>. HIDE DEF some, all
<1>4. IsFiniteSet(some) /\ Cardinality(some) <= Cardinality(all)  BY <1>2, <1>3, FS_Subset
<1>5. Cardinality(some) \in Nat /\ Cardinality(all) \in Nat  BY <1>2, <1>4, FS_CardinalityType
<1>. QED  BY Zenon, <1>4, <1>5 DEF GlyphsUpTo, some, all

(* A mark drawn in its place behind the skipped ones keeps the text in     *)
(* order.                                                                  *)
LEMMA InOrderAfterFacts ==
    ASSUME NEW s \in Seq(Marks), NEW skipped \in Nat, NEW text, InOrderAfter(s, skipped, text),
           NEW m \in Marks,
           IsGlyph(m) => Glyph(m.ch, m.color) = text[GlyphsUpTo(s, Len(s)) + 1 - skipped]
    PROVE  /\ Append(s, m) \in Seq(Marks) /\ InOrderAfter(Append(s, m), skipped, text)
           /\ GlyphsUpTo(Append(s, m), Len(Append(s, m)))
                  = GlyphsUpTo(s, Len(s)) + (IF IsGlyph(m) THEN 1 ELSE 0)
<1>. DEFINE t == Append(s, m)
<1>1. /\ t \in Seq(Marks) /\ Len(t) = Len(s) + 1 /\ Len(s) \in Nat
      /\ t[Len(s) + 1] = m /\ \A k \in 1 .. Len(s) : t[k] = s[k]
  OBVIOUS
<1>2. /\ \A k \in 1 .. Len(s) : GlyphsUpTo(t, k) = GlyphsUpTo(s, k)
      /\ GlyphsUpTo(t, Len(s) + 1) = GlyphsUpTo(s, Len(s)) + (IF IsGlyph(m) THEN 1 ELSE 0)
      /\ GlyphsUpTo(s, Len(s)) \in Nat
  BY CountFacts
<1>. HIDE DEF t
<1>3. ASSUME NEW k \in 1 .. Len(t), IsGlyph(t[k]), GlyphsUpTo(t, k) > skipped
      PROVE  Glyph(t[k].ch, t[k].color) = text[GlyphsUpTo(t, k) - skipped]
  <2>1. CASE k \in 1 .. Len(s)
    <3>1. t[k] = s[k] /\ GlyphsUpTo(t, k) = GlyphsUpTo(s, k)  BY <1>1, <1>2, <2>1
    <3>. QED  BY <1>3, <2>1, <3>1 DEF InOrderAfter
  <2>2. CASE k = Len(s) + 1
    <3>1. t[k] = m /\ IsGlyph(m)  BY <1>1, <1>3, <2>2
    <3>2. GlyphsUpTo(t, k) = GlyphsUpTo(s, Len(s)) + 1  BY <1>2, <2>2, <3>1
    <3>3. Glyph(m.ch, m.color) = text[GlyphsUpTo(s, Len(s)) + 1 - skipped]  BY Zenon, <3>1
    <3>4. GlyphsUpTo(t, k) - skipped = GlyphsUpTo(s, Len(s)) + 1 - skipped
      BY <1>2, <3>2
    <3>5. Glyph(t[k].ch, t[k].color) = Glyph(m.ch, m.color)  BY Zenon, <3>1
    <3>. QED  BY Zenon, <3>3, <3>4, <3>5
  <2>. QED  BY <1>1, <2>1, <2>2
<1>4. InOrderAfter(t, skipped, text)  BY <1>3 DEF InOrderAfter
<1>. QED  BY <1>1, <1>2, <1>4 DEF t

(* The glyphs behind the target do not depend on the colour the line began *)
(* in.                                                                     *)
LEMMA TailFacts ==
    ASSUME NEW level \in Levels
    PROVE  /\ Len(LogTail(level)) = 7
           /\ \A i \in 1 .. 7 : LogTail(level)[i] = LogText(level)[i + 2]
           /\ (call' = call) => LogTail(level)' = LogTail(level)
<1>1. LogText(level) \in Seq({LogText(level)[i] : i \in 1 .. 9}) /\ Len(LogText(level)) = 9
  BY DEF LogText
<1>. DEFINE text == LogText(level)
            S == {LogText(level)[i] : i \in 1 .. 9}
<1>2. text \in Seq(S) /\ Len(text) = 9  BY <1>1
<1>. HIDE DEF text, S
<1>3. Len(SubSeq(text, 3, 9)) = 7 /\ \A i \in 1 .. 7 : SubSeq(text, 3, 9)[i] = text[i + 2]
  BY <1>2
<1>4. (call' = call) => LogText(level)' = LogText(level)  BY DEF LogText
<1>. QED  BY Zenon, <1>3, <1>4 DEF LogTail, text

(* A glyph of the text drawn behind the skipped ones, after a clearing or  *)
(* not.                                                                    *)
LEMMA DrawnInOrder ==
    ASSUME NEW s \in Seq(Marks), NEW skipped \in Nat, NEW text, InOrderAfter(s, skipped, text),
           NEW g \in Marks, IsGlyph(g),
           Glyph(g.ch, g.color) = text[GlyphsUpTo(s, Len(s)) + 1 - skipped],
           NEW t \in {Append(s, g), Append(Append(s, Clearing), g)}
    PROVE  InOrderAfter(t, skipped, text) /\ GlyphsUpTo(t, Len(t)) = GlyphsUpTo(s, Len(s)) + 1
<1>1. CASE t = Append(s, g)  BY <1>1, InOrderAfterFacts
<1>2. CASE t = Append(Append(s, Clearing), g)
  <2>. DEFINE c == Append(s, Clearing)
  <2>1. Clearing \in Marks /\ ~IsGlyph(Clearing)  BY DEF Clearing, Marks, IsGlyph
  <2>2. GlyphsUpTo(s, Len(s)) \in Nat  BY <2>1, CountFacts
  <2>3. /\ c \in Seq(Marks) /\ InOrderAfter(c, skipped, text)
        /\ GlyphsUpTo(c, Len(c)) = GlyphsUpTo(s, Len(s)) + 0
    BY <2>1, InOrderAfterFacts
  <2>. HIDE DEF c
  <2>4. GlyphsUpTo(c, Len(c)) = GlyphsUpTo(s, Len(s))  BY <2>2, <2>3
  <2>5. t = Append(c, g)  BY <1>2 DEF c
  <2>. QED  BY <2>3, <2>4, <2>5, InOrderAfterFacts
<1>. QED  BY <1>1, <1>2

(* What the writer does with the n-th character of a log line, however it  *)
(* began.                                                                  *)
LEMMA RecoverStep ==
    ASSUME TInv, RecoverInv, WriteNext, call.op \in Levels
    PROVE  RecoverInv'
<1>. DEFINE d == [w |-> writer, drawn |-> drawn]
            level == call.op
            n == LineLength - Len(todo) + 1
            ch == Head(todo)
            fed == feed(writer.state, ch)
            e == write_char(d, ch)
            tail == LogTail(level)
            count == GlyphsUpTo(drawn, Len(drawn))
<1>1. Sound(d) /\ d.w = writer /\ d.drawn = drawn /\ RestingState(writer.state)
      /\ todo \in Seq(Letters)
  BY DEF TInv
<1>2. todo # <<>> /\ todo' = Tail(todo) /\ call' = call /\ Show(e)  BY DEF WriteNext
<1>. HIDE DEF d
<1>3. drawn \in Seq(Marks)  BY <1>1 DEF Sound
<1>4. Len(todo) <= LineLength
      /\ \A i \in 1 .. Len(todo) : todo[i] = LetterAt(level, LineLength - Len(todo) + i)
  BY DEF RecoverInv
<1>5. /\ n \in 1 .. LineLength /\ n - 1 = LineLength - Len(todo)
      /\ ch = LetterAt(level, n) /\ ch \in Letters
      /\ LineLength - Len(todo') = n /\ Len(todo') <= LineLength
      /\ \A i \in 1 .. Len(todo') : todo'[i] = LetterAt(level, n + i)
      /\ todo' = <<>> => n = LineLength
  BY <1>1, <1>2, <1>4, LineAdvances
<1>6. /\ n - 1 <= 6 => CatchingUp(n - 1, writer.state)
      /\ n - 1 > 6 => writer.state = StateAt(level, n - 1)
      /\ n - 1 >= 11 => /\ writer.color = ColorAt(level, call.color, n - 1)
                        /\ \E skipped \in Nat :
                              /\ InOrderAfter(drawn, skipped, tail)
                              /\ count = skipped + (GlyphsAt(n - 1) - 2)
  BY <1>5 DEF RecoverInv
<1>. HIDE DEF e, fed, ch, n
<1>7. Sound(e) /\ Written(d, ch, fed, e)  BY Zenon, <1>1, <1>5, WriteCharFacts DEF e, fed
<1>8. writer' = e.w /\ drawn' = e.drawn  BY <1>2 DEF Show
<1>9. LogTail(level)' = tail  BY <1>2, TailFacts
<1>10. n \in 1 .. 37  BY <1>5 DEF LineLength
<1>. HIDE DEF tail
<1>. DEFINE Goal == /\ n <= 6 => CatchingUp(n, writer'.state)
                    /\ n > 6 => writer'.state = StateAt(level, n)
                    /\ n >= 11 => /\ writer'.color = ColorAt(level, call.color, n)
                                  /\ \E skipped \in Nat :
                                        /\ InOrderAfter(drawn', skipped, tail)
                                        /\ GlyphsUpTo(drawn', Len(drawn'))
                                               = skipped + (GlyphsAt(n) - 2)
                    /\ n = 37 => writer'.x_pos = BorderPadding
<1>11. ASSUME n <= 6 PROVE Goal
  <2>1. n \in 1 .. 6 /\ n - 1 <= 6  BY <1>10, <1>11
  <2>2. Caught(n, fed)  BY <1>5, <1>6, <2>1, CatchStep DEF fed
  <2>3. CASE fed.state[1] = "Color" /\ ~fed.shown /\ n = 6
    <3>1. e.w.state = Normal  BY <1>7, <2>3 DEF Written
    <3>. QED  BY <1>8, <2>3, <3>1 DEF CatchingUp
  <2>4. CASE fed.state[1] # "Color" /\ CatchingUp(n, fed.state)
    <3>1. e.w.state = fed.state  BY <1>7, <2>4 DEF Written
    <3>. QED  BY <1>8, <1>11, <2>1, <2>4, <3>1
  <2>. QED  BY Zenon, <2>2, <2>3, <2>4 DEF Caught
<1>12. ASSUME n > 6 PROVE writer.state = StateAt(level, n - 1)
  <2>1. CASE n = 7
    <3>1. writer.state = Normal  BY <1>6, <2>1 DEF CatchingUp
    <3>2. StateAt(level, 6) = Normal  BY DEF StateAt, ColorStarts, ResetStarts
    <3>. QED  BY <2>1, <3>1, <3>2
  <2>. QED  BY <1>6, <1>10, <1>12, <2>1
<1>13. ASSUME n \in 7 .. 10 PROVE Goal
  <2>1. writer.state = StateAt(level, n - 1)  BY <1>12, <1>13
  <2>2. CASE n = 7
    <3>1. StateAt(level, 6) = Normal /\ StateAt(level, 7) = Normal /\ LetterAt(level, 7) = "t"
      BY DEF StateAt, LetterAt, ColorStarts, ResetStarts
    <3>2. fed = Shown(Normal)  BY <1>5, <2>1, <2>2, <3>1 DEF fed, feed, Normal
    <3>3. e.w.state = Normal  BY <1>7, <3>2 DEF Written, Shown
    <3>. QED  BY <1>8, <2>2, <3>1, <3>3
  <2>3. CASE n = 8
    <3>1. StateAt(level, 7) = Normal /\ StateAt(level, 8) = <<"Escape">> /\ LetterAt(level, 8) = "esc"
      BY DEF StateAt, LetterAt, ColorStarts, ResetStarts
    <3>2. fed = Taken(<<"Escape">>)  BY <1>5, <2>1, <2>3, <3>1 DEF fed, feed, Normal
    <3>3. e.w.state = <<"Escape">>  BY <1>7, <3>2 DEF Written, Taken
    <3>. QED  BY <1>8, <2>3, <3>1, <3>3
  <2>4. CASE n = 9
    <3>1. /\ StateAt(level, 8) = <<"Escape">> /\ StateAt(level, 9) = <<"FirstCode">>
          /\ LetterAt(level, 9) = "["
      BY DEF StateAt, LetterAt, ColorStarts, ResetStarts
    <3>2. fed = Taken(<<"FirstCode">>)  BY <1>5, <2>1, <2>4, <3>1 DEF fed, feed
    <3>3. e.w.state = <<"FirstCode">>  BY <1>7, <3>2 DEF Written, Taken
    <3>. QED  BY <1>8, <2>4, <3>1, <3>3
  <2>5. CASE n = 10
    <3>1. /\ StateAt(level, 9) = <<"FirstCode">> /\ LetterAt(level, 10) = "0"
          /\ StateAt(level, 10) = <<"Finishing", "0", "0">>
      BY DEF StateAt, LetterAt, ColorStarts, ResetStarts
    <3>2. fed = Taken(<<"Finishing", "0", "0">>)
      BY <1>5, <2>1, <2>5, <3>1 DEF fed, feed, feed_first
    <3>3. e.w.state = <<"Finishing", "0", "0">>  BY <1>7, <3>2 DEF Written, Taken
    <3>. QED  BY <1>8, <2>5, <3>1, <3>3
  <2>. QED  BY <1>13, <2>2, <2>3, <2>4, <2>5
<1>14. ASSUME n = 11 PROVE Goal
  <2>1. /\ StateAt(level, 10) = <<"Finishing", "0", "0">> /\ LetterAt(level, 11) = "m"
        /\ StateAt(level, 11) = Normal /\ ColorAt(level, call.color, 11) = "White"
        /\ GlyphsAt(11) = 2
    BY DEF StateAt, LetterAt, ColorStarts, ResetStarts, ColorAt, GlyphsAt
  <2>2. writer.state = StateAt(level, 10)  BY <1>12, <1>14
  <2>3. fed = Taken(<<"Color", "White">>)
    BY <1>5, <1>14, <2>1, <2>2 DEF fed, feed, feed_finishing
  <2>4. ~fed.shown /\ fed.state[1] = "Color" /\ fed.state[2] = "White"  BY <2>3 DEF Taken
  <2>5. e.w.state = Normal /\ e.w.color = "White" /\ drawn' = drawn
    BY <1>1, <1>7, <1>8, <2>4 DEF Written
  <2>6. count \in Nat
    <3>1. Clearing \in Marks  BY DEF Clearing, Marks
    <3>. QED  BY <1>3, <3>1, CountFacts
  <2>7. InOrderAfter(drawn, count, tail)
    <3>1. \A k \in 1 .. Len(drawn) : ~(GlyphsUpTo(drawn, k) > count)
      <4>. TAKE k \in 1 .. Len(drawn)
      <4>1. GlyphsUpTo(drawn, k) \in Nat /\ count \in Nat /\ GlyphsUpTo(drawn, k) <= count
        BY <1>3, CountBounded
      <4>. HIDE DEF count
      <4>. QED  BY <4>1
    <3>. QED  BY Zenon, <3>1 DEF InOrderAfter
  <2>8. GlyphsUpTo(drawn', Len(drawn')) = count + (GlyphsAt(11) - 2)
    <3>. HIDE DEF count
    <3>1. count + (2 - 2) = count  BY <2>6
    <3>. QED  BY <2>1, <2>5, <3>1 DEF count
  <2>. HIDE DEF count
  <2>9. n > 6 /\ n # 37 /\ ~(n <= 6)  BY <1>14
  <2>. QED  BY Zenon, <1>8, <1>14, <2>1, <2>5, <2>6, <2>7, <2>8, <2>9
<1>15. ASSUME n >= 12 PROVE Goal
  <2>1. n - 1 >= 11 /\ n > 6 /\ n >= 11 /\ ~(n <= 6) /\ n \in 12 .. 37  BY <1>10, <1>15
  <2>2. writer.state = StateAt(level, n - 1) /\ writer.color = ColorAt(level, call.color, n - 1)
    BY <1>6, <1>12, <2>1
  <2>3. PICK skipped \in Nat : InOrderAfter(drawn, skipped, tail)
                               /\ count = skipped + (GlyphsAt(n - 1) - 2)
    BY <1>6, <2>1
  <2>. HIDE DEF count
  <2>4. /\ writer'.state = StateAt(level, n) /\ writer'.color = ColorAt(level, call.color, n)
        /\ InOrderAfter(drawn', skipped, tail)
        /\ GlyphsUpTo(drawn', Len(drawn')) = skipped + (GlyphsAt(n) - 2)
        /\ n = 37 => writer'.x_pos = BorderPadding
    <3>1. CASE TakesPart(level, call.color, n)
      <4>1. fed = Taken(StateAt(level, n)) /\ StateAt(level, n)[1] # "Color"
        BY <1>5, <2>2, <3>1 DEF TakesPart, fed
      <4>2. ~fed.shown /\ fed.state = StateAt(level, n)  BY <4>1 DEF Taken
      <4>3. e.drawn = drawn /\ e.w.color = writer.color /\ e.w.state = StateAt(level, n)
        BY <1>1, <1>7, <4>1, <4>2 DEF Written
      <4>4. n # 37  BY <1>10, <3>1 DEF TakesPart, LineLength
      <4>. QED  BY <1>8, <2>2, <2>3, <3>1, <4>3, <4>4 DEF TakesPart, count
    <3>2. CASE TakesColor(level, call.color, n)
      <4>. DEFINE c == ColorAt(level, call.color, n)
      <4>1. fed = Taken(<<"Color", c>>)  BY <1>5, <2>2, <3>2 DEF TakesColor, fed
      <4>. HIDE DEF c
      <4>2. ~fed.shown /\ fed.state = <<"Color", c>>  BY <4>1 DEF Taken
      <4>3. fed.state[1] = "Color" /\ fed.state[2] = c  BY <4>2
      <4>4. e.drawn = drawn /\ e.w.color = c /\ e.w.state = Normal
        BY <1>1, <1>7, <4>2, <4>3 DEF Written
      <4>5. n # 37  BY <1>10, <3>2 DEF TakesColor, LineLength
      <4>. QED  BY <1>8, <2>3, <3>2, <4>4, <4>5 DEF TakesColor, c, count
    <3>3. CASE TakesGlyph(level, call.color, n, LogText(level))
      <4>1. fed = Shown(Normal) /\ ch \notin {"nl", "cr"}
        BY <1>5, <2>2, <3>3 DEF TakesGlyph, fed
      <4>2. fed.shown /\ fed.state = Normal  BY <4>1 DEF Shown
      <4>3. e.w.color = writer.color /\ e.w.state = Normal
        BY <1>1, <1>7, <4>2 DEF Written
      <4>4. PICK g \in Marks :
                /\ IsGlyph(g) /\ g.ch = ch /\ g.color = writer.color
                /\ drawn' \in {Append(drawn, g), Append(Append(drawn, Clearing), g)}
        BY <1>1, <1>7, <1>8, <4>1, <4>2 DEF Written
      <4>5. GlyphsAt(n) \in 3 .. 9 /\ GlyphsAt(n) = GlyphsAt(n - 1) + 1
            /\ GlyphsAt(n - 1) \in 2 .. 8
        <5>1. GlyphsAt(n) \in 3 .. 9 /\ GlyphsAt(n - 1) \in 2 .. 9  BY <2>1 DEF GlyphsAt
        <5>. QED  BY <3>3, <5>1 DEF TakesGlyph
      <4>6. tail[GlyphsAt(n) - 2] = LogText(level)[GlyphsAt(n)]
        <5>. DEFINE i == GlyphsAt(n) - 2
        <5>1. i \in 1 .. 7 /\ i + 2 = GlyphsAt(n)  BY <4>5
        <5>2. tail[i] = LogText(level)[i + 2]
          <6>. HIDE DEF i
          <6>. QED  BY Zenon, <5>1, TailFacts DEF tail
        <5>. QED  BY Zenon, <5>1, <5>2
      <4>7. Glyph(g.ch, g.color) = LogText(level)[GlyphsAt(n)]
        BY <1>5, <2>2, <3>3, <4>4 DEF TakesGlyph
      <4>8. count + 1 - skipped = GlyphsAt(n) - 2 /\ count + 1 = skipped + (GlyphsAt(n) - 2)
        BY <2>3, <4>5
      <4>9. InOrderAfter(drawn', skipped, tail) /\ GlyphsUpTo(drawn', Len(drawn')) = count + 1
        BY Zenon, <1>3, <2>3, <4>4, <4>6, <4>7, <4>8, DrawnInOrder DEF count
      <4>10. n # 37  BY <1>10, <3>3 DEF TakesGlyph, LineLength
      <4>. QED  BY <1>8, <2>2, <3>3, <4>3, <4>8, <4>9, <4>10 DEF TakesGlyph
    <3>4. CASE TakesNewline(level, call.color, n)
      <4>1. fed = Shown(Normal) /\ ch = "nl"  BY <1>5, <2>2, <3>4 DEF TakesNewline, fed
      <4>2. fed.shown /\ fed.state = Normal  BY <4>1 DEF Shown
      <4>3. /\ e.w.color = writer.color /\ e.w.state = Normal /\ e.drawn = drawn
            /\ e.w.x_pos = BorderPadding
        BY <1>1, <1>7, <4>1, <4>2 DEF Written
      <4>. QED  BY <1>8, <2>2, <2>3, <3>4, <4>3 DEF TakesNewline, count
    <3>. QED  BY <1>5, <3>1, <3>2, <3>3, <3>4, LineStep
  <2>. QED  BY Zenon, <2>1, <2>4
<1>16. Goal  BY <1>10, <1>11, <1>13, <1>14, <1>15
<1>17. todo' = <<>> => writer'.x_pos = BorderPadding  BY <1>5, <1>16 DEF LineLength
<1>18. /\ n <= 6 => CatchingUp(n, writer'.state)
       /\ n > 6 => writer'.state = StateAt(level, n)
       /\ n >= 11 => /\ writer'.color = ColorAt(level, call.color, n)
                     /\ \E skipped \in Nat :
                           /\ InOrderAfter(drawn', skipped, tail)
                           /\ GlyphsUpTo(drawn', Len(drawn')) = skipped + (GlyphsAt(n) - 2)
  BY Zenon, <1>16
<1>. HIDE DEF Goal
<1>. QED  BY <1>2, <1>5, <1>9, <1>17, <1>18 DEF RecoverInv

(* Every step keeps a log line on its way back into step. *)
LEMMA RecoverInductive ==
    ASSUME TInv, RecoverInv, [TextNext]_text_vars
    PROVE  RecoverInv'
<1>1. ASSUME NEW level \in Levels, Log(level)
      PROVE  RecoverInv'
  <2>1. todo' = log_line(level) /\ writer' = writer /\ call'.op = level
    BY <1>1 DEF Log, Begin
  <2>2. /\ Len(todo') = 37 /\ 37 - Len(todo') = 0
        /\ \A i \in 1 .. 37 : todo'[i] = LetterAt(level, i)
    <3>1. /\ Len(log_line(level)) = LineLength
          /\ \A i \in 1 .. LineLength : log_line(level)[i] = LetterAt(level, i)
      BY LogLine
    <3>. QED  BY <2>1, <3>1 DEF LineLength
  <2>3. CatchingUp(0, writer'.state)  BY <2>1 DEF CatchingUp, TInv
  <2>4. todo' # <<>>
    <3>1. Len(<<>>) = 0 /\ 37 # 0  OBVIOUS
    <3>. QED  BY <2>2, <3>1, Zenon
  <2>. QED  BY <2>1, <2>2, <2>3, <2>4 DEF RecoverInv, LineLength
<1>2. CASE WriteNext
  <2>1. CASE call.op \in Levels  BY <1>2, <2>1, RecoverStep
  <2>2. CASE call.op \notin Levels  BY <1>2, <2>2 DEF WriteNext, RecoverInv
  <2>. QED  BY <2>1, <2>2
<1>3. ASSUME NEW ch \in Chars, PrintChar(ch)
      PROVE  RecoverInv'
  BY <1>3 DEF PrintChar, Begin, RecoverInv, Levels
<1>4. CASE Backspace
  <2>1. call'.op = "backspace"  BY <1>4 DEF Backspace
  <2>. QED  BY <2>1 DEF RecoverInv, Levels
<1>5. CASE Stopped \/ UNCHANGED text_vars
  BY Zenon, <1>5 DEF Stopped, text_vars, RecoverInv, LogTail, LogText
<1>. QED  BY <1>1, <1>2, <1>3, <1>4, <1>5 DEF TextNext

(* The writer recovers: whatever it was left in, the middle of an escape   *)
(* code included, a log line is garbled in its target at most, shows the   *)
(* level and the message in their colours, and leaves the writer in white, *)
(* outside a code, at the start of a line.                                 *)
THEOREM LogLinesRecover == TextSpec => []LogRecovers
<1>1. TextInit => RecoverInv
  <2>1. TextInit => call.op = "print"  BY DEF TextInit
  <2>. QED  BY <2>1 DEF RecoverInv, Levels
<1>2. RecoverInv => LogRecovers
  <2>. DEFINE tail == LogTail(call.op)
              count == GlyphsUpTo(drawn, Len(drawn))
  <2>. SUFFICES ASSUME RecoverInv, call.op \in Levels, todo = <<>>
                PROVE  /\ count - Len(tail) >= 0 /\ InOrderAfter(drawn, count - Len(tail), tail)
                       /\ writer.state = Normal /\ writer.color = "White"
                       /\ writer.x_pos = BorderPadding
    BY DEF LogRecovers
  <2>1. Len(todo) = 0 /\ LineLength - Len(todo) = 37  BY DEF LineLength
  <2>2. /\ writer.state = StateAt(call.op, 37)
        /\ writer.color = ColorAt(call.op, call.color, 37)
        /\ \E skipped \in Nat : InOrderAfter(drawn, skipped, tail)
                               /\ count = skipped + (GlyphsAt(37) - 2)
        /\ writer.x_pos = BorderPadding
    BY <2>1 DEF RecoverInv
  <2>3. StateAt(call.op, 37) = Normal /\ GlyphsAt(37) = 9
        /\ ColorAt(call.op, call.color, 37) = "White"
    BY DEF StateAt, GlyphsAt, ColorAt, ColorStarts, ResetStarts
  <2>4. PICK skipped \in Nat : InOrderAfter(drawn, skipped, tail)
                               /\ count = skipped + (GlyphsAt(37) - 2)
    BY <2>2
  <2>5. Len(tail) = 7  BY TailFacts
  <2>. HIDE DEF tail, count
  <2>6. count - Len(tail) = skipped /\ skipped >= 0  BY <2>3, <2>4, <2>5
  <2>. QED  BY <2>2, <2>3, <2>4, <2>6
<1>. QED  BY <1>1, <1>2, TextInitInv, TextInductive, RecoverInductive, PTL DEF TextSpec
=============================================================================
