------------------------------ MODULE Framebuffer ------------------------------
(***************************************************************************)
(* The framebuffer as a console: fb_cookie_write of src/kernel.c, which    *)
(* moves a cursor over the screen, and framebuffer_write_at of             *)
(* src/drivers/fb32.c, which draws a character there.  Memory is counted   *)
(* in pixels of 4 bytes from the start of the framebuffer; rows are        *)
(* `pitch` pixels apart, and what lies behind `width` of a row may already *)
(* be the next row.                                                        *)
(***************************************************************************)
EXTENDS Naturals, Sequences, SequencesExt

CONSTANTS
  FONT_CHAR_WIDTH, FONT_CHAR_HEIGHT,   \* pixels of a character (8 by 8)
  Screens,        \* what the bootloader may set up: [width, height, pitch]
  Char,           \* the characters printed
  Newline,        \* those of them that are '\n'
  Visible         \* those that framebuffer_write_at draws: ' ' to '~'

ASSUME ScreenAssumption ==
  /\ FONT_CHAR_WIDTH \in Nat \ {0} /\ FONT_CHAR_HEIGHT \in Nat \ {0}
  /\ Screens \subseteq [width : Nat \ {0}, height : Nat \ {0}, pitch : Nat \ {0}]
  /\ \A s \in Screens : s.width <= s.pitch /\ FONT_CHAR_WIDTH <= s.width
  /\ Newline \subseteq Char /\ Visible \subseteq Char \ Newline

VARIABLES
  screen,    \* the framebuffer in use
  cursor,    \* fb_cookie: where the next character goes, in pixels
  pixel,     \* pixels written, by their place in memory
  shown      \* lines printed since the cursor was last in the first row

fbvars == <<screen, cursor, pixel, shown>>

------------------------------------------------------------------------------

PixelNoPitch(x, y) == screen.width * y + x                \* mutant of Pixel
Pixel(x, y) == screen.pitch * y + x

(* Pixel (dx, dy) of the image of a character. *)
Dot(c, dx, dy) == [char |-> c, dx |-> dx, dy |-> dy]
Dots == (0 .. FONT_CHAR_WIDTH - 1) \X (0 .. FONT_CHAR_HEIGHT - 1)

(* framebuffer_write_at: the memory with character c drawn at (x, y).      *)
Drawn(c, x, y) ==
  LET place == [d \in Dots |-> Pixel(x + d[1], y + d[2])]
      drawn == {place[d] : d \in Dots}
  IN  IF c \notin Visible THEN pixel
      ELSE [a \in drawn \cup DOMAIN pixel |->
              IF a \in drawn
              THEN LET d == CHOOSE d \in Dots : place[d] = a IN Dot(c, d[1], d[2])
              ELSE pixel[a]]

EndsLine(c) ==
  c \in Newline \/ cursor.x + FONT_CHAR_WIDTH > screen.width

NextRowUnbounded == cursor.y + FONT_CHAR_HEIGHT           \* mutant of NextRow
NextRow ==
  LET y == cursor.y + FONT_CHAR_HEIGHT
  IN  IF y > screen.height THEN 0 ELSE y

(* A character of fb_cookie_write. *)
FbCookieWrite(c) ==
  /\ pixel' = Drawn(c, cursor.x, cursor.y)
  /\ cursor' = IF EndsLine(c) THEN [x |-> 0, y |-> NextRow]
               ELSE [cursor EXCEPT !.x = @ + FONT_CHAR_WIDTH]
  /\ LET lines == [shown EXCEPT ![Len(shown)] = Append(@, c)]
     IN  shown' = IF ~EndsLine(c) THEN lines
                  ELSE IF cursor'.y = 0 THEN <<<<>>>>
                  ELSE Append(lines, <<>>)
  /\ UNCHANGED screen

FbInit ==
  /\ screen \in Screens
  /\ cursor = [x |-> 0, y |-> 0]
  /\ pixel = <<>>
  /\ shown = <<<<>>>>

FbNext == \E c \in Char : FbCookieWrite(c)

FbSpec == FbInit /\ [][FbNext]_fbvars

------------------------------------------------------------------------------
(* Properties *)

(* How far characters are drawn outside of the screen, whatever is         *)
(* printed: less than one character to the right of a row and below the    *)
(* last row (the cursor is compared with > instead of >=).                 *)
OverrunBounded ==
  /\ cursor.x <= screen.width /\ cursor.y <= screen.height
  /\ \A a \in DOMAIN pixel :
       a < Pixel(screen.width + FONT_CHAR_WIDTH, screen.height + FONT_CHAR_HEIGHT - 1)

(* The last character of a full line is drawn over the right edge of the   *)
(* screen, and unless rows of pixels are far enough apart it covers the    *)
(* start of the next ones: the first character of its line.                *)
RunsOver(line) == Len(line) * FONT_CHAR_WIDTH > screen.pitch

OnScreen(x, y) == x < screen.width /\ y < screen.height

(* What was printed since the cursor was in the first row, line below      *)
(* line, is seen as far as it lies on the screen: of every character the   *)
(* dots there are its own, but for the first one of a line that ran over.  *)
(* What lies behind a row or below the last one is lost (OverrunBounded):  *)
(* at least a part of the last character of each full line and of the last *)
(* row, and all of them where characters divide the screen evenly.         *)
TextReadable ==
  \A row \in DOMAIN shown : \A column \in DOMAIN shown[row] : \A d \in Dots :
    LET x == (column - 1) * FONT_CHAR_WIDTH + d[1]
        y == (row - 1) * FONT_CHAR_HEIGHT + d[2]
    IN  /\ shown[row][column] \in Visible
        /\ OnScreen(x, y)
        /\ column > 1 \/ ~RunsOver(shown[row])
        => /\ Pixel(x, y) \in DOMAIN pixel
           /\ pixel[Pixel(x, y)] = Dot(shown[row][column], d[1], d[2])
==============================================================================
