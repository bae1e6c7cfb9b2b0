----------------------------- MODULE DemoScreen -----------------------------
(***************************************************************************)
(* The screen of the Arduino build (src/main.cpp): the GUI task, the only  *)
(* one that draws, the theme that the console changes while a frame is     *)
(* being drawn, the splash and the colour test that the console asks for,  *)
(* and the theme's copy in flash, which setup loads.                       *)
(*                                                                         *)
(* A frame paints over the one before and clears the glass only when the   *)
(* theme has changed since the last look.  Each part of the frame reads    *)
(* the theme for itself.  What the parts say is left out.  The display's   *)
(* lock is always free: the splash of setup ends before the tasks start.   *)
(***************************************************************************)
EXTENDS Naturals

CONSTANTS
  Themes,      \* "midnight" and "amber", or others that are no word used below
  MaxResets    \* bound: resets of the chip

VARIABLES
  theme,     \* g_theme
  stored,    \* its copy in flash
  console,   \* "idle", or a theme to be stored
  asked,     \* g_trigger_boot, g_trigger_color_test
  mode,      \* g_ui_mode
  gui,       \* the GUI task: its place, last_theme, th of the frame
  glass,     \* what each part of the glass was last painted with
  resets

vars == <<theme, stored, console, asked, mode, gui, glass, resets>>

Part == {"header", "cards", "pills"}
Paint == Themes \cup {"blank", "splash", "test"}
Idle == "idle"

TypeOK ==
  /\ theme \in Themes /\ stored \in Themes
  /\ console \in Themes \cup {Idle}
  /\ asked \in SUBSET {"splash", "test"}
  /\ mode \in {"DASH", "SPLASH", "TEST"}
  /\ gui \in [at : {"fill", "look", "clear", "splash", "splashed", "test", "tested"} \cup Part,
              last : Themes, th : Themes]
  /\ glass \in [Part -> Paint]
  /\ resets \in 0 .. MaxResets

All(paint) == [p \in Part |-> paint]

\* setup: the theme from flash, the splash, and gui_task up to its first frame.
Init ==
  /\ stored \in Themes /\ theme = stored
  /\ console = Idle /\ asked = {} /\ mode = "DASH"
  /\ gui = [at |-> "fill", last |-> theme, th |-> theme]
  /\ glass = All("blank")
  /\ resets = 0

-----------------------------------------------------------------------------
(* The console                                                             *)

SetTheme(t) ==
  /\ console = Idle
  /\ theme' = t /\ console' = t
  /\ UNCHANGED <<stored, asked, mode, gui, glass, resets>>

\* putUChar, whose result is not looked at.
StoreTheme ==
  /\ console # Idle
  /\ stored' \in {stored, console}
  /\ console' = Idle
  /\ UNCHANGED <<theme, asked, mode, gui, glass, resets>>

Ask(what) ==
  /\ console = Idle
  /\ asked' = asked \cup {what}
  /\ UNCHANGED <<theme, stored, console, mode, gui, glass, resets>>

-----------------------------------------------------------------------------
(* gui_task                                                                *)

Gui(at, next) == gui.at = at /\ gui' = [gui EXCEPT !.at = next]
Glass(paint) == glass' = All(paint)

\* fillScreen before the first frame.
FirstFill == Gui("fill", "header") /\ Glass("blank") /\ UNCHANGED <<asked, mode>>

\* The top of the loop: has the theme changed since the last look?
Look ==
  /\ gui.at = "look"
  /\ gui' = [gui EXCEPT !.at = IF theme # gui.last THEN "clear" ELSE "splash", !.last = theme]
  /\ UNCHANGED <<asked, mode, glass>>

Clear == Gui("clear", "splash") /\ Glass("blank") /\ UNCHANGED <<asked, mode>>

\* A picture that was asked for, with the dashboard kept off, or nothing.
Show(what, drawing, over, next) ==
  \/ /\ what \in asked /\ Gui(what, drawing)
     /\ asked' = asked \ {what} /\ mode' = over /\ Glass(what)
  \/ what \notin asked /\ Gui(what, next) /\ UNCHANGED <<asked, mode, glass>>

Shown(drawing, next) == Gui(drawing, next) /\ Glass("blank") /\ mode' = "DASH" /\ UNCHANGED asked

Splash == Show("splash", "splashed", "SPLASH", "test") \/ Shown("splashed", "test")
ColourTest == Show("test", "tested", "TEST", "header") \/ Shown("tested", "header")

\* Mutant of Paints: the cards, which do not move, are painted once after a clear.
PaintsOnce(p, t) ==
  glass' = IF p = "cards" /\ glass[p] # "blank" THEN glass ELSE [glass EXCEPT ![p] = t]

Paints(p, t) == glass' = [glass EXCEPT ![p] = t]

\* render_dashboard: th for the cards, curTheme again in draw_status_pill.
Render ==
  /\ mode = "DASH"
  /\ \/ /\ gui.at = "header" /\ Paints("header", theme)
        /\ gui' = [gui EXCEPT !.at = "cards", !.th = theme]
     \/ Gui("cards", "pills") /\ Paints("cards", gui.th)
     \/ Gui("pills", "look") /\ Paints("pills", theme)
  /\ UNCHANGED <<asked, mode>>

GuiTask ==
  /\ FirstFill \/ Look \/ Clear \/ Splash \/ ColourTest \/ Render
  /\ UNCHANGED <<theme, stored, console, resets>>

-----------------------------------------------------------------------------
\* reboot, or any reset.
Reset ==
  /\ resets < MaxResets /\ resets' = resets + 1
  /\ theme' = stored /\ console' = Idle /\ asked' = {} /\ mode' = "DASH"
  /\ gui' = [at |-> "fill", last |-> stored, th |-> stored]
  /\ glass' = All("blank")
  /\ UNCHANGED stored

Next ==
  \/ \E t \in Themes : SetTheme(t)
  \/ \E what \in {"splash", "test"} : Ask(what)
  \/ StoreTheme \/ GuiTask \/ Reset

Spec == Init /\ [][Next]_vars

\* The GUI task is the one with the highest priority and sleeps between frames.
FairSpec == Spec /\ WF_vars(GuiTask)

-----------------------------------------------------------------------------
(* Property                                                                *)

\* A theme that stays is soon the only one on the glass, also when it was changed in
\* the middle of a frame, changed back before the next look, or during a splash
\* ("Theme switch needs a clean slate, else old card colors ghost", main.cpp:597).
ThemeSettles == \A t \in Themes : theme = t ~> theme # t \/ glass = All(t)

=============================================================================
