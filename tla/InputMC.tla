------------------------------ MODULE InputMC -------------------------------
(***************************************************************************)
(* What comes in from the keyboard and the mouse, checked side by side:    *)
(* scancodes, bytes and commands in Console, the button and what it does   *)
(* to the windows in Desktop.  `part` says which of them a behaviour is    *)
(* of, and the other stays as it was at first.                             *)
(*                                                                         *)
(* Command lines are given for every kind of path `cd` tells apart, and    *)
(* scripts of which one calls the other.  demo.sh is vfs_init's without    *)
(* its echo lines; notes.txt has been edited into a script.                *)
(***************************************************************************)
EXTENDS Console, Desktop

CONSTANT Part    \* the parts that are checked

Command(name, path) == [name |-> name, path |-> path]

Paths == { <<>>, <<"/">>, <<"home">>, <<"docs">>, <<"..">>, <<"..", "/", "docs">>,
           <<"/", "bin">>, <<"/", "home", "/">>, <<"/", "/", "home">>,
           <<"notes.txt">>, <<"/", "docs", "/", "about.md", "/", "x">> }

MCScript ==
  [file \in {"demo.sh", "notes.txt"} |->
     IF file = "demo.sh"
     THEN << Command("pwd", <<>>), Command("/bin/echo", <<>>) >>
     ELSE << Command("cd", <<"..">>), Command("sh", <<"/", "home", "/", "demo.sh">>) >>]

MCCommands ==
  { Command("", <<>>), Command("pwd", <<>>), Command("/bin/echo", <<>>) }
  \union {Command("cd", path) : path \in Paths}
  \union {Command("sh", <<"/", "home", "/", file>>) : file \in {"demo.sh", "notes.txt", "none"}}

-----------------------------------------------------------------------------
VARIABLE part

inputVars == <<consoleVars, vars, part>>

InputInit == part \in Part /\ ConsoleInit /\ Init

OnConsole == part = "console" /\ UNCHANGED <<vars, part>>
OnDesktop == part = "desktop" /\ UNCHANGED <<consoleVars, part>>

InputNext == \/ OnConsole /\ ConsoleNext
             \/ OnDesktop /\ Next

(* The fairness of ConsoleSpec and of Desktop's Spec, each in its part.    *)
InputSpec == /\ InputInit /\ [][InputNext]_inputVars
             /\ WF_inputVars(OnConsole /\ Execute)
             /\ WF_inputVars(OnConsole /\ KeyboardHandler)
             /\ WF_inputVars(OnConsole /\ PacketByte)
             /\ WF_inputVars(OnDesktop /\ GuiTick)
=============================================================================
