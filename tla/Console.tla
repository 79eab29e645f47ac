------------------------------ MODULE Console -------------------------------
(***************************************************************************)
(* What comes in through the PS/2 controller and what the shell does with  *)
(* it: keyboard_handler (keyboard.cpp), the packet assembler of            *)
(* mouse_handler (mouse.cpp), and shell_process_char, which runs commands  *)
(* and scripts inside the keyboard's interrupt (shell.cpp, vfs.cpp).       *)
(*                                                                         *)
(* IRQ1 is in service while the shell is at work, so neither a scancode    *)
(* nor a byte of the mouse is taken until the command is done.             *)
(*                                                                         *)
(* Of a character the model keeps what the shell tells apart: the case of  *)
(* letters, and with it Caps Lock, is left out, and so is key_buffer,      *)
(* which nothing reads.  Of a packet it keeps the sync bit of its bytes;   *)
(* the buttons are in module Desktop.                                      *)
(***************************************************************************)
EXTENDS Vfs

CONSTANTS Keys,       \* the keys of the keyboard
          MaxHeld,    \* bound: keys held down at a time
          SHELL_MAX_COMMAND_LENGTH,
          Commands,   \* what a command line can say, see Effect
          Script      \* the commands in the lines of each file

ASSUME LengthAssumption == SHELL_MAX_COMMAND_LENGTH \in Nat \ {0}
ASSUME ScriptAssumption == \A file \in DOMAIN Script : Script[file] \in Seq(Commands)

VARIABLES held, scancodes,   \* the keyboard: keys down, scancodes not yet read
          modifiers,
          phase,             \* the mouse: which byte of a packet is next
          steady,            \* from now on the mouse streams without a fault
          packet_idx,
          buffer_pos, g_cwd,
          todo               \* commands to run: the line's, then each script's

keyboard == <<held, scancodes, modifiers>>
stream   == <<phase, packet_idx>>
shell    == <<buffer_pos, g_cwd, todo>>
consoleVars == <<keyboard, stream, steady, shell>>

ConsoleInit == /\ held = {}
               /\ scancodes = <<>>
               /\ modifiers = {}
               /\ phase = 0
               /\ steady = FALSE
               /\ packet_idx = 0
               /\ buffer_pos = 0
               /\ g_cwd = Root
               /\ todo = <<>>

Idle == todo = <<>>

-----------------------------------------------------------------------------
(* The keyboard.  The 0xE0 before some scancodes is one the handler does   *)
(* nothing with, so the keys it tells apart are not told apart here; and   *)
(* Print Screen is sent as a left Shift and a keypad star.                 *)

Down(code) == [code |-> code, down |-> TRUE]
Up(code)   == [code |-> code, down |-> FALSE]

CodeOf(key) == CASE key \in {"left shift", "right shift"} -> "shift"
                 [] key \in {"left ctrl", "right ctrl"}   -> "ctrl"
                 [] key \in {"left alt", "right alt"}     -> "alt"
                 [] OTHER -> key

MakeCodes(key)  == IF key = "print screen" THEN <<Down("shift"), Down("*")>>
                                           ELSE <<Down(CodeOf(key))>>
BreakCodes(key) == IF key = "print screen" THEN <<Up("*"), Up("shift")>>
                                           ELSE <<Up(CodeOf(key))>>

\* A key that is held down repeats.
Press(key) == /\ ~steady
              /\ scancodes = <<>>
              /\ key \in held \/ Cardinality(held) < MaxHeld
              /\ held' = held \union {key}
              /\ scancodes' = MakeCodes(key)
              /\ UNCHANGED <<modifiers, stream, steady, shell>>

Release(key) == /\ scancodes = <<>>
                /\ key \in held
                /\ held' = held \ {key}
                /\ scancodes' = BreakCodes(key)
                /\ UNCHANGED <<modifiers, stream, steady, shell>>

-----------------------------------------------------------------------------
(* The shell.                                                              *)

\* shell_process_char, for all but '\n', and one that fills the buffer
EditedToTheEnd(c) ==
  CASE c = "erase" -> IF buffer_pos > 0 THEN buffer_pos - 1 ELSE 0
    [] c = "text"  -> IF buffer_pos < SHELL_MAX_COMMAND_LENGTH THEN buffer_pos + 1
                      ELSE buffer_pos
    [] OTHER -> buffer_pos

EraseUnchecked(c) ==
  CASE c = "erase" -> buffer_pos - 1
    [] c = "text"  -> IF buffer_pos < SHELL_MAX_COMMAND_LENGTH - 1 THEN buffer_pos + 1
                      ELSE buffer_pos
    [] OTHER -> buffer_pos

Edited(c) ==
  CASE c = "erase" -> IF buffer_pos > 0 THEN buffer_pos - 1 ELSE 0
    [] c = "text"  -> IF buffer_pos < SHELL_MAX_COMMAND_LENGTH - 1 THEN buffer_pos + 1
                      ELSE buffer_pos
    [] OTHER -> buffer_pos

ShellProcessChar(c) ==
  \/ /\ c = "newline"
     /\ \E command \in Commands :
          /\ buffer_pos = 0 <=> command.name = ""
          /\ todo' = <<<<command>>>>
     /\ UNCHANGED <<buffer_pos, g_cwd>>
  \/ /\ c # "newline"
     /\ buffer_pos' = Edited(c)
     /\ UNCHANGED <<g_cwd, todo>>

\* The lines left to run when the first of the innermost script is taken.
Rest == IF Len(Head(todo)) = 1 THEN Tail(todo) ELSE <<Tail(Head(todo))>> \o Tail(todo)

\* The file `sh` was given, if it is one that has lines to run.
Lines(command) ==
  LET file == Lookup(command.path)
  IN  IF command.name = "sh" /\ file \in DOMAIN Script THEN Script[file] ELSE <<>>

\* shell_execute_no_prompt.  Commands other than cd and sh, the programs of
\* /bin among them, change nothing here.
Execute ==
  /\ todo # <<>>
  /\ LET command == Head(Head(todo))
         lines   == Lines(command)
     IN  /\ g_cwd' = IF command.name = "cd" THEN Cd(g_cwd, command.path) ELSE g_cwd
         /\ todo' = IF lines = <<>> THEN Rest ELSE <<lines>> \o Rest
  /\ buffer_pos' = IF todo' = <<>> THEN 0 ELSE buffer_pos
  /\ UNCHANGED <<keyboard, stream, steady>>

-----------------------------------------------------------------------------
(* keyboard_handler.                                                       *)

ModifierCodes == {"shift", "ctrl", "alt"}

\* The character: Ctrl-J is a newline, Ctrl-H a backspace, and Ctrl with
\* another letter nothing the shell knows.
CharOf(code) == CASE code = "enter" -> "newline"
                  [] code = "backspace" -> "erase"
                  [] code = "j" /\ "ctrl" \in modifiers -> "newline"
                  [] code = "h" /\ "ctrl" \in modifiers -> "erase"
                  [] code = "a" /\ "ctrl" \in modifiers -> "control"
                  [] OTHER -> "text"

\* A release that is not told from a press
ReleasedAsPressed(code) == modifiers \union (ModifierCodes \intersect {code})
ReleasedModifiers(code) == modifiers \ {code}

\* It goes to the program or to the window manager, or else to the shell.
KeyboardHandler ==
  /\ Idle
  /\ scancodes # <<>>
  /\ scancodes' = Tail(scancodes)
  /\ LET code == Head(scancodes).code
     IN  \/ /\ ~Head(scancodes).down
            /\ modifiers' = ReleasedModifiers(code)
            /\ UNCHANGED shell
         \/ /\ Head(scancodes).down
            /\ code \in ModifierCodes
            /\ modifiers' = modifiers \union {code}
            /\ UNCHANGED shell
         \/ /\ Head(scancodes).down
            /\ code \notin ModifierCodes
            /\ UNCHANGED modifiers
            /\ UNCHANGED shell \/ ShellProcessChar(CharOf(code))
  /\ UNCHANGED <<held, stream, steady>>

-----------------------------------------------------------------------------
(* The mouse.  mouse_init gives up waiting for an acknowledgement after    *)
(* 100 000 polls, so one may come later as a byte of the stream; and while *)
(* the shell is at work the mouse's own queue may overflow.                *)

\* mouse_handler on a byte, without the check of the first one
UncheckedByte(sync) == packet_idx' = (packet_idx + 1) % 3

MouseHandler(sync) ==
  packet_idx' = IF packet_idx = 0 /\ ~sync THEN 0 ELSE (packet_idx + 1) % 3

\* The first byte has the sync bit; the others are movement, with any bits.
PacketByte == /\ Idle
              /\ phase' = (phase + 1) % 3
              /\ \E sync \in BOOLEAN : /\ phase = 0 => sync
                                       /\ phase # 0 /\ steady => ~sync
                                       /\ MouseHandler(sync)
              /\ UNCHANGED <<keyboard, steady, shell>>

StrayByte == /\ Idle
             /\ ~steady
             /\ \E sync \in BOOLEAN : MouseHandler(sync)
             /\ UNCHANGED <<keyboard, phase, steady, shell>>

LostByte == /\ ~steady
            /\ phase' = (phase + 1) % 3
            /\ UNCHANGED <<keyboard, packet_idx, steady, shell>>

\* No byte is lost any more, nothing else is typed, and no byte of movement has
\* bit 3 set: of small ones 0 to 7 right or up, 9 to 16 left or down, and not
\* 1 to 8 left or down, which are the bytes 0xFF to 0xF8.
Steady == /\ ~steady
          /\ steady' = TRUE
          /\ UNCHANGED <<keyboard, stream, shell>>

-----------------------------------------------------------------------------

ConsoleNext == \/ \E key \in Keys : Press(key) \/ Release(key)
               \/ KeyboardHandler
               \/ Execute
               \/ PacketByte \/ StrayByte \/ LostByte
               \/ Steady

(***************************************************************************)
(* The CPU goes on with a command it has begun, IRQ1 and IRQ12 that are    *)
(* pending are delivered, and the mouse goes on moving.                    *)
(***************************************************************************)
ConsoleSpec == /\ ConsoleInit /\ [][ConsoleNext]_consoleVars
               /\ WF_consoleVars(Execute) /\ WF_consoleVars(KeyboardHandler) /\ WF_consoleVars(PacketByte)

-----------------------------------------------------------------------------

(* Every variable has its type.                                            *)
ConsoleTypeOK == /\ held \subseteq Keys
                 /\ \A i \in DOMAIN scancodes : scancodes[i].down \in BOOLEAN
                 /\ modifiers \subseteq ModifierCodes
                 /\ {phase, packet_idx} \subseteq 0..2
                 /\ steady \in BOOLEAN
                 /\ buffer_pos \in 0..SHELL_MAX_COMMAND_LENGTH
                 /\ g_cwd \in Nodes
                 /\ \A i \in DOMAIN todo : todo[i] \in Seq(Commands) /\ todo[i] # <<>>

(* No modifier is stuck: with all keys up and every scancode handled,      *)
(* Shift, Ctrl and Alt are off, though both of a kind set one bit, keys    *)
(* overlap and repeat, and Print Screen comes as a Shift of its own.       *)
NoStuckModifier == held = {} /\ scancodes = <<>> => modifiers = {}

(* The zero that ends the command line is stored inside command_buffer.    *)
LineFits == buffer_pos < SHELL_MAX_COMMAND_LENGTH

(* The shell is in a directory, and the path `pwd` prints leads back to    *)
(* it: vfs_lookup and vfs_path_of agree, wherever commands and scripts     *)
(* have taken it.                                                          *)
PwdLeadsBack == ConsoleTypeOK /\ g_cwd \in Dirs /\ Lookup(PathOf(g_cwd)) = g_cwd

(* "First byte must have bit 3 [...] set; if it doesn't, we resync the     *)
(* packet stream": once bytes neither get lost nor appear from nowhere,    *)
(* and the bytes of movement leave the bit clear (as `Steady` says, which  *)
(* a hand moving slowly to the left does not), the packets the driver      *)
(* assembles are the mouse's, and stay so.                                 *)
BackInStep == steady ~> [](packet_idx = phase)
=============================================================================
