------------------------------ MODULE PartsMC -------------------------------
(***************************************************************************)
(* The parts of the kernel that keep state of their own and call none of   *)
(* each other, checked side by side with what the scheduler promises:      *)
(* `part` says which one a behaviour is of, and the others stay as they    *)
(* were at first.  The words and screens are small enough for their limits *)
(* to be reached in a few steps.                                           *)
(***************************************************************************)
EXTENDS RoundRobin, Contents, Ata, Pci, Terminal, Framebuffer, Placement

CONSTANT Part    \* the parts that are checked

\* What vfs_write writes
MCTexts == {<<"b", "c", "d">>}

\* Drawing calls may hang over every edge of a screen of 3 by 2 pixels.  A
\* sprite of 2 by 2 has one of the key's colour, and a glyph two lit bits.
MCLefts == -1..3
MCTops == -1..2
MCSprite == [p \in (0..1) \X (0..1) |-> IF p = <<1, 0>> THEN 9 ELSE IF p[1] = p[2] THEN 2 ELSE 3]
MCGlyph == {<<0, 0>>, <<1, 1>>}
MCGlyphCells == (0..1) \X (0..1)

\* Two corners of the screen, with both ends of each axis
MCPointed == {[x |-> 0, y |-> H - 1], [x |-> W - 1, y |-> 0]}

-----------------------------------------------------------------------------
VARIABLES g_calc_display, g_calc_acc, g_calc_op, g_calc_fresh, halted, sum
Calc == INSTANCE Calculator WITH Word <- 32, DisplaySize <- 4, Digits <- {0, 2, 3, 6}, MaxSum <- 5

VARIABLE args
Frame == INSTANCE ArgFrame WITH Letters <- {"a", "b"}, Name <- <<"b", "a">>, ARGMAX <- 3,
                                PageBytes <- 96, WordBytes <- 8, Alignment <- 16, MaxArgs <- 6

VARIABLE part
calculator == <<g_calc_display, g_calc_acc, g_calc_op, g_calc_fresh, halted, sum>>

-----------------------------------------------------------------------------
PartsInit == /\ part \in Part
             /\ QueueInit
             /\ ContentsInit /\ AtaInit /\ Calc!Init /\ TermInit /\ Frame!Init /\ FbInit
             /\ PlacementInit /\ PciInit
             /\ part # "terminal" => g_redirect_to_gui
             /\ part # "ata" => status = "BSY"
             /\ part # "pci" => \A a \in DOMAIN space : space[a] = Device({}, FALSE, TRUE)

HeapStep       == /\ part = "heap" /\ Next
                  /\ UNCHANGED <<calculator, termVars, ataVars, args, fbVars, placementVars, contents, pciVars, queueVars, part>>
CalculatorStep == /\ part = "calculator" /\ Calc!Next
                  /\ UNCHANGED <<vars, termVars, ataVars, args, fbVars, placementVars, contents, pciVars, queueVars, part>>
TerminalStep   == /\ part = "terminal" /\ TermNext
                  /\ UNCHANGED <<vars, calculator, ataVars, args, fbVars, placementVars, contents, pciVars, queueVars, part>>
AtaStep        == /\ part = "ata" /\ AtaNext
                  /\ UNCHANGED <<vars, calculator, termVars, args, fbVars, placementVars, contents, pciVars, queueVars, part>>
FrameStep      == /\ part = "frame" /\ Frame!Next
                  /\ UNCHANGED <<vars, calculator, termVars, ataVars, fbVars, placementVars, contents, pciVars, queueVars, part>>
FbStep         == /\ part = "framebuffer" /\ FbNext
                  /\ UNCHANGED <<vars, calculator, termVars, ataVars, args, placementVars, contents, pciVars, queueVars, part>>
WindowsStep    == /\ part = "windows" /\ PlacementNext
                  /\ UNCHANGED <<vars, calculator, termVars, ataVars, args, fbVars, contents, pciVars, queueVars, part>>
ContentsStep   == /\ part = "contents" /\ ContentsNext
                  /\ UNCHANGED <<calculator, termVars, ataVars, args, fbVars, placementVars, pciVars, queueVars, part>>
PciStep        == /\ part = "pci" /\ PciNext
                  /\ UNCHANGED <<vars, calculator, termVars, ataVars, args, fbVars, placementVars, contents, queueVars, part>>
QueueStep      == /\ part = "queue" /\ QueueNext
                  /\ UNCHANGED <<vars, calculator, termVars, ataVars, args, fbVars, placementVars, contents, pciVars, part>>

PartsNext == \/ HeapStep \/ CalculatorStep \/ TerminalStep \/ AtaStep \/ FrameStep
             \/ FbStep \/ WindowsStep \/ ContentsStep \/ PciStep \/ QueueStep

partsVars == <<vars, calculator, termVars, ataVars, args, fbVars, placementVars, contents, pciVars, queueVars, part>>
PartsSpec == PartsInit /\ [][PartsNext]_partsVars

-----------------------------------------------------------------------------
(* The properties of the parts that are instantiated; those of the others  *)
(* are checked under their own names.                                      *)

(* calc_press: the display shows the sum that was typed, and only a sum    *)
(* that left the word can stop the machine.                                *)
CalculatorSound == Calc!CalculatorRight

(* usermode_run_with_args: a program finds the words of its command line.  *)
FrameSound == Frame!FrameReadsBack
=============================================================================
