SPECIFICATION PartsSpec
CONSTANTS
  Procs = {p1, p2, p3}
  Idle = idle
  Start = 1
  HeapSize = 28
  HeaderSize = 3
  Alignment = 2
  Requests = {1, 2, 3, 6, 9}
  Files = {"notes", "demo"}
  Letters = {"a"}
  Texts <- MCTexts
  FirstCap = 2
  MaxLen = 4
  ClientSize = 3
  Sectors = {1, 2}
  Sector = {"blank", "text"}
  Blank = "blank"
  LastBus = 1
  LastDevice = 1
  LastFunction = 2
  MaxDevices = 5
  Rows = 2
  Cols = 4
  TabStop = 2
  Glyphs = {"a"}
  MaxLines = 3
  width = 3
  height = 2
  pitch_px = 4
  Lefts <- MCLefts
  Tops <- MCTops
  Breadths = {0, 1, 2, 3, 4}
  Sprite <- MCSprite
  SpriteW = 2
  SpriteH = 2
  SpriteKey = 9
  Glyph <- MCGlyph
  GlyphCells <- MCGlyphCells
  Scales = {2}
  Icons = {"FILES", "CALCULATOR"}
  FromFiles = {"EDITOR"}
  W = 1280
  H = 800
  Pointed <- MCPointed
  Part = {"heap", "calculator", "terminal", "ata", "frame", "framebuffer", "windows", "contents", "pci", "queue"}
INVARIANTS QueueOnce CpuToTheLiving
           Tiled AllocationsApart Coalesced
           CalculatorSound TerminalRight TrueMeansDone
           FrameSound ClipExact Reachable
           TextKept EachFunctionOnce
PROPERTY NoOvertaking
CHECK_DEADLOCK FALSE
