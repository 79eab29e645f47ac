SPECIFICATION InputSpec
CONSTANTS
  Keys = {"left shift", "right shift", "left ctrl", "a", "j", "h", "backspace", "enter", "print screen"}
  MaxHeld = 2
  SHELL_MAX_COMMAND_LENGTH = 3
  Commands <- MCCommands
  Script <- MCScript
  MAX_WINDOWS = 4
  Icons = {"TERMINAL", "FILES"}
  Clicked = {"home", "bin", "welcome.txt", "echo"}
  Part = {"console", "desktop"}
INVARIANTS NoStuckModifier LineFits PwdLeadsBack
           StackIsTheWindows DragIsHeld SelectionIsListed
PROPERTIES BackInStep PressReachesTick
