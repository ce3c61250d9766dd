SPECIFICATION SpecInput
CONSTANTS
  Key = {"Escape", "Down", "Menu", "Enter"}
  Combination = {{"Menu"}, {"Escape"}, {"Escape", "Down"}}
  long_press_delay = 2
  combo_compensation = 1
  NoKey = "none"
  MaxSignals = 2
INVARIANTS
  NoGhostKeys
  KeyboardIsAsked
  KeyboardFollows
PROPERTIES
  OneActionPerHold
