SPECIFICATION Spec
CONSTANTS
  Layouts <- Two  Frames <- Settings  DefaultFrame = "f0"
  Elf <- Elfs  Json <- Jsons  JsonOf <- Beside  Symbols <- Variables
  OddFiles = TRUE  Wild <- Never  Writable <- Always
INVARIANTS
  BuffersLive
  ListFits
  KeysMatchLayout
  RestartRestores
