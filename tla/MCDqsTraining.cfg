\* Every record of eleven data delays and of twelve gate delays; room for three windows.
CONSTANTS
  Delays = 11
  Coarse = 3
  Fine = 4
  MinRun = 3
  Lo = 3
  Hi = 8
  Standard = 6
  Modulus = 64
SPECIFICATION Spec
INVARIANTS
  FindsWindow
  Safety
