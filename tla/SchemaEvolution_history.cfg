SPECIFICATION Spec
CONSTANTS
  None = None
  Public = "public"
  TableOrder <- Sorted
  KeyColumns <- WithKeys
  Namesakes <- ShortNames
  Projects <- SmallProjects
INVARIANTS Represented DatabaseMatches UpApplies DownReverts RangesReplay
