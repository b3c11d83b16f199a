\* Every ranking, book, sector map and correlation pattern of three names.
CONSTANTS
  a = a
  b = b
  c = c
  tech = tech
  NoSector = NoSector
  Tickers = {a, b, c}
  Sectors = {tech}
  ShortlistSize = 2
  MaxNamesPerSector = 2
  DailyPicksCount = 1
SPECIFICATION Spec
INVARIANTS
  SectorsAreCapped
  AcceptedAreSpread
  ExclusionsAreJustified
  PicksAreTheBest
SYMMETRY TickerSymmetry
