SPECIFICATION SavesSpec
CONSTANTS
  t1 = t1
  t2 = t2
  carried = carried
  own = own
  Threads = {t1, t2}
  Names = {carried, own}
  Carried <- ArchivedStores
  Nil = Nil
  Index = Index
  MaxRecords = 2
  RefusedReads = {"index", "carried", "open"}
  Careless = FALSE
  MaxChanges = 2
  MaxRefusals = 2
  MaxSessions = 2
  MaxObjects = 2
  MaxOpen = 2
  Objects = {"file"}
  Keys = {"carried", "own"}
  Packaged <- Archive
  Data = {2}
  Bytes = {2}
  Zero = 0
  Leftovers = {"own"}
  None = None
  Absent = Absent
  MaxCells = 2
  MaxWrites = 2
  Segments <- AllSegments
  Encode <- Encoding
  Long = {"Long", "#B"}
  Fold <- IgnoresCase
  Temporary <- Temporaries
  SaveKeys <- AllKeys
  Titles <- AllTitles
  EarlierWrites <- WhenWritten
  MaxSaves = 4
INVARIANTS
  ReadsAnswerTheSave
  ListingIsComplete
  NoSaveIsLost
  
  NextSessionFindsTheSame
PROPERTIES
  RecordsAreNotCutShort
  OnlyTheTitleWrites
SYMMETRY ThreadSymmetry
