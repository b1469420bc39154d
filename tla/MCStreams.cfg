SPECIFICATION MCSpec
CONSTANTS
  Nil = Nil
  call1 = call1
  Other = Other
  NoObject = NoObject
  Calls = {call1}
  Kinds = {"readerAt", "stream", "copy"}
  Conditions = {"overwrite", "create", "match"}
  Size = 11
  Base = 1
  DefaultPart = 1
  MinPart = 2
  MaxParts = 4
  Concurrency = 3
INVARIANTS
  UploadsTidy BytesTrue AnswersTrue DiffTrue
PROPERTY StaysOut
CHECK_DEADLOCK FALSE
