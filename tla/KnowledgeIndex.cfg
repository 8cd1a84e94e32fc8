SPECIFICATION FairSpec
CONSTANTS
  Chunks = {"c1", "c2"}
  Sources = {"manual"}
  Tenants = {"us", "them"}
  Home <- MCHome
  Owner <- MCOwner
  Batches <- MCBatches
  Backends = {"faiss", "pgvector"}
  Models = {1, 2}
  TopK = 1
  Kept <- MCKept
  MaxAutoRetries = 1
  MaxEvents = 2
  Window = 4
  Least = 2
  Jieba = TRUE
  Values = {"12"}
  LongTexts = {"long"}
  Texts <- MCTexts
  Sizes = {4, 5}
  Overlaps = {0, 2, 3}
  Tables <- MCTables
  CsvFiles <- MCCsvFiles
  Merge <- MCMerge
INVARIANTS IndexSound NothingMissed AnswersOwnAndLive UploadWhole FusionSound
PROPERTIES Settles
CHECK_DEADLOCK FALSE
