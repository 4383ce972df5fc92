SPECIFICATION Spec
CONSTANTS
  WordSize = 64
  IntSize = 8
  HeaderSize = 1
  SavedSizes <- MCSavedSizes
  ForeignFiles <- MCForeignFiles
  Descriptors <- MCDescriptors
  Tensors <- MCTensors
  SeqLens <- MCSeqLens
  ByteSizes <- MCByteSizes
  BlockSizes <- MCBlockSizes
  DefaultBlock = 2
  None = none
  max_seq_len = 3
  vocab_size = 2
  PromptLens = {1, 2, 3}
  MaxNewTokens = {1, 2, 3}
INVARIANTS
  TypeOK
  TakenLiesInFile
  SectionsDecide
  DescriptorIsDense
  TensorChecksAgree
  GridCoversWork
  TokensFromWrittenLogits
