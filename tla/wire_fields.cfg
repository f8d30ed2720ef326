SPECIFICATION WireSpec
CONSTANTS
  Values <- SmallValues
  Comms <- ShortAndLong
  FileNames <- ShortAndLongest
  Flags <- OpenFlags
  Addresses <- SomeAddresses
  Leftovers <- SomeBytes
  ContextReads <- BothOutcomes
INVARIANTS
  HeaderKept
  NothingInvented
