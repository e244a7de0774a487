SPECIFICATION RuntimeSpec
CONSTANTS
  MaxLength = 4
  MaxWord = 3
  Vocabularies <- TextVocabularies
  Calls <- AllCalls
INVARIANTS
  WordsAreRight
  EncodedRight
