SPECIFICATION Spec
CONSTANTS
  Sources <- SmallSources
  Names <- ParserNames
INVARIANTS
  TypeOK
  EveryTokenParsed
  CallsAreValid
  SignaturesDescribe
  UndefinedMeansNowhere
PROPERTIES
  ParseEnds
