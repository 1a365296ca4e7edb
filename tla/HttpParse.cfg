\* Every text of up to seven pieces: a line with two spaces before the uri and
\* one after it, and its end, is among them.  And every path of a directory and a
\* file that are named by up to three dots and words.
SPECIFICATION HttpSpec
CONSTANTS
  UriLimit = 2
  MaxPieces = 7
  Words = {"html", "css", "name"}
  MaxWords = 3
INVARIANTS
  ThreeWordsJudged
  AcceptedShape
  NameDecides
PROPERTIES
  HeadersDoNotMatter
CHECK_DEADLOCK FALSE
