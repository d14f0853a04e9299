\* Two hosts, one redirect, files of up to four lines of which three fit.
SPECIFICATION FairSpec
CONSTANTS
  h1 = h1
  h2 = h2
  Hosts = {h1, h2}
  Start = h1
  Follow = 1
  Cap = 4
  Chunk = 2
  Bot = "bot"
  MaxLines = 4
  Texts <- MCTexts
INVARIANTS
  HopsAreVetted
  ConclusiveIsTrue
PROPERTIES
  FetchOnce
  FetchEnds
