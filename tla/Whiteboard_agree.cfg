SPECIFICATION BoardSpec
CONSTANTS
  t = t
  s = s
  a1 = a1
  b1 = b1
  Connections = {t, s}
  Teachers = {t}
  Strokes = {a1, b1}
  AuthorOf <- MCAuthorOf
  NoStroke = NoStroke
  MaxStrokes = 2
  MaxBacklog = 2
  MaxErrors = 1
INVARIANTS BoardTypeOK  
CHECK_DEADLOCK FALSE
