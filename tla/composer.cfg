SPECIFICATION Spec
CONSTANTS
  None = None
  Blank = blank
  NoExample = no_example
  Examples = {example}
  Typed = {typed, short}
  Askable = {example, typed}
  MaxRecent = 2
PROPERTY
  EditsSurvive
