CONSTANTS
  p = p  q = q  it_CH = it_CH  it = it  en = en
  cats = cats  hello = hello  bye = bye
  Names = {a, b}
  Packages = {p, q}
  Locales = {it_CH, it, en}
  Language <- Countries
  Default = en
  Keys = {cats, hello, bye}
  Rules = {"one", "other"}
  Quantities = {1, 2}
  Classified = {it_CH, it}
  Module <- Files
  Classify <- Classes
  Plain = Plain  None = None  Nil = Nil  Raises = Raises
SPECIFICATION Spec
INVARIANTS TypeOK TextsKept AnswersOwn
PROPERTIES AnswersStable
CHECK_DEADLOCK FALSE
