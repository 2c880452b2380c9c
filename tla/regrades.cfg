\* Two transactions of one Student's result: drafts, Publication, two
\* Correction requests raised and decided by the one Administrator, who
\* teaches, and the scale saved as one that drops a label.
SPECIFICATION Spec
CONSTANTS
  None = None
  t1 = t1
  t2 = t2
  s1 = s1
  s2 = s2
  a = a
  whole = whole
  short = short
  r1 = r1
  r2 = r2
  Txns = {t1, t2}
  Students = {s1}
  Teachers = {p}
  Administrators = {p}
  Labels = {a}
  Notes = {n}
  Scales = {whole, short}
  LabelsOf <- LabelsOfEach
  FirstScale = whole
  Requests = {r1, r2}
  LastDay = 2
  MaxRosterMoves = 0
  MaxTermMoves = 1
  MaxVersions = 2
SYMMETRY TransactionsAlike
INVARIANTS ResultsBound
PROPERTIES SavedOverLoaded PublishedOnlyCorrected ImplementsResultLedger
