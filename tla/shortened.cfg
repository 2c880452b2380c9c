\* A Term shortened while a Publication of it waits, and one Student's Roster
\* membership ended with it.
SPECIFICATION Spec
CONSTANTS
  None = None
  t1 = t1
  t2 = t2
  s1 = s1
  s2 = s2
  a = a
  whole = whole
  short = short
  r1 = r1
  r2 = r2
  Txns = {t1, t2}
  Students = {s1, s2}
  Teachers = {p}
  Administrators = {}
  Labels = {a}
  Notes = {}
  Scales = {whole}
  LabelsOf <- WholeAlone
  FirstScale = whole
  Requests = {}
  LastDay = 2
  MaxRosterMoves = 1
  MaxTermMoves = 1
  MaxVersions = 1
SYMMETRY Alike
PROPERTIES PublicationWaits
