\* Two teams, one of them writable and with a material; two requests at a time.
CONSTANTS
  t1 = t1
  t2 = t2
  m1 = m1
  Teams = {t1, t2}
  Materials = {m1}
  TeamOf <- MCTeamOf
  First = t1
  Writable = {t1}
  None = None
  Requests = {r1, r2}
  NoRequest = NoRequest
SPECIFICATION FairSpec
INVARIANT PageIsOfItsTeam
PROPERTY RecordedEndIsShown
