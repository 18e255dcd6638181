SPECIFICATION FairSpec
CONSTANTS
  e1 = e1  r1 = r1  h1 = h1  h2 = h2
  None = None
  Absent = Absent
  Enrollments = {e1}
  Requests = {r1}
  Handlers = {h1, h2}
  BulkHandlers = {h1}
  Upserts <- MCDraft
  Bulks <- MCRepeated
  Proposals <- MCCorrection
INVARIANTS TypeOK GradesFollowTheLaw AuditTellsTheGrade
PROPERTIES ApprovalTakesEffect AlertsToldOrForetold ClosedSheetSettles
