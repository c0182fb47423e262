SPECIFICATION MailFairSpec
CONSTANTS
  page = page
  undefined = undefined
  boundary = boundary
  long = long
  plain = plain
  other = other
  mime = mime
  Procs = {a, b}
  Names = {page, undefined, boundary}
  Mails = {plain, mime}
  Data = {long, short1, plain, mime}
  Size <- MCSize
  Spool <- MCSpool
  Allow = {"full", "badread", "kill"}
  MaxCalls = 3
  None = None
CHECK_DEADLOCK FALSE
INVARIANTS MailTypeOK WritesAlone OneVersion WriteStays MailIntact
PROPERTIES CallsReturn
