SPECIFICATION MailSpec
CONSTANTS
  page = page
  undefined = undefined
  boundary = boundary
  long = long
  plain = plain
  other = other
  mime = mime
  Procs = {a, b}
  Names = {undefined}
  Mails = {plain, other}
  Data = {plain, other}
  Size <- MCSize
  Spool <- MCSpool
  Allow = {"full", "badread", "kill"}
  MaxCalls = 2
  None = None
CHECK_DEADLOCK FALSE
INVARIANT MailSent

