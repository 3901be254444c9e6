\* One thread, which gives its pipe up and connects again as it likes. A client that
\* has made its MaxCalls calls stops.
SPECIFICATION FairSpec
CONSTANTS
  Threads = {t1}
  MaxCalls = 3
  MaxConnects = 2
  None = None  Raised = Raised  NoValues = NoValues
INVARIANTS TypeOK NeverBothWait
PROPERTIES AnswerIsOwn CallsEnd
CHECK_DEADLOCK FALSE
