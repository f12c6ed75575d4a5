SPECIFICATION FairSpec
CONSTANTS
  Clients = {c1, c2}
  Addresses = {2, 3}
  Present = {2}
  NumFlags = 1
  FlagWords = {{}, {0}}
  PollTimeouts = {"zero", "finite", "never"}
  MaxLive <- MCMaxLive
  MaxNotes = 2
  MaxSessions = 2
  MaxTimers = 1
INVARIANTS NotesTypeOK TargetsAlive FlagsAgree NoNoteOverlooked NoteRepliesInStep
PROPERTIES NoteServiceSpec NotePollReturns
CHECK_DEADLOCK FALSE
