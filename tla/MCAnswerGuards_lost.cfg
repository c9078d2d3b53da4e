SPECIFICATION AnswerSpec
INVARIANT DraftIsNeverLost
CHECK_DEADLOCK FALSE
