CONSTANTS
    MAX_CMD_LEN = 5
    HISTORY_SIZE = 2
    Chars = {"p"}
    MaxLines = 2

SPECIFICATION Spec

VIEW MCView

INVARIANT TypeOK
INVARIANT HistoryRecallExact
PROPERTY LineEditing
