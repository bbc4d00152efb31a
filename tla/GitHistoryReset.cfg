SPECIFICATION HistorySpec

CONSTANT MaxHistory = 5

PROPERTY NoSilentOverwrite

CHECK_DEADLOCK FALSE
