SPECIFICATION Spec
CONSTANT MaxFd = 3
INVARIANTS TypeOK ResourcesAlive NothingLeftBehind
PROPERTIES SignalEnds FilterComesUp
