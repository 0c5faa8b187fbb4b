SPECIFICATION Spec
CONSTANT MaxFd = 3
PROPERTY ListenerFailureHandled
