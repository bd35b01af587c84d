CONSTANTS
    Switch = {1, 2, 3, 4}
    Links <- Ring
    ROOM = 1
SPECIFICATION Spec
PROPERTY AllAgree
