SPECIFICATION Spec
CONSTANTS
    MaxReplies = 2

PROPERTIES
    RequestAnswered
