SPECIFICATION Spec
CONSTANT MaxClicks = 2
INVARIANT TypeOK
PROPERTY NoResurrection
PROPERTY TokenFollowsSession
PROPERTY UninvitedComesToRest
