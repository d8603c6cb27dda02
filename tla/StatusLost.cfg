SPECIFICATION StatusSpec
CONSTANTS
    Messages = {overspeed, stall}
INVARIANT
    RaisedMessagesAreShown
