\* One user, three session ids: what an Event::Custom does with nothing in flight.
SPECIFICATION Spec
CONSTANTS
    Sessions = {s1, s2, s3}
    History = {s1}
    None = None
PROPERTY IdleScreenKeepsSession
CHECK_DEADLOCK FALSE
