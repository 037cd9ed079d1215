\* Three uploads: one, and two that resume.
SPECIFICATION FairSpec
CONSTANTS
    NoUpload = NoUpload
    Uploads = {u1, u2, u3}
    Size = 2
INVARIANT TransfersAsAsked
PROPERTY ResumeContinues
CHECK_DEADLOCK FALSE
