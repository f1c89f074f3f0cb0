\* Two jobs, three requests and two unread lines on a connection; two seconds
\* for a response, one for a job.
SPECIFICATION ClientSpec
CONSTANTS
    MaxJobs = 2
    MaxLines = 2
    RequestSec = 2
    NotifySec = 1
INVARIANTS
    AcceptedMeansCredited
PROPERTIES
    JobsInOrder
    CallsReturn
