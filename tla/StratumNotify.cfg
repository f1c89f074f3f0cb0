SPECIFICATION ClientSpec
CONSTANTS
    MaxJobs = 2
    MaxLines = 2
    RequestSec = 2
    NotifySec = 1
PROPERTY NotifyBuffered
