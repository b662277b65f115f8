\* A group of FTP data connections, which have no write_data callback.
CONSTANTS
    N = 2
    TimeOut = 1
    GroupWrites = FALSE
SPECIFICATION FairLoopSpec
PROPERTIES
    InterruptIsObeyed
\* do_perform_select returns.
CHECK_DEADLOCK FALSE
