\* Two connections, three logins, ERROR_CODE_ACCOUNT_AUTH_OK = 1 and
\* ERROR_CODE_ACCOUNT_NOT_MATCH = 0.  The run ends with the worker joined.
CONSTANTS
    ClientIDs <- MCClientIDs
    MaxReq = 3
    AuthOkValues = {1}
    NotMatchValues = {0}
SPECIFICATION Spec
INVARIANT TypeOK
INVARIANT AnswersInSubmissionOrder
INVARIANT AtMostOneAnswerAfterStop
PROPERTY LoginsEventuallyAnswered
PROPERTY StopReturns
PROPERTY AuthQueueRefined
CHECK_DEADLOCK FALSE
