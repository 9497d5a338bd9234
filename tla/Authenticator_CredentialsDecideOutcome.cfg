\* ErrorCode.h is not in the sources: every pair of distinct values in
\* 0..2 for ERROR_CODE_ACCOUNT_AUTH_OK and ERROR_CODE_ACCOUNT_NOT_MATCH.
CONSTANTS
    ClientIDs <- MCClientIDs
    MaxReq = 2
    AuthOkValues = {0, 1, 2}
    NotMatchValues = {0, 1, 2}
SPECIFICATION Spec
INVARIANT CredentialsDecideOutcome
CHECK_DEADLOCK FALSE
