----------------------------- MODULE ErrorCode -----------------------------
(***************************************************************************)
(* The error code and message of each thread (src/src/base/error_code.cpp) *)
(* and the text of a code.  Modules whose calls fail extend this one.      *)
(***************************************************************************)
EXTENDS Integers

CONSTANTS Threads, NULL

VARIABLES s_eErrorCode, s_strErrorMsg

errors == <<s_eErrorCode, s_strErrorMsg>>

\* The value of each enumerator.
ErrorCodes ==
    [kUnknown |-> -1, kSuccess |-> 0, kDebug |-> 1, kInfo |-> 2, kWarn |-> 3,
     kError |-> 4, kEvent |-> 5, kSystemCallError |-> 100,
     kThrowException |-> 101, kNoMemory |-> 102, kInvalidParam |-> 103,
     kInvalidState |-> 104, kInvalidCall |-> 105, kCallFailed |-> 106]

\* The entries of the map of texts.
s_pErrorStrMap ==
    {ErrorCodes.kUnknown, ErrorCodes.kSuccess, ErrorCodes.kDebug, ErrorCodes.kInfo,
     ErrorCodes.kWarn, ErrorCodes.kError, ErrorCodes.kEvent,
     ErrorCodes.kSystemCallError, ErrorCodes.kThrowException, ErrorCodes.kNoMemory,
     ErrorCodes.kInvalidParam, ErrorCodes.kInvalidState, ErrorCodes.kInvalidCall,
     ErrorCodes.kCallFailed}

\* A text is only told apart from the empty one, of a code that has no entry.
lldkGetErrorStr(e) == IF e \in s_pErrorStrMap THEN "text" ELSE ""

lldkGetErrorCode(t) == s_eErrorCode[t]

ErrorInit ==
    /\ s_eErrorCode = [t \in Threads |-> ErrorCodes.kSuccess]
    /\ s_strErrorMsg = [t \in Threads |-> NULL]

lldkSetErrorCode(t, e) == s_eErrorCode' = [s_eErrorCode EXCEPT ![t] = ErrorCodes[e]]

\* Messages are told apart by the thread that set them, NULL being "".
StoreMsg(t) == s_strErrorMsg' = [s_strErrorMsg EXCEPT ![t] = t]

\* lldkSetErrorMsg sets no code.  It returns one: 0 when the message is
\* stored, kInvalidParam for a null message, kThrowException without memory.
lldkSetErrorMsg(t) ==
    /\ StoreMsg(t) \/ UNCHANGED s_strErrorMsg
    /\ UNCHANGED s_eErrorCode
=============================================================================
