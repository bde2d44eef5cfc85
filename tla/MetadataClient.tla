--------------------------- MODULE MetadataClient ---------------------------
(***************************************************************************)
(* One long poll (Watch() or WatchKey()) of metadata.Client: the hanging   *)
(* request with the client's etag, the retries of retry.RunWithResponse    *)
(* and the metadata server (external) as this client uses it.  Modules     *)
(* that use the client extend this one and say what becomes of a result.   *)
(***************************************************************************)
EXTENDS Naturals

CONSTANTS
    Values,       \* for each key a client may watch what it may hold; with Missing,
                  \* the key may not exist
    Missing,      \* the key does not exist: the server answers 404
    MaxAttempts,  \* backoffAttempts
    MayCancel,    \* whether the context may be cancelled
    MaxVersion,   \* bound: changes of each key
    MaxFaults     \* bound: failed requests and unreadable answers

ASSUME ClientAssumption ==
    /\ MaxAttempts \in Nat \ {0}
    /\ MaxVersion \in [DOMAIN Values -> Nat] /\ MaxFaults \in Nat
    /\ MayCancel \in BOOLEAN

VARIABLES
    key,       \* the key this client watches
    version,   \* the server's etag of the key
    value,     \* what the server holds under the key
    etag,      \* c.etag; 0 is defaultEtag
    pc,        \* where the call is
    attempt,   \* RunWithResponse's attempt
    body,      \* the response on its way, then the result
    err,       \* the call's error
    ctxEnded,   \* ctx.Done()
    faults     \* faults so far

serverVars == <<key, version, value>>
callVars == <<pc, attempt, body, err>>
clientVars == <<serverVars, etag, callVars, ctxEnded, faults>>

\* isMDS: errors.As() finds an *MDSReqError in the error.
Errors == [status : {"none", "404", "other", "ctx"}, isMDS : BOOLEAN]
NoError == [status |-> "none", isMDS |-> FALSE]

ClientInit ==
    /\ version = 1
    /\ key \in DOMAIN Values /\ value \in Values[key]
    /\ etag = 0
    /\ pc = "idle"
    /\ attempt = 0
    /\ body = value
    /\ err = NoError
    /\ ctxEnded = FALSE
    /\ faults = 0

ServerChange ==
    /\ version < MaxVersion[key]
    /\ version' = version + 1
    /\ value' \in Values[key] \ {value}
    /\ UNCHANGED <<key, etag, callVars, ctxEnded, faults>>

Call ==
    /\ pc = "idle"
    /\ pc' = "request"
    /\ attempt' = 0
    /\ err' = NoError
    /\ UNCHANGED <<serverVars, etag, body, ctxEnded, faults>>

\* RunWithResponse after a failed attempt.  Every error it returns is built
\* with fmt.Errorf("...%+v") and so is no MDSReqError any more; a done context
\* is noticed when it would sleep.
FailedAttempt(status) ==
    IF status = "404" \/ attempt + 1 >= MaxAttempts
    THEN pc' = "fail" /\ err' = [status |-> status, isMDS |-> FALSE]
    ELSE pc' = "sleep" /\ UNCHANGED err

\* Fault: a hanging request without timeout_sec.
AnswerOnChange ==
    /\ pc = "request" /\ ~ctxEnded /\ value # Missing
    /\ etag # version
    /\ etag' = version
    /\ body' = value
    /\ pc' = "body"
    /\ UNCHANGED <<serverVars, attempt, err, ctxEnded, faults>>

\* Status 200: the key changed since last_etag, or timeout_sec elapsed.  do()
\* keeps the etag before the body is read.
Answer ==
    /\ pc = "request" /\ ~ctxEnded /\ value # Missing
    /\ etag' = version
    /\ body' = value
    /\ pc' = "body"
    /\ UNCHANGED <<serverVars, attempt, err, ctxEnded, faults>>

NotFound ==
    /\ pc = "request" /\ ~ctxEnded /\ value = Missing
    /\ FailedAttempt("404")
    /\ UNCHANGED <<serverVars, etag, attempt, body, ctxEnded, faults>>

\* No connection, a client timeout, or any other status.
RequestFails ==
    /\ pc = "request" /\ ~ctxEnded
    /\ faults < MaxFaults
    /\ faults' = faults + 1
    /\ FailedAttempt("other")
    /\ UNCHANGED <<serverVars, etag, attempt, body, ctxEnded>>

\* The context's error is no 404 either: it is retried.
RequestCancelled ==
    /\ pc = "request" /\ ctxEnded
    /\ FailedAttempt("other")
    /\ UNCHANGED <<serverVars, etag, attempt, body, ctxEnded, faults>>

ReadBody ==
    /\ pc = "body"
    /\ pc' = "ok"
    /\ UNCHANGED <<serverVars, etag, attempt, body, err, ctxEnded, faults>>

ReadBodyFails ==
    /\ pc = "body"
    /\ \/ faults < MaxFaults /\ faults' = faults + 1
       \/ ctxEnded /\ UNCHANGED faults
    /\ FailedAttempt("other")
    /\ UNCHANGED <<serverVars, etag, attempt, body, ctxEnded>>

Backoff ==
    /\ pc = "sleep" /\ ~ctxEnded
    /\ attempt' = attempt + 1
    /\ pc' = "request"
    /\ UNCHANGED <<serverVars, etag, body, err, ctxEnded, faults>>

\* Fault: the sleep between two attempts ignores the context.
BackoffCancelledNever ==
    /\ pc = "sleep" /\ ctxEnded
    /\ attempt' = attempt
    /\ pc' = "request"
    /\ UNCHANGED <<serverVars, etag, body, err, ctxEnded, faults>>

BackoffCancelled ==
    /\ pc = "sleep" /\ ctxEnded
    /\ pc' = "fail"
    /\ err' = [status |-> "ctx", isMDS |-> FALSE]
    /\ UNCHANGED <<serverVars, etag, attempt, body, ctxEnded, faults>>

CancelWatch ==
    /\ MayCancel /\ ~ctxEnded
    /\ ctxEnded' = TRUE
    /\ UNCHANGED <<serverVars, etag, callVars, faults>>

\* What the call does by itself once started.
CallStep ==
    \/ Answer \/ NotFound \/ RequestFails \/ RequestCancelled
    \/ ReadBody \/ ReadBodyFails \/ Backoff \/ BackoffCancelled

ClientTypeOK ==
    /\ version \in 1..MaxVersion[key] \cup {1} /\ etag \in 0..version
    /\ key \in DOMAIN Values /\ {value, body} \subseteq Values[key]
    /\ pc \in {"idle", "request", "body", "sleep", "ok", "fail"}
    /\ attempt \in 0..(MaxAttempts - 1)
    /\ err \in Errors
    /\ ctxEnded \in BOOLEAN
    /\ faults \in 0..MaxFaults
=============================================================================
