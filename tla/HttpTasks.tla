------------------------------- MODULE HttpTasks -------------------------------
(****************************************************************************)
(* The HTTPGet and HTTPPost tasks (core/adapters/http.go): the request that *)
(* is built from a task's parameters, its attempts, and the reader that     *)
(* refuses a response longer than the limit.  The connection may fail       *)
(* before a request is written or after it, when the endpoint has handled   *)
(* it; a response arrives in any portions.  What a request and a response   *)
(* say is left out but for the length of their bodies.                      *)
(****************************************************************************)
EXTENDS Integers, SequencesExt

CONSTANTS
    HttpTaskSpecs,          \* the tasks: [method, URL, GET or POST, query, extPath, Body, data]
    HttpDefaultAttempts,    \* httpDefaultAttempts
    DefaultHTTPLimit,       \* Config.DefaultHTTPLimit
    LongestResponse         \* bound on the length of a response

ASSUME HttpAssumption ==
    /\ \A t \in HttpTaskSpecs : t.data \in Nat /\ (t.Body # <<>> => t.Body[1] \in Nat)
    /\ DefaultHTTPLimit \in Nat
    /\ LongestResponse \in Nat

VARIABLES
    httpTask,       \* the task that is performed
    httpRequest,    \* the request built from it
    unread,         \* what is left of the one buffer that holds the request's body
    attempts,       \* the attempts made
    handled,        \* history: how often the endpoint has handled the request
    response,       \* the response: its status, its length, what has arrived for sure
    mbr,            \* the maxBytesReader and how much ReadAll has of it
    httpOutput      \* the task's output

httpVars == <<httpTask, httpRequest, unread, attempts, handled, response, mbr, httpOutput>>

NoResponse == [status |-> 0, length |-> 0, buffered |-> 0]
NoReader == [remaining |-> 0, sawEOF |-> FALSE, got |-> 0]
Running == [status |-> "in_progress", length |-> 0, error |-> "none"]
HttpError(e) == [status |-> "errored", length |-> 0, error |-> e]

----------------------------------------------------------------------------
(* The request.  A text of parameters is a sequence of tokens.              *)

GetURL(t) == IF t.own # <<>> THEN t.own[1] ELSE t.URL

splitQueryString(token) == token \in {"=", "&"}

\* strings.FieldsFunc: the runs of tokens between separators, the empty ones dropped.
Fields(text) ==
    LET trimmed == SelectSeq(text, LAMBDA c : c # "?")
        step(acc, c) == CASE splitQueryString(c) -> Append(acc, <<>>)
                          [] OTHER -> Front(acc) \o <<Append(Last(acc), c)>>
    IN  SelectSeq(FoldLeft(step, <<<<>>>>, trimmed), LAMBDA f : f # <<>>)

\* buildValues: an odd number of fields is an error.
buildValues(fields) ==
    [ok |-> Len(fields) % 2 = 0,
     pairs |-> [i \in 1 .. Len(fields) \div 2 |-> <<fields[2 * i - 1], fields[2 * i]>>]]

QueryParameters(t) == buildValues(IF t.quoted THEN Fields(t.query) ELSE t.query)

keyExists(key, query) == \E p \in query : p[1] = key

\* appendQueryParams: the URL's own parameters win, and of several values of a
\* key only the first is taken.
appendQueryParams(query, params) ==
    query \union
    {params[i] : i \in {j \in DOMAIN params :
        /\ ~keyExists(params[j][1], query)
        /\ \A k \in 1 .. j - 1 : params[k][1] # params[j][1]}}

\* appendExtendedPath: path.Join cleans the path it joins.
appendExtendedPath(path, extPath) ==
    LET step(acc, segment) ==
            CASE segment \in {"", "."} -> acc
              [] segment = ".." -> IF acc = <<>> THEN acc ELSE Front(acc)
              [] OTHER -> Append(acc, segment)
    IN  FoldLeft(step, <<>>, path \o extPath)

\* HTTPGet.GetRequest, HTTPPost.GetRequest: the task's Body overrides its data.
GetRequest(t) ==
    [method |-> t.method,
     path |-> appendExtendedPath(GetURL(t).path, t.extPath),
     query |-> appendQueryParams(GetURL(t).query, QueryParameters(t).pairs),
     body |-> IF t.method = "GET" THEN 0
              ELSE IF t.Body # <<>> THEN t.Body[1] ELSE t.data]

----------------------------------------------------------------------------
(* A task starts; one whose parameters cannot be read never performs.       *)

HttpInit ==
    /\ httpTask \in {t \in HttpTaskSpecs : QueryParameters(t).ok}
    /\ httpRequest = GetRequest(httpTask)
    /\ unread = httpRequest.body
    /\ attempts = 0 /\ handled = 0
    /\ response = NoResponse /\ mbr = NoReader
    /\ httpOutput = Running

\* The clones of the request share its body, so what one attempt has written is
\* gone for the next, and the transport fails a body shorter than its length.
BodyIsWhole_Fresh == TRUE

BodyIsWhole == unread = httpRequest.body

Retrying == httpOutput = Running /\ response = NoResponse /\ attempts < HttpDefaultAttempts

\* withRetry gives up after the last attempt.
AttemptFails(left) ==
    /\ attempts' = attempts + 1
    /\ unread' = left
    /\ httpOutput' = IF attempts + 1 = HttpDefaultAttempts THEN HttpError("no answer")
                                                           ELSE Running
    /\ UNCHANGED <<httpTask, httpRequest, response, mbr>>

\* No connection, or one lost while the request is written.
ConnectionFails ==
    /\ Retrying
    /\ AttemptFails(unread) \/ AttemptFails(0)
    /\ UNCHANGED handled

BodyIsGone ==
    /\ Retrying
    /\ ~BodyIsWhole
    /\ AttemptFails(unread)
    /\ UNCHANGED handled

\* The endpoint has handled the request when the timeout or an error ends the attempt.
ResponseIsLost ==
    /\ Retrying
    /\ BodyIsWhole
    /\ handled' = handled + 1
    /\ AttemptFails(0)

\* The header of the response ends the attempt, and the deferred cancel the
\* context of its request: from here on only the part of the body that has
\* arrived is sure to be read.
ResponseArrives ==
    /\ Retrying
    /\ BodyIsWhole
    /\ handled' = handled + 1
    /\ attempts' = attempts + 1
    /\ unread' = 0
    /\ \E status \in {200, 404}, length \in 0 .. LongestResponse :
        \E buffered \in 0 .. length :
            response' = [status |-> status, length |-> length, buffered |-> buffered]
    /\ mbr' = [remaining |-> DefaultHTTPLimit, sawEOF |-> FALSE, got |-> 0]
    /\ UNCHANGED <<httpTask, httpRequest, httpOutput>>

----------------------------------------------------------------------------
(* maxBytesReader: ReadAll asks for any number of bytes at a time.          *)

Reading == httpOutput = Running /\ response # NoResponse

\* A reader with nothing remaining still asks for one byte, to tell the end of
\* the body from what is too much.
toRead(asked) == IF mbr.remaining = 0 THEN 1 ELSE Min({asked, mbr.remaining})

tooLarge_Never(n) == FALSE

\* A byte came though none was remaining.
tooLarge(n) == mbr.remaining = 0 /\ n > 0

Left == response.length - mbr.got

\* sendRequest: what an output is made of when the body ends.
HttpResult(got) ==
    IF response.status >= 400 THEN HttpError("status")
                              ELSE [status |-> "completed", length |-> got, error |-> "none"]

\* Some bytes, with the end of the body or before it.
Read ==
    /\ Reading
    /\ ~(mbr.remaining = 0 /\ mbr.sawEOF)
    /\ \E asked \in 1 .. LongestResponse + 1 :
        \E n \in 0 .. Min({toRead(asked), Left}) :
            \E ended \in {e \in BOOLEAN : (e => n = Left) /\ (n = 0 => e)} :
                LET kept == IF tooLarge(n) THEN 0 ELSE n
                IN  /\ mbr' = [remaining |-> Max({0, mbr.remaining - kept}),
                               sawEOF |-> ended,
                               got |-> mbr.got + kept]
                    /\ httpOutput' = IF tooLarge(n) THEN HttpError("too large")
                                     ELSE IF ended THEN HttpResult(mbr.got + n) ELSE Running
    /\ UNCHANGED <<httpTask, httpRequest, unread, attempts, handled, response>>

\* A read of what, be it the end, had not arrived when the context was cancelled.
ReadIsCancelled ==
    /\ Reading
    /\ mbr.got >= response.buffered
    /\ httpOutput' = HttpError("context canceled")
    /\ UNCHANGED <<httpTask, httpRequest, unread, attempts, handled, response, mbr>>

HttpNext ==
    \/ ConnectionFails
    \/ BodyIsGone
    \/ ResponseIsLost
    \/ ResponseArrives
    \/ Read
    \/ ReadIsCancelled

HttpSpec == HttpInit /\ [][HttpNext]_httpVars

----------------------------------------------------------------------------
\* A task never completes with a part of its response, nor with one above the
\* limit, and one within the limit is not refused as too large: the reader's
\* count, its probe and the portions agree on where the body ends.
ResultIsTheWholeResponse ==
    /\ httpOutput.status = "completed" =>
        /\ httpOutput.length = response.length
        /\ response.length <= DefaultHTTPLimit
        /\ response.status < 400
    /\ httpOutput.error = "too large" => response.length > DefaultHTTPLimit

\* The endpoint handles a post at most once, however often withRetry tries: the
\* attempts share one body, so none after the first that was handled is whole.
PostIsHandledOnce == httpRequest.body > 0 => handled <= 1

\* A completed task has the whole response, to a post that was handled once.
ResponseIsWhole == ResultIsTheWholeResponse /\ PostIsHandledOnce

\* What withRetry is for: an attempt after a failed one can still be answered.
\* It does not hold of a post, whose body is gone.
RetryMayBeAnswered ==
    Retrying => ENABLED ResponseArrives
=============================================================================
