---------------------------- MODULE ChatProvider ----------------------------
(***************************************************************************)
(* A provider object over successive calls of complete_json and            *)
(* complete_text: with_retry and extract_json of app/providers/base.py, as *)
(* used by anthropic_provider.py and azure_foundry_provider.py. The Azure  *)
(* provider tries again under the newer name of the token limit, and once  *)
(* without JSON mode. The backoff only delays; the vendor's service is     *)
(* external: what it accepts is fixed, when it has a bad moment is not.    *)
(***************************************************************************)
EXTENDS Integers

CONSTANTS
    Services,   \* what may be behind the provider
    Attempts    \* with_retry's default number of attempts

Params == {"max_tokens", "max_completion_tokens"}
Errors == {"param", "json", "transient"}

\* What a service answers with, before and after extract_json.
Contents == {"empty", "prose", "object", "wrapped", "array"}
Results == Contents \cup {"none"}

ASSUME ProviderAssumption ==
    /\ Services \subseteq [azure : BOOLEAN, param : Params, json : BOOLEAN]
    /\ Attempts \in Nat \ {0}

VARIABLES
    service,    \* the service behind this provider
    call,       \* the call in progress or last made
    lastError,  \* provider.last_error
    result      \* what the last call returned

vars == <<service, call, lastError, result>>

NoCall == [phase |-> "idle", json |-> FALSE, param |-> "max_tokens", attempt |-> 0,
           transients |-> 0, error |-> "none", text |-> FALSE]

TypeOK ==
    /\ service \in Services
    /\ call \in [phase : {"idle", "first", "renamed", "plain"}, json : BOOLEAN,
                 param : Params, attempt : 0 .. Attempts, transients : 0 .. Attempts,
                 error : Errors \cup {"none"}, text : BOOLEAN]
    /\ lastError \in Errors \cup {"none"}
    /\ result \in Results

Init ==
    /\ service \in Services
    /\ call = NoCall
    /\ lastError = "none"
    /\ result = "none"

-----------------------------------------------------------------------------

Call(json) ==
    /\ call.phase = "idle"
    /\ call' = [NoCall EXCEPT !.phase = "first", !.json = json, !.attempt = 1]
    /\ result' = "none"
    /\ UNCHANGED <<service, lastError>>

\* Only the phases before "plain" ask for JSON mode, of Azure only.
JsonMode == service.azure /\ call.json /\ call.phase # "plain"

\* Why the service would reject the request; it names one reason.
Rejections ==
    {e \in {"param", "json"} : IF e = "param" THEN call.param # service.param
                                              ELSE JsonMode /\ ~ service.json}

\* extract_json: json.loads, or the first {...} in the text.
Parsed(content) ==
    CASE content \in {"empty", "prose"} -> "none"
      [] content = "wrapped" -> "object"
      [] OTHER -> content

Return(answer, changed) ==
    /\ result' = answer
    /\ call' = [changed EXCEPT !.phase = "idle"]

Answered(content) ==
    /\ call.phase # "idle"
    /\ Rejections = {}
    /\ Return(IF call.json THEN Parsed(content) ELSE content, [call EXCEPT !.text = TRUE])
    /\ UNCHANGED <<service, lastError>>

\* Mutants: the last attempt is not made; one attempt too many is.
AttemptsShort(phase) == IF phase = "plain" THEN 1 ELSE Attempts - 1
AttemptsLong(phase) == IF phase = "plain" THEN 1 ELSE Attempts + 1

AttemptsIn(phase) == IF phase = "plain" THEN 1 ELSE Attempts

\* Mutant: the attempts are not counted.
RetryForever(failed) == call' = failed

Retry(failed) == call' = [failed EXCEPT !.attempt = @ + 1]

Start(phase, param, failed) ==
    call' = [failed EXCEPT !.phase = phase, !.param = param, !.attempt = 1]

\* Mutant: the error of the plain request is not kept.
GiveUpSilently(error, failed) ==
    /\ lastError' = IF call.phase = "plain" THEN lastError ELSE error
    /\ IF service.azure /\ call.phase = "first" /\ error = "param"
       THEN Start("renamed", "max_completion_tokens", failed) /\ UNCHANGED result
       ELSE IF service.azure /\ call.json /\ call.phase # "plain"
       THEN Start("plain", call.param, failed) /\ UNCHANGED result
       ELSE Return("none", failed)

\* with_retry is out of attempts: the last exception is kept, and the provider
\* goes on to the next way of asking, if it has one.
GiveUp(error, failed) ==
    /\ lastError' = error
    /\ IF service.azure /\ call.phase = "first" /\ error = "param"
       THEN Start("renamed", "max_completion_tokens", failed) /\ UNCHANGED result
       ELSE IF service.azure /\ call.json /\ call.phase # "plain"
       THEN Start("plain", call.param, failed) /\ UNCHANGED result
       ELSE Return("none", failed)

\* The bad moments of this call, counted up to Attempts.
Counted(error) ==
    IF error = "transient" /\ call.transients < Attempts
    THEN call.transients + 1 ELSE call.transients

Failed(error) ==
    /\ call.phase # "idle"
    /\ error \in Rejections \cup {"transient"}
    /\ LET failed == [call EXCEPT !.error = error,
                                  !.transients = Counted(error)]
       IN  IF call.attempt < AttemptsIn(call.phase)
           THEN Retry(failed) /\ UNCHANGED <<lastError, result>>
           ELSE GiveUp(error, failed)
    /\ UNCHANGED service

Request ==
    \/ \E content \in Contents : Answered(content)
    \/ \E error \in Errors : Failed(error)

Next == Request \/ \E json \in BOOLEAN : Call(json)

Spec == Init /\ [][Next]_vars

\* A request to the service ends, in an answer or an exception.
FairSpec == Spec /\ WF_vars(Request)

-----------------------------------------------------------------------------
(* Properties *)

Ended == call.phase = "idle" /\ call.attempt > 0

\* A service that has no bad moment is always reached, whichever of the two
\* names of the token limit it takes and whether or not it knows JSON mode, as
\* long as it does not lack both; and two bad moments are survived where the
\* first way of asking is right (azure_foundry_provider.py, 84-112).
Reached ==
    Ended =>
        /\ call.transients = 0 /\ (service.json \/ service.param = "max_tokens")
             => call.text
        /\ call.transients < Attempts /\ service.param = "max_tokens"
             /\ (service.json \/ ~ call.json \/ ~ service.azure)
             => call.text

\* A call that got no answer leaves the error of its own last request, never
\* that of an earlier call (base.py, 41-53; read by selftest.py, 25-38).
ErrorIsOwn == Ended /\ ~ call.text => lastError = call.error

\* Every call returns, however often the service fails (base.py, 28-53).
CallReturns == call.phase # "idle" ~> call.phase = "idle"

-----------------------------------------------------------------------------
(* What comments and documents of the repository say, and the code does not  *)

\* README.md:217-221: up to three attempts, so that a transient error does not
\* demote a run; here one transient error of a service that takes the newer
\* name of the token limit, and knows JSON mode.
OneBlipSurvived ==
    Ended /\ call.transients = 1 /\ service.json => call.text
=============================================================================
