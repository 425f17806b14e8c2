------------------------- MODULE ChatProviderProofs -------------------------
(***************************************************************************)
(* Type correctness of ChatProvider, that a failed call's error is its own,*)
(* that a service without a bad moment is reached, and how many requests a *)
(* call makes at most, for any services and any number of attempts.        *)
(***************************************************************************)
EXTENDS ChatProvider, TLAPS

CallType ==
    [phase : {"idle", "first", "renamed", "plain"}, json : BOOLEAN,
     param : Params, attempt : 0 .. Attempts, transients : 0 .. Attempts,
     error : Errors \cup {"none"}, text : BOOLEAN]

\* A failed attempt leaves a call record, with that attempt's error.
LEMMA FailedCall ==
    ASSUME TypeOK, NEW error \in Errors
    PROVE  /\ Counted(error) \in 0 .. Attempts
           /\ [call EXCEPT !.error = error, !.transients = Counted(error)] \in CallType
<1>1. Counted(error) \in 0 .. Attempts
  <2>1. call.transients \in 0 .. Attempts
    BY DEF TypeOK
  <2> QED
    BY <2>1, ProviderAssumption DEF Counted
<1>2. call \in CallType
  BY DEF TypeOK, CallType
<1> QED
  BY <1>1, <1>2 DEF CallType

\* The types of the variables are kept by every step of a provider.
THEOREM TypeCorrect == Spec => []TypeOK
<1>1. Init => TypeOK
  BY ProviderAssumption DEF Init, TypeOK, NoCall, Params, Results
<1>2. TypeOK /\ [Next]_vars => TypeOK'
  <2> SUFFICES ASSUME TypeOK, [Next]_vars PROVE TypeOK'
    OBVIOUS
  <2>1. CASE UNCHANGED vars
    BY <2>1 DEF TypeOK, vars
  <2>2. ASSUME NEW json \in BOOLEAN, Call(json) PROVE TypeOK'
    <3>1. 0 \in 0 .. Attempts /\ 1 \in 0 .. Attempts
      BY ProviderAssumption
    <3>2. [NoCall EXCEPT !.phase = "first", !.json = json, !.attempt = 1] \in CallType
      BY <3>1 DEF NoCall, CallType, Params
    <3> QED
      BY <2>2, <3>2 DEF TypeOK, CallType, Call, Results
  <2>3. ASSUME NEW content \in Contents, Answered(content) PROVE TypeOK'
    <3>1. Parsed(content) \in Results
      BY DEF Parsed, Results, Contents
    <3> QED
      BY <2>3, <3>1 DEF TypeOK, Answered, Return, Results
  <2>4. ASSUME NEW error \in Errors, Failed(error) PROVE TypeOK'
    <3> DEFINE failed == [call EXCEPT !.error = error, !.transients = Counted(error)]
    <3>1. failed \in CallType /\ failed.attempt = call.attempt
      BY FailedCall DEF TypeOK
    <3>2. CASE call.attempt < AttemptsIn(call.phase)
      <4>1. call' = [failed EXCEPT !.attempt = @ + 1] /\ UNCHANGED <<service, lastError, result>>
        BY <2>4, <3>2 DEF Failed, Retry
      <4>2. failed.attempt + 1 \in 0 .. Attempts
        BY <3>1, <3>2, ProviderAssumption DEF TypeOK, AttemptsIn
      <4> QED
        BY <3>1, <4>1, <4>2 DEF TypeOK, CallType
    <3>3. CASE ~ (call.attempt < AttemptsIn(call.phase))
      <4>1. GiveUp(error, failed) /\ UNCHANGED service
        BY <2>4, <3>3 DEF Failed
      <4>2. 1 \in 0 .. Attempts /\ call.param \in Params
        BY ProviderAssumption DEF TypeOK
      <4> HIDE DEF failed
      <4>3. \/ Start("renamed", "max_completion_tokens", failed) /\ UNCHANGED result
            \/ Start("plain", call.param, failed) /\ UNCHANGED result
            \/ Return("none", failed)
        BY <4>1 DEF GiveUp
      <4>4. call' \in CallType /\ result' \in Results
        BY <3>1, <4>2, <4>3 DEF TypeOK, CallType, Start, Return, Params, Results
      <4> QED
        BY <4>1, <4>4 DEF TypeOK, CallType, GiveUp
    <3> QED
      BY <3>2, <3>3
  <2> QED
    BY <2>1, <2>2, <2>3, <2>4 DEF Next, Request
<1> QED
  BY <1>1, <1>2, PTL DEF Spec

\* A call that got no answer leaves its own last error, whatever calls the same
\* provider object made before.
THEOREM OwnError == Spec => []ErrorIsOwn
<1>1. Init => ErrorIsOwn
  BY DEF Init, ErrorIsOwn, Ended, NoCall
<1>2. TypeOK /\ ErrorIsOwn /\ [Next]_vars => ErrorIsOwn'
  <2> SUFFICES ASSUME TypeOK, ErrorIsOwn, [Next]_vars PROVE ErrorIsOwn'
    OBVIOUS
  <2>1. CASE UNCHANGED vars
    BY <2>1 DEF ErrorIsOwn, Ended, vars
  <2>2. ASSUME NEW json \in BOOLEAN, Call(json) PROVE ErrorIsOwn'
    BY <2>2 DEF Call, NoCall, ErrorIsOwn, Ended
  <2>3. ASSUME NEW content \in Contents, Answered(content) PROVE ErrorIsOwn'
    BY <2>3 DEF TypeOK, Answered, Return, ErrorIsOwn, Ended
  <2>4. ASSUME NEW error \in Errors, Failed(error) PROVE ErrorIsOwn'
    <3> DEFINE failed == [call EXCEPT !.error = error, !.transients = Counted(error)]
    <3>1. failed \in CallType /\ failed.error = error /\ failed.phase = call.phase
      BY FailedCall DEF TypeOK
    <3>2. CASE call.attempt < AttemptsIn(call.phase)
      BY <2>4, <3>1, <3>2 DEF Failed, Retry, CallType, ErrorIsOwn, Ended
    <3>3. CASE ~ (call.attempt < AttemptsIn(call.phase))
      <4>1. GiveUp(error, failed)
        BY <2>4, <3>3 DEF Failed
      <4> QED
        BY <3>1, <4>1 DEF GiveUp, Start, Return, CallType, ErrorIsOwn, Ended
    <3> QED
      BY <3>2, <3>3
  <2> QED
    BY <2>1, <2>2, <2>3, <2>4 DEF Next, Request
<1> QED
  BY <1>1, <1>2, TypeCorrect, PTL DEF Spec

-----------------------------------------------------------------------------
(* Reaching a service *)

\* The Anthropic service takes the name its provider uses.
AnthropicTakesMaxTokens ==
    \A s \in Services : ~ s.azure => s.param = "max_tokens"

\* The first way of asking is right; one of the ways is.
Right == service.param = "max_tokens" /\ (service.json \/ ~ call.json \/ ~ service.azure)

Able == service.json \/ service.param = "max_tokens"

\* Where the first way is right only bad moments use up its attempts, and another
\* way is tried after as many; where it is not, the way that is tried next is.
Tried ==
    /\ call.phase # "idle" => ~ call.text
    /\ call.phase = "first" => call.param = "max_tokens"
    /\ call.phase = "first" /\ Right => call.transients >= call.attempt - 1
    /\ call.phase \in {"renamed", "plain"} =>
         /\ Right => call.transients = Attempts
         /\ Able /\ call.transients = 0 => Rejections = {}

\* What Counted adds up to.
LEMMA CountedUp ==
    ASSUME TypeOK, NEW error \in Errors
    PROVE  /\ error # "transient" => Counted(error) = call.transients
           /\ error = "transient" => Counted(error) >= 1
           /\ error = "transient" /\ call.transients >= Attempts - 1
                => Counted(error) = Attempts
           /\ error = "transient" /\ call.transients < Attempts
                => Counted(error) = call.transients + 1
           /\ call.transients = Attempts => Counted(error) = Attempts
           /\ Counted(error) = 0 => call.transients = 0
<1>1. call.transients \in 0 .. Attempts
  BY DEF TypeOK
<1> QED
  BY <1>1, ProviderAssumption DEF Counted

LEMMA RejectionsAre ==
    /\ "param" \in Rejections <=> call.param # service.param
    /\ "json" \in Rejections <=> JsonMode /\ ~ service.json
    /\ "transient" \notin Rejections
BY DEF Rejections

\* A failure of a call that is asked the right way is a bad moment.
LEMMA RightFailure ==
    ASSUME TypeOK, Tried, NEW error \in Rejections \cup {"transient"},
           call.phase = "first", Right
    PROVE  error = "transient"
<1>1. error \in {"param", "json", "transient"}
  BY DEF Rejections
<1> QED
  BY <1>1, RejectionsAre DEF Tried, Right, JsonMode

LEMMA RetryTried ==
    ASSUME TypeOK, Tried, NEW error \in Errors, Failed(error),
           call.attempt < AttemptsIn(call.phase)
    PROVE  Tried' /\ call'.phase # "idle"
<1> DEFINE failed == [call EXCEPT !.error = error, !.transients = Counted(error)]
<1>1. /\ call \in CallType /\ service' = service
      /\ call' = [failed EXCEPT !.attempt = @ + 1]
      /\ call.phase # "idle" /\ error \in Rejections \cup {"transient"}
  BY DEF Failed, Retry, TypeOK, CallType
<1>2. /\ call'.phase = call.phase /\ call'.param = call.param /\ call'.json = call.json
      /\ call'.attempt = call.attempt + 1 /\ call'.transients = Counted(error)
      /\ call'.text = call.text
  BY <1>1 DEF CallType
<1>3. Right' = Right /\ Able' = Able /\ Rejections' = Rejections
  BY <1>1, <1>2 DEF Right, Able, Rejections, JsonMode
<1>4. /\ call.attempt \in Nat /\ call.transients \in 0 .. Attempts
      /\ call.attempt < Attempts \/ call.phase = "plain"
  BY <1>1, ProviderAssumption DEF CallType, AttemptsIn
<1>5. call.phase = "first" /\ Right => Counted(error) >= call.attempt
  <2> SUFFICES ASSUME call.phase = "first", Right PROVE Counted(error) >= call.attempt
    OBVIOUS
  <2>1. error = "transient" /\ call.transients >= call.attempt - 1
    BY <1>1, RightFailure DEF Tried
  <2>2. CASE call.transients < Attempts
    BY <1>4, <2>1, <2>2, CountedUp
  <2>3. CASE ~ call.transients < Attempts
    <3>1. call.transients = Attempts
      BY <1>4, <2>3, ProviderAssumption
    <3> QED
      BY <1>4, <3>1, CountedUp, ProviderAssumption
  <2> QED
    BY <2>2, <2>3
<1>6. call'.attempt - 1 = call.attempt
  BY <1>2, <1>4
<1>7. call'.phase = "first" /\ Right' => call'.transients >= call'.attempt - 1
  <2> SUFFICES ASSUME call.phase = "first", Right PROVE call'.transients >= call'.attempt - 1
    BY <1>2, <1>3, Zenon
  <2>1. Counted(error) >= call.attempt
    BY <1>5
  <2> QED
    BY <1>2, <1>6, <2>1, Zenon
<1>8. call'.phase \in {"renamed", "plain"} =>
        /\ Right' => call'.transients = Attempts
        /\ Able' /\ call'.transients = 0 => Rejections' = {}
  BY <1>2, <1>3, CountedUp DEF Tried
<1> QED
  BY <1>1, <1>2, <1>7, <1>8 DEF Tried

LEMMA GiveUpTried ==
    ASSUME AnthropicTakesMaxTokens, TypeOK, Tried, NEW error \in Errors, Failed(error),
           ~ call.attempt < AttemptsIn(call.phase)
    PROVE  Tried' /\ Reached'
<1> DEFINE failed == [call EXCEPT !.error = error, !.transients = Counted(error)]
<1>1. /\ call \in CallType /\ service' = service /\ GiveUp(error, failed)
      /\ call.phase # "idle" /\ error \in Rejections \cup {"transient"}
  BY DEF Failed, TypeOK, CallType
<1>2. /\ failed \in CallType /\ failed.phase = call.phase /\ failed.param = call.param
      /\ failed.json = call.json /\ failed.transients = Counted(error)
      /\ failed.text = call.text /\ failed.attempt = call.attempt
  BY <1>1, FailedCall DEF CallType
<1>3. /\ service.azure \in BOOLEAN /\ service.param \in Params
      /\ ~ service.azure => service.param = "max_tokens"
  BY ProviderAssumption DEF TypeOK, AnthropicTakesMaxTokens
<1>4. Right => Counted(error) = Attempts
  <2>1. CASE call.phase = "first" /\ Right
    <3>1. call.transients >= call.attempt - 1 /\ error = "transient"
      BY <1>1, <2>1, RightFailure DEF Tried
    <3>2. call.attempt >= Attempts /\ call.attempt \in Nat /\ call.transients \in Nat
      BY <1>1, <2>1, ProviderAssumption DEF CallType, AttemptsIn
    <3>3. call.transients >= Attempts - 1
      BY <3>1, <3>2, ProviderAssumption
    <3> QED
      BY <3>1, <3>3, CountedUp
  <2>2. CASE call.phase # "first" /\ Right
    BY <1>1, <2>2, CountedUp DEF CallType, Tried
  <2> QED
    BY <2>1, <2>2
<1>5. Counted(error) = 0 => call.transients = 0 /\ error \in Rejections
  BY <1>1, CountedUp
<1>6. Able /\ Counted(error) = 0 => call.phase = "first"
  BY <1>1, <1>5 DEF Tried, CallType
<1> HIDE DEF failed
<1>7. CASE Start("renamed", "max_completion_tokens", failed)
             /\ service.azure /\ call.phase = "first" /\ error = "param"
  <2>1. /\ call'.phase = "renamed" /\ call'.param = "max_completion_tokens"
        /\ call'.json = call.json /\ call'.transients = Counted(error)
        /\ call'.text = call.text
    BY <1>2, <1>7 DEF Start, CallType
  <2>2. Right' = Right /\ Able' = Able
    BY <1>1, <2>1 DEF Right, Able
  <2>3. service.param = "max_completion_tokens"
    BY <1>1, <1>3, <1>7, RejectionsAre DEF Tried, Params
  <2>4. Able => Rejections' = {}
    BY <1>1, <2>1, <2>3 DEF Able, Rejections
  <2> QED
    BY <1>1, <1>4, <2>1, <2>2, <2>4 DEF Tried, Reached, Ended
<1>8. CASE Start("plain", call.param, failed) /\ ~ (call.phase = "first" /\ error = "param")
  <2>1. /\ call'.phase = "plain" /\ call'.param = call.param
        /\ call'.json = call.json /\ call'.transients = Counted(error)
        /\ call'.text = call.text
    BY <1>2, <1>8 DEF Start, CallType
  <2>2. Right' = Right /\ Able' = Able
    BY <1>1, <2>1 DEF Right, Able
  <2>3. Able /\ Counted(error) = 0 => Rejections' = {}
    <3> SUFFICES ASSUME Able, Counted(error) = 0 PROVE Rejections' = {}
      OBVIOUS
    <3>1. call.phase = "first" /\ error \in Rejections /\ error # "param"
      BY <1>5, <1>6, <1>8
    <3>2. ~ service.json
      BY <3>1, RejectionsAre DEF Errors
    <3>3. service.param = "max_tokens" /\ call.param = "max_tokens"
      BY <3>1, <3>2 DEF Able, Tried
    <3> QED
      BY <1>1, <2>1, <3>3 DEF Rejections, JsonMode
  <2> QED
    BY <1>1, <1>4, <2>1, <2>2, <2>3 DEF Tried, Reached, Ended
<1>9. CASE Return("none", failed)
             /\ ~ (service.azure /\ call.phase = "first" /\ error = "param")
             /\ ~ (service.azure /\ call.json /\ call.phase # "plain")
  <2>1. /\ call'.phase = "idle" /\ call'.json = call.json
        /\ call'.transients = Counted(error)
    BY <1>2, <1>9 DEF Return, CallType
  <2>2. ~ (Able /\ Counted(error) = 0)
    <3> SUFFICES ASSUME Able, Counted(error) = 0 PROVE FALSE
      OBVIOUS
    <3>1. call.phase = "first" /\ error \in Rejections
      BY <1>5, <1>6
    <3>2. CASE error = "param"
      <4>1. call.param = "max_tokens" /\ call.param # service.param
        BY <3>1, <3>2, RejectionsAre DEF Tried
      <4> QED
        BY <1>3, <1>9, <3>1, <3>2, <4>1
    <3>3. CASE error = "json"
      BY <1>9, <3>1, <3>3, RejectionsAre DEF JsonMode
    <3> QED
      BY <3>1, <3>2, <3>3, RejectionsAre DEF Errors
  <2>3. Counted(error) < Attempts => ~ Right
    BY <1>4, ProviderAssumption
  <2> QED
    BY <1>1, <2>1, <2>2, <2>3 DEF Tried, Reached, Ended, Able, Right
<1> QED
  BY <1>1, <1>7, <1>8, <1>9 DEF GiveUp

\* A service without a bad moment is reached, and two bad moments are survived
\* where the first way of asking is right, for any services and any number of
\* attempts (azure_foundry_provider.py, 84-112).
THEOREM ReachesService == ASSUME AnthropicTakesMaxTokens PROVE Spec => []Reached
<1>1. Init => Tried /\ Reached
  BY DEF Init, NoCall, Tried, Reached, Ended
<1>2. TypeOK /\ Tried /\ Reached /\ [Next]_vars => Tried' /\ Reached'
  <2> SUFFICES ASSUME TypeOK, Tried, Reached, [Next]_vars PROVE Tried' /\ Reached'
    OBVIOUS
  <2>1. CASE UNCHANGED vars
    BY <2>1 DEF vars, Tried, Reached, Ended, Right, Able, Rejections, JsonMode
  <2>2. ASSUME NEW json \in BOOLEAN, Call(json) PROVE Tried' /\ Reached'
    <3>1. /\ call'.phase = "first" /\ call'.param = "max_tokens" /\ call'.attempt = 1
          /\ call'.transients = 0 /\ call'.text = FALSE
      BY <2>2 DEF Call, NoCall
    <3> QED
      BY <3>1 DEF Tried, Reached, Ended
  <2>3. ASSUME NEW content \in Contents, Answered(content) PROVE Tried' /\ Reached'
    <3>1. call'.phase = "idle" /\ call'.text = TRUE
      BY <2>3 DEF Answered, Return, TypeOK
    <3> QED
      BY <3>1 DEF Tried, Reached
  <2>4. ASSUME NEW error \in Errors, Failed(error) PROVE Tried' /\ Reached'
    <3>1. CASE call.attempt < AttemptsIn(call.phase)
      BY <2>4, <3>1, RetryTried DEF Reached, Ended
    <3>2. CASE ~ call.attempt < AttemptsIn(call.phase)
      BY <2>4, <3>2, GiveUpTried
    <3> QED
      BY <3>1, <3>2
  <2> QED
    BY <2>1, <2>2, <2>3, <2>4 DEF Next, Request
<1> QED
  BY <1>1, <1>2, TypeCorrect, PTL DEF Spec

-----------------------------------------------------------------------------
(* A call is short                                                           *)

\* The requests a call may still make: Attempts under each name of the token
\* limit and one without JSON mode.
RequestsLeft ==
    CASE call.phase = "first"   -> 2 * Attempts + 2 - call.attempt
      [] call.phase = "renamed" -> Attempts + 2 - call.attempt
      [] call.phase = "plain"   -> 2 - call.attempt
      [] OTHER                  -> 0

\* The attempts of a way of asking are counted from 1 to what it allows.
InTurn == call.phase # "idle" => call.attempt \in 1 .. AttemptsIn(call.phase)

LEMMA LeftIs ==
    ASSUME TypeOK, InTurn
    PROVE  /\ RequestsLeft \in 0 .. 2 * Attempts + 1
           /\ call.phase # "idle" => RequestsLeft > 0
<1>1. Attempts \in Nat /\ Attempts > 0
  BY ProviderAssumption
<1>2. call.phase \in {"idle", "first", "renamed", "plain"}
  BY DEF TypeOK
<1>3. CASE call.phase = "idle"
  BY <1>1, <1>3 DEF RequestsLeft
<1>4. CASE call.phase # "idle"
  BY <1>1, <1>2, <1>4 DEF InTurn, AttemptsIn, RequestsLeft
<1> QED
  BY <1>3, <1>4

\* Every request uses one up, whether it is answered, repeated or given up.
LEMMA RequestCounts ==
    ASSUME TypeOK, InTurn, Request
    PROVE  InTurn' /\ RequestsLeft' < RequestsLeft
<1>1. Attempts \in Nat /\ Attempts > 0
  BY ProviderAssumption
<1>2. /\ call.phase \in {"idle", "first", "renamed", "plain"}
      /\ call \in CallType
  BY DEF TypeOK, CallType
<1>3. ASSUME NEW content \in Contents, Answered(content)
      PROVE  InTurn' /\ RequestsLeft' < RequestsLeft
  <2>1. call.phase # "idle" /\ call'.phase = "idle"
    BY <1>2, <1>3 DEF Answered, Return, CallType
  <2>2. RequestsLeft' = 0
    BY <2>1 DEF RequestsLeft
  <2> QED
    BY <2>1, <2>2, LeftIs DEF InTurn
<1>4. ASSUME NEW error \in Errors, Failed(error)
      PROVE  InTurn' /\ RequestsLeft' < RequestsLeft
  <2> DEFINE failed == [call EXCEPT !.error = error, !.transients = Counted(error)]
  <2>1. failed \in CallType /\ failed.attempt = call.attempt /\ failed.phase = call.phase
    BY <1>2, FailedCall DEF CallType
  <2>2. call.phase # "idle" /\ call.attempt \in 1 .. AttemptsIn(call.phase)
    BY <1>4 DEF Failed, InTurn
  <2>3. CASE call.attempt < AttemptsIn(call.phase)
    <3>1. call' = [failed EXCEPT !.attempt = @ + 1]
      BY <1>4, <2>3 DEF Failed, Retry
    <3> HIDE DEF failed
    <3>2. call'.phase = call.phase /\ call'.attempt = call.attempt + 1
      BY <2>1, <3>1 DEF CallType
    <3> QED
      BY <1>1, <1>2, <2>2, <2>3, <3>2 DEF InTurn, AttemptsIn, RequestsLeft
  <2>4. CASE ~ call.attempt < AttemptsIn(call.phase)
    <3>1. GiveUp(error, failed)
      BY <1>4, <2>4 DEF Failed
    <3> HIDE DEF failed
    <3>2. \/ call.phase = "first" /\ call'.phase = "renamed" /\ call'.attempt = 1
          \/ call.phase # "plain" /\ call'.phase = "plain" /\ call'.attempt = 1
          \/ call'.phase = "idle"
      BY <2>1, <3>1 DEF GiveUp, Start, Return, CallType
    <3>3. InTurn'
      BY <1>1, <3>2 DEF InTurn, AttemptsIn
    <3>4. RequestsLeft' < RequestsLeft
      <4>1. CASE call'.phase = "idle"
        <5>1. RequestsLeft' = 0
          BY <4>1 DEF RequestsLeft
        <5> QED
          BY <2>2, <5>1, LeftIs
      <4>2. CASE call'.phase # "idle"
        BY <1>1, <1>2, <2>2, <3>2, <4>2 DEF AttemptsIn, RequestsLeft
      <4> QED
        BY <4>1, <4>2
    <3> QED
      BY <3>3, <3>4
  <2> QED
    BY <2>3, <2>4
<1> QED
  BY <1>3, <1>4 DEF Request

\* A call makes at most 2 * Attempts + 1 requests: every step of it uses one up and
\* none is left when it returns, so that the ways of asking cannot be gone through
\* again (base.py, 28-53, and azure_foundry_provider.py, 84-112).
THEOREM CallsAreShort ==
    Spec => /\ [](RequestsLeft \in 0 .. 2 * Attempts + 1)
            /\ [][call.phase # "idle" => RequestsLeft' < RequestsLeft]_vars
<1>1. Init => InTurn
  BY DEF Init, NoCall, InTurn
<1>2. TypeOK /\ InTurn /\ [Next]_vars =>
        InTurn' /\ [call.phase # "idle" => RequestsLeft' < RequestsLeft]_vars
  <2> SUFFICES ASSUME TypeOK, InTurn, [Next]_vars
               PROVE  InTurn' /\ [call.phase # "idle" => RequestsLeft' < RequestsLeft]_vars
    OBVIOUS
  <2>1. CASE UNCHANGED vars
    BY <2>1 DEF vars, InTurn
  <2>2. ASSUME NEW json \in BOOLEAN, Call(json)
        PROVE  InTurn' /\ call.phase = "idle"
    BY <2>2, ProviderAssumption DEF Call, NoCall, InTurn, AttemptsIn
  <2> QED
    BY <2>1, <2>2, RequestCounts DEF Next
<1>3. TypeOK /\ InTurn => RequestsLeft \in 0 .. 2 * Attempts + 1
  BY LeftIs
<1> QED
  BY <1>1, <1>2, <1>3, TypeCorrect, PTL DEF Spec
=============================================================================
