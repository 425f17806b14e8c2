-------------------------- MODULE CliSessionProofs --------------------------
(***************************************************************************)
(* The files that sessions leave on disk, and the runs they work on beside *)
(* the API, for any number of processes and request threads.               *)
(*                                                                         *)
(* Sessions invoke the nodes of MappingRun, so that its inductive          *)
(* invariant carries over: a build that starts over on an old state copies *)
(* a sound one. What is added is what the sessions hold themselves: the    *)
(* values a session is about to write are those of a run that is over, or  *)
(* of one that never began and now never will.                             *)
(***************************************************************************)
EXTENDS CliSession, MappingRunProofs

\* What a session is about to write, if the run's thread is `on` and its latest
\* checkpoint is `latest`.
Writable(values, on, latest) ==
    \/ Sound("end", values)
    \/ values = Fresh /\ on = "run" /\ latest = NoCheckpoint

\* What is in the file.
Written(holds, document, on, latest) ==
    /\ holds = "null" => on = "run" /\ latest = NoCheckpoint
    /\ holds = "document" =>
         /\ document \in Document
         /\ Published(document)
         /\ on = "golden-build" => Problems(document) = {}

SInv ==
    /\ IInv
    /\ SessionTypeOK
    /\ \A w \in Workers :
         /\ session[w].step = "finish" => Writable(session[w].result, thread, checkpoint)
         /\ session[w].step = "invoking" => reply[w] = "none"
    /\ checkpoint.next = "none" =>
         checkpoint = NoCheckpoint /\ \A w \in Workers : invocation[w].at = "idle"
    /\ Written(file.holds, file.document, thread, checkpoint)

-----------------------------------------------------------------------------
(* What a session step does to the run                                       *)

\* A node leaves a checkpoint, and a worker that it answers "completed" is that
\* of a run that is over.
LEMMA NodeLeaves ==
    ASSUME IInv, checkpoint.next # "none", NEW w \in Workers, Node(w)
    PROVE  /\ checkpoint'.next # "none"
           /\ \A v \in Workers \ {w} : /\ invocation'[v] = invocation[v]
                                       /\ reply'[v] = reply[v]
           /\ reply'[w] \in {reply[w], "pending_review", "failed", "completed"}
           /\ reply'[w] = "completed" /\ reply[w] # "completed" => checkpoint'.next = "end"
<1>1. CASE PauseForReview(w) \/ Raise(w)
  BY <1>1 DEF PauseForReview, Raise, Answer, IInv, TypeOK
<1>2. ASSUME NEW s, Proceed(w, s), invocation[w].at \in Nodes
      PROVE  /\ checkpoint'.next # "none"
             /\ \A v \in Workers \ {w} : /\ invocation'[v] = invocation[v]
                                         /\ reply'[v] = reply[v]
             /\ reply'[w] \in {reply[w], "completed"}
             /\ reply'[w] = "completed" /\ reply[w] # "completed"
                  => checkpoint'.next = "end"
  <2> DEFINE next == Successor(invocation[w].at, s)
  <2>1. next # "none"
    BY <1>2 DEF Successor, Nodes, RouteAfterMatchFields
  <2> HIDE DEF next
  <2>2. checkpoint'.next = next
    BY <1>2 DEF Proceed, next
  <2>3. CASE next = "end"
    BY <1>2, <2>1, <2>2, <2>3 DEF Proceed, Answer, IInv, TypeOK, next
  <2>4. CASE next # "end"
    BY <1>2, <2>1, <2>2, <2>4 DEF Proceed, IInv, TypeOK, next
  <2> QED
    BY <2>3, <2>4
<1> QED
  BY <1>1, <1>2 DEF Node, At, Nodes, LoadConfigNode, MatchTablesNode, MatchFieldsNode,
     HumanReviewNode, ApplyRulesNode, AssembleNode, ValidateNode

\* A checkpoint as it is, to be gone on from.
LEMMA CheckpointSound ==
    ASSUME IInv
    PROVE  /\ checkpoint.state \in GraphState
           /\ Sound("load_config", checkpoint.state)
           /\ checkpoint.next = "end" => Sound("end", checkpoint.state)
BY DEF IInv, Sound, Reviewed

\* Workers that stop leave the run's invariant.
LEMMA Stopped ==
    ASSUME IInv, UNCHANGED checkpoint,
           NEW stopped \in SUBSET Workers,
           invocation' = [w \in Workers |-> IF w \in stopped THEN Idle ELSE invocation[w]],
           reply' = [w \in Workers |-> IF w \in stopped THEN NoReply ELSE reply[w]]
    PROVE  IInv'
<1>1. TypeOK'
  BY FreshIdle DEF IInv, TypeOK, NoReply
<1>2. \A v \in Workers : Sound(invocation'[v].at, invocation'[v].state)
  BY FreshIdle DEF IInv
<1> QED
  BY <1>1, <1>2 DEF IInv, Sound

LEMMA StartBuildSound ==
    ASSUME SInv, NEW w \in Workers, StartBuild(w)
    PROVE  IInv'
<1> DEFINE i == [at |-> "load_config", state |-> checkpoint.state, verdicts |-> Null]
<1>1. /\ checkpoint' = [next |-> "load_config", state |-> checkpoint.state, writer |-> w,
                        interrupted |-> FALSE]
      /\ invocation' = [invocation EXCEPT ![w] = i]
      /\ reply' = [reply EXCEPT ![w] = NoReply]
  BY DEF StartBuild
<1>2. checkpoint.state \in GraphState /\ Sound("load_config", checkpoint.state)
  BY CheckpointSound DEF SInv
<1>3. TypeOK'
  BY <1>1, <1>2 DEF SInv, IInv, TypeOK, Nodes, NoReply
<1>4. \A v \in Workers : Sound(invocation'[v].at, invocation'[v].state)
  BY <1>1, <1>2 DEF SInv, IInv, TypeOK
<1>5. Sound(checkpoint'.next, checkpoint'.state)
  BY <1>1, <1>2
<1> QED
  BY <1>3, <1>4, <1>5 DEF IInv, Sound

-----------------------------------------------------------------------------
(* Steps                                                                     *)

SessionRecord == [step : {"idle", "invoking", "prompt", "finish"},
                  items : SUBSET Fields, result : GraphState]

LEMMA Forms ==
    /\ NoSession \in SessionRecord /\ NoSession.step = "idle"
    /\ Invoking \in SessionRecord /\ Invoking.step = "invoking"
    /\ \A items \in SUBSET Fields :
         Prompting(items) \in SessionRecord /\ Prompting(items).step = "prompt"
    /\ \A values \in GraphState :
         /\ Finishing(values) \in SessionRecord
         /\ Finishing(values).step = "finish" /\ Finishing(values).result = values
<1>1. Fresh \in GraphState
  BY FreshSound DEF Sound
<1> QED
  BY <1>1 DEF SessionRecord, NoSession, Invoking, Prompting, Finishing

LEMMA SameRun == IInv /\ UNCHANGED <<checkpoint, invocation, reply>> => IInv'
<1> SUFFICES ASSUME IInv, checkpoint' = checkpoint, invocation' = invocation, reply' = reply
             PROVE  IInv'
  OBVIOUS
<1>1. TypeOK'
  BY DEF IInv, TypeOK
<1>2. /\ Sound(checkpoint'.next, checkpoint'.state)
      /\ \A w \in Workers : Sound(invocation'[w].at, invocation'[w].state)
  BY DEF IInv
<1> QED
  BY <1>1, <1>2 DEF IInv, Sound

\* A step of w that does not touch the file keeps what the sessions hold, if it
\* leaves w where it may be and a run that has not begun stays so.
LEMMA SessionStep ==
    ASSUME SInv, IInv', NEW w \in Workers, NEW s \in SessionRecord,
           session' = [session EXCEPT ![w] = s],
           thread' = thread, file' = file,
           s.step = "finish" => Writable(s.result, thread, checkpoint'),
           s.step = "invoking" => reply'[w] = "none",
           \A v \in Workers \ {w} : reply'[v] = reply[v],
           checkpoint = NoCheckpoint /\ thread = "run" =>
             checkpoint' = checkpoint \/ (Alone /\ file = NoFile),
           checkpoint'.next = "none" =>
             checkpoint' = NoCheckpoint /\ \A v \in Workers : invocation'[v].at = "idle"
    PROVE  SInv'
<1>1. session \in [Workers -> SessionRecord] /\ thread \in {"run", "golden-build"}
  BY DEF SInv, SessionTypeOK, SessionRecord
<1>2. session' \in [Workers -> SessionRecord]
  BY <1>1
<1>3. SessionTypeOK'
  BY <1>2 DEF SInv, SessionTypeOK, IInv, SessionRecord
<1>4. \A v \in Workers :
        /\ session'[v].step = "finish" => Writable(session'[v].result, thread', checkpoint')
        /\ session'[v].step = "invoking" => reply'[v] = "none"
  <2> SUFFICES ASSUME NEW v \in Workers
               PROVE  /\ session'[v].step = "finish"
                           => Writable(session'[v].result, thread', checkpoint')
                      /\ session'[v].step = "invoking" => reply'[v] = "none"
    OBVIOUS
  <2>1. CASE v = w
    BY <1>1, <2>1
  <2>2. CASE v # w
    <3>1. session'[v] = session[v] /\ reply'[v] = reply[v]
      BY <1>1, <2>2
    <3>2. /\ session[v].step = "finish" => Writable(session[v].result, thread, checkpoint)
          /\ session[v].step = "invoking" => reply[v] = "none"
      BY DEF SInv
    <3>3. session[v].step = "finish" => ~ Alone
      BY DEF Alone
    <3> QED
      BY <3>1, <3>2, <3>3 DEF Writable
  <2> QED
    BY <2>1, <2>2
<1>5. Written(file'.holds, file'.document, thread', checkpoint')
  <2>1. Written(file.holds, file.document, thread, checkpoint)
    BY DEF SInv
  <2> QED
    BY <2>1 DEF Written, NoFile
<1> QED
  BY <1>3, <1>4, <1>5 DEF SInv

LEMMA BeginStep ==
    ASSUME SInv, NEW w \in Workers, Start(w)
    PROVE  SInv'
<1>1. /\ IInv
      /\ reply \in [Workers -> {"none", "pending_review", "completed", "failed"}]
      /\ checkpoint.next = "none" =>
           checkpoint = NoCheckpoint /\ \A v \in Workers : invocation[v].at = "idle"
  BY DEF SInv, IInv, TypeOK
<1>2. CASE StartRun(w)
  <2>1. IInv'
    BY <1>1, <1>2, RequestStep DEF StartRun, Request
  <2>2. /\ checkpoint'.next = "load_config"
        /\ reply' = [reply EXCEPT ![w] = "none"]
        /\ session' = [session EXCEPT ![w] = Invoking]
        /\ thread' = thread /\ file' = file
        /\ Alone /\ file = NoFile
    BY <1>2 DEF StartRun, RunMapping, Enter, Unnamed, NoReply
  <2> QED
    BY <1>1, <2>1, <2>2, Forms, SessionStep
<1>3. CASE StartBuild(w)
  <2>1. IInv'
    BY <1>3, StartBuildSound
  <2>2. /\ checkpoint'.next = "load_config"
        /\ reply' = [reply EXCEPT ![w] = "none"]
        /\ session' = [session EXCEPT ![w] = Invoking]
        /\ thread' = thread /\ file' = file
        /\ thread = "golden-build"
    BY <1>3 DEF StartBuild, Enter, NoReply
  <2> QED
    BY <1>1, <2>1, <2>2, Forms, SessionStep
<1>4. CASE StartResume(w)
  <2>1. /\ UNCHANGED <<checkpoint, invocation, reply>>
        /\ thread' = thread /\ file' = file
        /\ thread = "run"
    BY <1>4 DEF StartResume
  <2>2. IInv'
    BY <1>1, <2>1, SameRun
  <2>3. CASE Over /\ Enter(w, Finishing(checkpoint.state))
    <3>1. checkpoint.state \in GraphState
      BY <1>1, CheckpointSound
    <3>2. Writable(checkpoint.state, thread, checkpoint)
      BY <1>1, <2>1, <2>3, CheckpointSound DEF Over, Writable, NoCheckpoint
    <3>3. session' = [session EXCEPT ![w] = Finishing(checkpoint.state)]
      BY <2>3 DEF Enter
    <3> QED
      BY <1>1, <2>1, <2>2, <3>1, <3>2, <3>3, Forms, SessionStep
  <2>4. CASE Enter(w, Prompting(ItemsOf(checkpoint.state)))
    <3>1. ItemsOf(checkpoint.state) \in SUBSET Fields
      BY DEF ItemsOf
    <3>2. session' = [session EXCEPT ![w] = Prompting(ItemsOf(checkpoint.state))]
      BY <2>4 DEF Enter
    <3> QED
      BY <1>1, <2>1, <2>2, <3>1, <3>2, Forms, SessionStep
  <2> QED
    BY <1>4, <2>3, <2>4 DEF StartResume
<1> QED
  BY <1>2, <1>3, <1>4 DEF Start

LEMMA ActStep ==
    ASSUME SInv, NEW w \in Workers, Act(w)
    PROVE  SInv'
<1>1. /\ IInv
      /\ checkpoint.next = "none" =>
           checkpoint = NoCheckpoint /\ \A v \in Workers : invocation[v].at = "idle"
      /\ session \in [Workers -> SessionRecord]
      /\ reply \in [Workers -> {"none", "pending_review", "completed", "failed"}]
  BY DEF SInv, IInv, TypeOK, SessionTypeOK, SessionRecord
<1>2. ASSUME Node(w)
      PROVE  /\ IInv'
             /\ checkpoint.next # "none" /\ checkpoint # NoCheckpoint
             /\ checkpoint'.next # "none"
             /\ \A v \in Workers \ {w} : reply'[v] = reply[v]
             /\ reply'[w] \in {reply[w], "pending_review", "failed", "completed"}
             /\ reply'[w] = "completed" /\ reply[w] # "completed" =>
                  Sound("end", checkpoint'.state) /\ checkpoint'.state \in GraphState
  <2>1. invocation[w].at # "idle"
    BY <1>2 DEF Node, At, LoadConfigNode, MatchTablesNode, MatchFieldsNode, PauseForReview,
       HumanReviewNode, ApplyRulesNode, AssembleNode, ValidateNode
  <2>2. checkpoint.next # "none" /\ checkpoint # NoCheckpoint
    BY <1>1, <2>1 DEF NoCheckpoint
  <2>3. IInv'
    BY <1>1, <1>2, NodeStep
  <2>4. Sound(checkpoint'.next, checkpoint'.state) /\ checkpoint'.state \in GraphState
    BY <2>3 DEF IInv, Sound
  <2> QED
    BY <1>1, <1>2, <2>2, <2>3, <2>4, NodeLeaves
<1>3. CASE SessionNode(w)
  <2>1. /\ session[w].step = "invoking" /\ Node(w)
        /\ session' = [session EXCEPT ![w] = AfterNode(w)]
        /\ thread' = thread /\ file' = file
    BY <1>3 DEF SessionNode, Enter
  <2>2. reply[w] = "none"
    BY <2>1 DEF SInv
  <2> DEFINE s == AfterNode(w)
  <2>3. /\ s \in SessionRecord
        /\ s.step = "finish" => Sound("end", s.result)
        /\ s.step = "invoking" => reply'[w] = "none"
    <3>1. CASE reply'[w] = "pending_review"
      BY <3>1, Forms DEF AfterNode, ItemsOf
    <3>2. CASE reply'[w] = "completed"
      BY <1>2, <2>1, <2>2, <3>2, Forms DEF AfterNode
    <3>3. CASE reply'[w] = "failed"
      BY <3>3, Forms DEF AfterNode
    <3>4. CASE reply'[w] = "none"
      BY <1>1, <2>1, <3>4 DEF AfterNode
    <3> QED
      BY <1>2, <2>1, <2>2, <3>1, <3>2, <3>3, <3>4
  <2> HIDE DEF s
  <2> QED
    BY <1>2, <2>1, <2>3, SessionStep DEF s, Writable
<1>4. CASE Finish(w)
  <2>1. /\ session[w].step = "finish"
        /\ UNCHANGED <<checkpoint, invocation>> /\ thread' = thread
        /\ session' = [session EXCEPT ![w] = NoSession]
        /\ reply' = [reply EXCEPT ![w] = "none"]
    BY <1>4 DEF Finish, Enter, NoReply
  <2>2. IInv'
    <3>1. TypeOK'
      BY <1>1, <2>1 DEF IInv, TypeOK
    <3>2. /\ Sound(checkpoint'.next, checkpoint'.state)
          /\ \A v \in Workers : Sound(invocation'[v].at, invocation'[v].state)
      BY <1>1, <2>1 DEF IInv
    <3> QED
      BY <3>1, <3>2 DEF IInv, Sound
  <2>3. session' \in [Workers -> SessionRecord]
    BY <1>1, <2>1, Forms
  <2> DEFINE values == session[w].result
  <2>4. /\ Writable(values, thread, checkpoint) /\ values \in GraphState
        /\ Written(file.holds, file.document, thread, checkpoint)
        /\ file \in [holds : {"nothing", "null", "document"}, document : Document \cup {Null}]
        /\ thread \in {"run", "golden-build"}
    BY <1>1, <2>1 DEF SInv, SessionTypeOK, SessionRecord
  <2>5. /\ file' \in [holds : {"nothing", "null", "document"}, document : Document \cup {Null}]
        /\ Written(file'.holds, file'.document, thread', checkpoint')
    <3>1. CASE ~ Verified(values)
      <4>1. file' = file
        BY <1>4, <3>1 DEF Finish
      <4> QED
        BY <2>1, <2>4, <4>1
    <3>2. CASE Verified(values) /\ Sound("end", values)
      <4>1. /\ values.document \in Document /\ values.document # Null
            /\ Published(values.document)
            /\ values.report.ok => Problems(values.document) = {}
        BY <3>2, NullAssumption DEF Sound
      <4>2. thread = "golden-build" => Problems(values.document) = {}
        BY <3>2, <4>1 DEF Verified
      <4>3. file' = [holds |-> "document", document |-> values.document]
        BY <1>4, <3>2, <4>1 DEF Finish
      <4> HIDE DEF values
      <4> QED
        BY <2>1, <4>1, <4>2, <4>3 DEF Written
    <3>3. CASE Verified(values) /\ values = Fresh /\ thread = "run" /\ checkpoint = NoCheckpoint
      <4>1. values.document = Null
        BY <3>3 DEF Fresh
      <4>2. file' = [holds |-> "null", document |-> Null]
        BY <1>4, <3>3, <4>1 DEF Finish
      <4> QED
        BY <2>1, <3>3, <4>2 DEF Written
    <3> QED
      BY <2>4, <3>1, <3>2, <3>3 DEF Writable
  <2>6. \A v \in Workers :
          /\ session'[v].step = "finish" => Writable(session'[v].result, thread', checkpoint')
          /\ session'[v].step = "invoking" => reply'[v] = "none"
    <3> SUFFICES ASSUME NEW v \in Workers
                 PROVE  /\ session'[v].step = "finish"
                             => Writable(session'[v].result, thread', checkpoint')
                        /\ session'[v].step = "invoking" => reply'[v] = "none"
      OBVIOUS
    <3>1. /\ session[v].step = "finish" => Writable(session[v].result, thread, checkpoint)
          /\ session[v].step = "invoking" => reply[v] = "none"
      BY DEF SInv
    <3> QED
      BY <1>1, <2>1, <3>1, Forms
  <2>7. SessionTypeOK'
    BY <2>2, <2>1, <2>3, <2>4, <2>5 DEF SessionTypeOK, SessionRecord, IInv
  <2> QED
    BY <1>1, <2>1, <2>2, <2>5, <2>6, <2>7 DEF SInv
<1>5. CASE ApiNode(w)
  <2>1. /\ session[w].step = "idle" /\ Node(w)
        /\ session' = session /\ thread' = thread /\ file' = file
    BY <1>5 DEF ApiNode
  <2>2. session' = [session EXCEPT ![w] = session[w]] /\ session[w] \in SessionRecord
    BY <1>1, <2>1
  <2> QED
    BY <1>2, <2>1, <2>2, SessionStep
<1> QED
  BY <1>3, <1>4, <1>5 DEF Act

LEMMA DecideStep ==
    ASSUME SInv, NEW w \in Workers, Decide(w)
    PROVE  SInv'
<1> DEFINE verdicts(choice) == [f \in Fields |-> IF f \in session[w].items
                                               THEN <<choice[f]>> ELSE <<>>]
<1>1. /\ IInv
      /\ reply \in [Workers -> {"none", "pending_review", "completed", "failed"}]
      /\ thread' = thread /\ file' = file
  BY DEF SInv, IInv, TypeOK, Decide
<1>2. PICK choice \in [session[w].items -> Choices] :
        \/ ResumeMapping(w, verdicts(choice)) /\ Enter(w, Invoking)
        \/ ResumeCompleted(w) /\ Enter(w, Finishing(checkpoint.state))
  BY DEF Decide
<1>3. CASE ResumeMapping(w, verdicts(choice)) /\ Enter(w, Invoking)
  <2>1. verdicts(choice) \in AllVerdicts
    <3>1. \A f \in session[w].items : <<choice[f]>> \in Seq(Verdict)
      BY SessionAssumption
    <3>2. \A f \in Fields : verdicts(choice)[f] \in Seq(Verdict)
      BY <3>1
    <3> QED
      BY <3>2 DEF AllVerdicts
  <2> HIDE DEF verdicts
  <2>2. /\ checkpoint' = checkpoint /\ checkpoint.next \in Nodes
        /\ reply' = [reply EXCEPT ![w] = "none"]
        /\ session' = [session EXCEPT ![w] = Invoking]
    BY <1>3 DEF ResumeMapping, Enter, NoReply
  <2>3. checkpoint.next # "none" /\ checkpoint # NoCheckpoint
    BY <2>2 DEF Nodes, NoCheckpoint
  <2>4. IInv'
    BY <1>1, <1>3, <2>1, ResumeStep
  <2> QED
    BY <1>1, <2>2, <2>3, <2>4, Forms, SessionStep
<1>4. CASE ResumeCompleted(w) /\ Enter(w, Finishing(checkpoint.state))
  <2>1. /\ checkpoint' = checkpoint /\ checkpoint.next = "end"
        /\ reply' = [reply EXCEPT ![w] = "completed"]
        /\ session' = [session EXCEPT ![w] = Finishing(checkpoint.state)]
    BY <1>4 DEF ResumeCompleted, Enter
  <2>2. /\ checkpoint.state \in GraphState
        /\ Writable(checkpoint.state, thread, checkpoint)
        /\ checkpoint # NoCheckpoint
    BY <1>1, <2>1, CheckpointSound DEF Writable, NoCheckpoint
  <2>3. IInv'
    BY <1>1, <1>4, RequestStep DEF Request
  <2> QED
    BY <1>1, <2>1, <2>2, <2>3, Forms, SessionStep
<1> QED
  BY <1>2, <1>3, <1>4

LEMMA QuitStep ==
    ASSUME SInv, NEW w \in Workers, Quit(w)
    PROVE  SInv'
<1>1. /\ IInv
      /\ invocation \in [Workers -> [at : Nodes \cup {"idle"}, state : GraphState,
                                     verdicts : AllVerdicts \cup {Null}]]
      /\ reply \in [Workers -> {"none", "pending_review", "completed", "failed"}]
      /\ checkpoint.next = "none" =>
           checkpoint = NoCheckpoint /\ \A v \in Workers : invocation[v].at = "idle"
  BY DEF SInv, IInv, TypeOK
<1>2. /\ checkpoint' = checkpoint /\ thread' = thread /\ file' = file
      /\ invocation' = [invocation EXCEPT ![w] = Idle]
      /\ reply' = [reply EXCEPT ![w] = NoReply]
      /\ session' = [session EXCEPT ![w] = NoSession]
  BY DEF Quit, Enter
<1> DEFINE stopped == {w}
<1>3. /\ invocation' = [v \in Workers |-> IF v \in stopped THEN Idle ELSE invocation[v]]
      /\ reply' = [v \in Workers |-> IF v \in stopped THEN NoReply ELSE reply[v]]
      /\ stopped \in SUBSET Workers
  BY <1>1, <1>2
<1>4. IInv'
  <2> HIDE DEF stopped
  <2> QED
    BY <1>1, <1>2, <1>3, Stopped
<1>5. Idle.at = "idle"
  BY DEF Idle
<1> QED
  BY <1>1, <1>2, <1>4, <1>5, Forms, SessionStep

LEMMA ApiRequestStep ==
    ASSUME SInv, NEW w \in Workers, ApiRequest(w)
    PROVE  SInv'
<1>1. /\ IInv
      /\ session \in [Workers -> SessionRecord]
      /\ reply \in [Workers -> {"none", "pending_review", "completed", "failed"}]
      /\ checkpoint.next = "none" => checkpoint = NoCheckpoint
  BY DEF SInv, IInv, TypeOK, SessionTypeOK, SessionRecord
<1>2. /\ session[w].step = "idle"
      /\ checkpoint # NoCheckpoint \/ Unnamed
      /\ Request(w)
      /\ session' = session /\ thread' = thread /\ file' = file
  BY DEF ApiRequest
<1>3. IInv'
  BY <1>1, <1>2, RequestStep
<1>4. session' = [session EXCEPT ![w] = session[w]] /\ session[w] \in SessionRecord
  BY <1>1, <1>2
<1>5. /\ \A v \in Workers \ {w} : reply'[v] = reply[v]
      /\ \/ checkpoint' = checkpoint /\ checkpoint.next # "none"
         \/ checkpoint = NoCheckpoint /\ checkpoint'.next = "load_config"
  BY <1>1, <1>2 DEF Request, RunMapping, ResumeMapping, ResumeCompleted, Nodes
<1> QED
  BY <1>2, <1>3, <1>4, <1>5, SessionStep DEF Unnamed

LEMMA ApiCrashStep ==
    ASSUME SInv, ApiCrash
    PROVE  SInv'
<1> DEFINE stopped == {w \in Workers : session[w].step = "idle"}
<1>1. /\ IInv
      /\ checkpoint.next = "none" =>
           checkpoint = NoCheckpoint /\ \A v \in Workers : invocation[v].at = "idle"
  BY DEF SInv
<1>2. /\ checkpoint' = checkpoint /\ thread' = thread /\ file' = file /\ session' = session
      /\ invocation' = [w \in Workers |-> IF w \in stopped THEN Idle ELSE invocation[w]]
      /\ reply' = [w \in Workers |-> IF w \in stopped THEN NoReply ELSE reply[w]]
  BY DEF ApiCrash
<1>3. stopped \in SUBSET Workers
  OBVIOUS
<1>4. IInv'
  <2> HIDE DEF stopped
  <2> QED
    BY <1>1, <1>2, <1>3, Stopped
<1>5. SessionTypeOK'
  BY <1>2, <1>4 DEF SInv, SessionTypeOK, IInv
<1>6. \A w \in Workers :
        /\ session'[w].step = "finish" => Writable(session'[w].result, thread', checkpoint')
        /\ session'[w].step = "invoking" => reply'[w] = "none"
  BY <1>2 DEF SInv, NoReply
<1>7. checkpoint'.next = "none" =>
        checkpoint' = NoCheckpoint /\ \A w \in Workers : invocation'[w].at = "idle"
  BY <1>1, <1>2 DEF Idle
<1>8. Written(file'.holds, file'.document, thread', checkpoint')
  BY <1>2 DEF SInv
<1> QED
  BY <1>4, <1>5, <1>6, <1>7, <1>8 DEF SInv

LEMMA StutterStep == SInv /\ UNCHANGED sessionVars => SInv'
<1> SUFFICES ASSUME SInv, UNCHANGED sessionVars PROVE SInv'
  OBVIOUS
<1>1. /\ UNCHANGED <<checkpoint, invocation, reply>>
      /\ checkpoint' = checkpoint /\ invocation' = invocation /\ reply' = reply
      /\ thread' = thread /\ session' = session /\ file' = file
  BY DEF sessionVars
<1>2. IInv'
  BY <1>1, SameRun DEF SInv
<1>3. SessionTypeOK'
  BY <1>1, <1>2 DEF SInv, SessionTypeOK, IInv
<1>4. /\ \A w \in Workers :
           /\ session'[w].step = "finish" => Writable(session'[w].result, thread', checkpoint')
           /\ session'[w].step = "invoking" => reply'[w] = "none"
      /\ checkpoint'.next = "none" =>
           checkpoint' = NoCheckpoint /\ \A w \in Workers : invocation'[w].at = "idle"
      /\ Written(file'.holds, file'.document, thread', checkpoint')
  BY <1>1 DEF SInv
<1> QED
  BY <1>2, <1>3, <1>4 DEF SInv

-----------------------------------------------------------------------------
(* What sessions leave                                                       *)

\* The invariant of sessions and requests that share a run: every graph state they
\* hold is sound for its next node, every prompt is one the run had, and what was
\* written came from a finished run.
THEOREM SessionsInductive == SessionSpec => []SInv
<1>1. SessionInit => SInv
  <2> SUFFICES ASSUME SessionInit PROVE SInv
    OBVIOUS
  <2>1. /\ Init /\ thread \in {"run", "golden-build"}
        /\ session = [w \in Workers |-> NoSession] /\ file = NoFile
    BY DEF SessionInit
  <2>2. IInv
    BY <2>1, InitSound
  <2>3. SessionTypeOK
    BY <2>1, <2>2, Forms DEF SessionTypeOK, SessionRecord, IInv, NoFile
  <2>4. checkpoint.next = "none" =>
          checkpoint = NoCheckpoint /\ \A w \in Workers : invocation[w].at = "idle"
    BY <2>1 DEF Init, Idle
  <2> QED
    BY <2>1, <2>2, <2>3, <2>4, Forms DEF SInv, Written, NoFile
<1>2. SInv /\ [SessionNext]_sessionVars => SInv'
  BY BeginStep, ActStep, DecideStep, QuitStep, ApiRequestStep, ApiCrashStep, StutterStep
  DEF SessionNext
<1> QED
  BY <1>1, <1>2, PTL DEF SessionSpec

\* The variables of sessions keep their types, those of the run included.
THEOREM SessionsTyped == SessionSpec => []SessionTypeOK
BY SessionsInductive, PTL DEF SInv

\* What a session writes is a whole document, or null for a run that never began,
\* with any number of sessions and requests on the run and however stale their
\* prompts are (cli/main.py, 61-107).
THEOREM FilesAreSound == SessionSpec => []FileSound
<1>1. SInv => FileSound
  BY DEF SInv, Written, FileSound, Published
<1> QED
  BY <1>1, SessionsInductive, PTL

\* The golden file has each field once and no destination twice in a table, with
\* any number of builds on the one thread they share (build_golden.py, 29-54).
THEOREM GoldenIsTrusted == SessionSpec => []GoldenTrusted
<1>1. SInv => GoldenTrusted
  <2> SUFFICES ASSUME SInv, thread = "golden-build", file.holds = "document"
               PROVE  /\ \A f \in Fields : Len(file.document.ledger[f]) = 1
                      /\ \A f, g \in Fields :
                           /\ f # g
                           /\ TableOf[f] = TableOf[g]
                           /\ IsMapped(file.document.ledger[f][1])
                           => file.document.ledger[f][1].dst # file.document.ledger[g][1].dst
    BY DEF GoldenTrusted
  <2>1. /\ file.document \in Document
        /\ \A f \in Fields : file.document.ledger[f] # <<>>
        /\ Problems(file.document) = {}
    BY DEF SInv, Written, Published
  <2> QED
    BY <2>1, NoProblems
<1> QED
  BY <1>1, SessionsInductive, PTL

\* What sessions write is what an evaluation takes for granted of its documents:
\* complete, with a transform for each path; and the golden file is without problems
\* (run_eval.py, 52-72 and 126-135).
THEOREM FilesArePublished ==
    SessionSpec => [](file.holds = "document" =>
                        /\ file.document \in Document /\ Published(file.document)
                        /\ thread = "golden-build" => Problems(file.document) = {})
<1>1. SInv => (file.holds = "document" =>
                 /\ file.document \in Document /\ Published(file.document)
                 /\ thread = "golden-build" => Problems(file.document) = {})
  BY DEF SInv, Written
<1> QED
  BY <1>1, SessionsInductive, PTL

\* What the endpoints keep of a run they keep beside sessions: every field has
\* its outcome, and a reviewer's decisions are those that were sent.
THEOREM SessionsKeepFields == SessionSpec => []NoFieldLost
BY SessionsInductive, SoundNoFieldLost, PTL DEF SInv

\* Decisions at a prompt and decisions sent to the API never mix.
THEOREM SessionsHonour == SessionSpec => []VerdictsHonoured
BY SessionsInductive, SoundVerdicts, PTL DEF SInv

\* A document of a run that sessions and requests share accounts for every
\* destination.
THEOREM SessionsAccount == SessionSpec => []DestinationsAccounted
BY SessionsInductive, SoundDestinations, PTL DEF SInv
=============================================================================
