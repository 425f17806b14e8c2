----------------------------- MODULE CliSession -----------------------------
(***************************************************************************)
(* Sessions of the command line (app/cli/main.py), of the golden fixture   *)
(* builder (app/evals/build_golden.py) and of a fresh evaluation run       *)
(* (run_fresh of app/evals/run_eval.py) over the graph of MappingRun.      *)
(*                                                                         *)
(* A session is a process of its own over the same checkpoints as the API: *)
(* it invokes the graph, prompts while the invocation pauses, and writes a *)
(* file. The command line names threads as the API does, so requests and   *)
(* several sessions may work on one run. The builder's thread has a fixed  *)
(* name: a build starts over on whatever an earlier one left there.        *)
(***************************************************************************)
EXTENDS MappingRun

CONSTANTS
    Terminals,  \* the workers that may be sessions
    Threads,    \* the workers that may be request threads, while not a session
    Choices     \* what a reviewer at a prompt may enter for an item

ASSUME SessionAssumption ==
    /\ Workers = Terminals \cup Threads
    /\ Choices \subseteq Verdict

VARIABLES
    thread,     \* whether the thread is one run's or the builder's
    session,    \* what each worker's process is doing, if it is a session's
    file        \* what the file that the sessions of this thread write holds

sessionVars == <<checkpoint, invocation, reply, thread, session, file>>

\* result: the values the last invocation returned, or the snapshot held.
NoSession == [step |-> "idle", items |-> {}, result |-> Fresh]

NoFile == [holds |-> "nothing", document |-> Null]

SessionTypeOK ==
    /\ TypeOK
    /\ thread \in {"run", "golden-build"}
    /\ session \in [Workers -> [step : {"idle", "invoking", "prompt", "finish"},
                                items : SUBSET Fields, result : GraphState]]
    /\ file \in [holds : {"nothing", "null", "document"}, document : Document \cup {Null}]

SessionInit ==
    /\ Init
    /\ thread \in {"run", "golden-build"}
    /\ session = [w \in Workers |-> NoSession]
    /\ file = NoFile

Free(w) == w \in Terminals /\ session[w].step = "idle" /\ invocation[w].at = "idle"

Alone == \A w \in Workers : session[w].step = "idle"

Enter(w, s) == session' = [session EXCEPT ![w] = s]

Invoking == [NoSession EXCEPT !.step = "invoking"]
Prompting(items) == [NoSession EXCEPT !.step = "prompt", !.items = items]
Finishing(values) == [NoSession EXCEPT !.step = "finish", !.result = values]

\* Mutant: the items are shown with their proposals.
ProposalsOf(s) == {s.pending[f] : f \in Fields} \ {Null}

ItemsOf(s) == {f \in Fields : s.pending[f] # Null}

-----------------------------------------------------------------------------
(* Beginnings *)

\* Run ids are new: nobody names one before the run exists.
Unnamed == file = NoFile /\ Alone

StartRun(w) ==
    /\ thread = "run" /\ Free(w) /\ Unnamed
    /\ RunMapping(w)
    /\ Enter(w, Invoking)
    /\ UNCHANGED <<thread, file>>

\* Bound: builds overlap only until one has assembled a document; later ones start
\* on what the thread holds, one after the other.
FirstBuilds == checkpoint.state.document = Null

\* An input for a thread that exists starts the graph over: what the nodes do not
\* replace keeps the values the thread had.
StartBuild(w) ==
    /\ thread = "golden-build" /\ Free(w)
    /\ Alone \/ FirstBuilds
    /\ checkpoint' = [next |-> "load_config", state |-> checkpoint.state, writer |-> w,
                      interrupted |-> FALSE]
    /\ invocation' = [invocation EXCEPT ![w] =
                        [at |-> "load_config", state |-> checkpoint.state, verdicts |-> Null]]
    /\ reply' = [reply EXCEPT ![w] = NoReply]
    /\ Enter(w, Invoking)
    /\ UNCHANGED <<thread, file>>

\* Mutant: a run that is not waiting for a review is taken to be over.
OverUnlessWaiting == ~ checkpoint.interrupted

Over == checkpoint.next \in {"none", "end"}

\* --resume: a run with nothing to execute goes straight to its values, one that
\* never started included; with a stored interrupt, to the prompts; otherwise
\* the list of interrupts is empty and the session fails.
StartResume(w) ==
    /\ thread = "run" /\ Free(w)
    /\ \/ Over /\ Enter(w, Finishing(checkpoint.state))
       \/ /\ ~ Over /\ checkpoint.interrupted
          /\ Enter(w, Prompting(ItemsOf(checkpoint.state)))
    /\ UNCHANGED <<checkpoint, invocation, reply, thread, file>>

-----------------------------------------------------------------------------
(* Steps *)

\* What the session makes of the invocation's end, if this step ends it.
AfterNode(w) ==
    CASE reply'[w] = "pending_review" -> Prompting(ItemsOf(State(w)))
      [] reply'[w] = "completed"      -> Finishing(checkpoint'.state)
      [] reply'[w] = "failed"         -> NoSession
      [] OTHER                        -> session[w]

SessionNode(w) ==
    /\ session[w].step = "invoking"
    /\ Node(w)
    /\ Enter(w, AfterNode(w))
    /\ UNCHANGED <<thread, file>>

\* One decision on each item, in the order shown; the builder approves all. The
\* run may be somewhere else by now: a complete one returns its values.
Decide(w) ==
    /\ session[w].step = "prompt"
    /\ \E choice \in [session[w].items -> Choices] :
          /\ thread = "golden-build" => \A f \in session[w].items :
                choice[f] = [approved |-> TRUE, override |-> Null]
          /\ \/ /\ ResumeMapping(w, [f \in Fields |-> IF f \in session[w].items
                                                      THEN <<choice[f]>> ELSE <<>>])
                /\ Enter(w, Invoking)
             \/ /\ ResumeCompleted(w)
                /\ Enter(w, Finishing(checkpoint.state))
    /\ UNCHANGED <<thread, file>>

\* Mutant: the builder writes without looking at the report.
Unverified(values) == TRUE

\* The builder asserts that its report is ok; the command line prints it.
Verified(values) == thread = "golden-build" => values.report.ok

\* The file is written before the document is looked into, so that of a run that
\* never started holds null; the session fails afterwards.
Finish(w) ==
    /\ session[w].step = "finish"
    /\ file' = IF Verified(session[w].result)
               THEN [holds |-> IF session[w].result.document = Null
                               THEN "null" ELSE "document",
                     document |-> session[w].result.document]
               ELSE file
    /\ Enter(w, NoSession)
    /\ reply' = [reply EXCEPT ![w] = NoReply]
    /\ UNCHANGED <<checkpoint, invocation, thread>>

\* The process of one session is interrupted; run_fresh without approval stops
\* at the first prompt.
Quit(w) ==
    /\ session[w].step # "idle"
    /\ invocation' = [invocation EXCEPT ![w] = Idle]
    /\ reply' = [reply EXCEPT ![w] = NoReply]
    /\ Enter(w, NoSession)
    /\ UNCHANGED <<checkpoint, thread, file>>

-----------------------------------------------------------------------------
(* The API beside the sessions *)

ApiRequest(w) ==
    /\ thread = "run" /\ w \in Threads /\ session[w].step = "idle"
    /\ checkpoint # NoCheckpoint \/ Unnamed
    /\ Request(w)
    /\ UNCHANGED <<thread, session, file>>

ApiNode(w) ==
    /\ session[w].step = "idle"
    /\ Node(w)
    /\ UNCHANGED <<thread, session, file>>

\* The API process stops; the sessions go on.
ApiCrash ==
    /\ \E w \in Workers : session[w].step = "idle" /\ ~ At(w, "idle")
    /\ invocation' = [w \in Workers |->
                        IF session[w].step = "idle" THEN Idle ELSE invocation[w]]
    /\ reply' = [w \in Workers |-> IF session[w].step = "idle" THEN NoReply ELSE reply[w]]
    /\ UNCHANGED <<checkpoint, thread, session, file>>

Start(w) == StartRun(w) \/ StartBuild(w) \/ StartResume(w)

Act(w) == SessionNode(w) \/ Finish(w) \/ ApiNode(w)

SessionNext ==
    \/ ApiCrash
    \/ \E w \in Workers : Start(w) \/ Act(w) \/ Decide(w) \/ Quit(w) \/ ApiRequest(w)

SessionSpec == SessionInit /\ [][SessionNext]_sessionVars

\* Processes and request threads are scheduled; nobody has to answer a prompt.
FairSessionSpec ==
    /\ SessionSpec
    /\ \A w \in Workers : WF_sessionVars(Act(w))

-----------------------------------------------------------------------------
(* Properties *)

\* What a session leaves on disk is a whole document, with an outcome for every
\* source field, however stale the prompt it answered was and whoever else
\* worked on the run; it is null only for a run that never started
\* (cli/main.py, 61-107).
FileSound ==
    /\ file.holds = "null" => checkpoint = NoCheckpoint
    /\ file.holds = "document" => \A f \in Fields : file.document.ledger[f] # <<>>

\* The golden file has every field exactly once and no destination twice in a
\* table, although builds share a thread, overlap on it and start on what an
\* interrupted one left (build_golden.py, 29-54).
GoldenTrusted ==
    thread = "golden-build" /\ file.holds = "document" =>
        LET entries == file.document.ledger
        IN  /\ \A f \in Fields : Len(entries[f]) = 1
            /\ \A f, g \in Fields :
                 f # g /\ TableOf[f] = TableOf[g] /\ IsMapped(entries[f][1])
                     => entries[f][1].dst # entries[g][1].dst

\* A session always comes to a prompt, a file or an error, and a request to an
\* answer (cli/main.py, 75-80).
SessionReturns ==
    \A w \in Workers :
        session[w].step \in {"invoking", "finish"} \/ ~ At(w, "idle")
            ~> session[w].step \in {"idle", "prompt"} /\ At(w, "idle")
=============================================================================
