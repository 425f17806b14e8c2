-------------------------- MODULE RunConfigProofs --------------------------
(***************************************************************************)
(* The registry and the configuration of a run, for any number of callers  *)
(* of the registry, any environments and any configurations.               *)
(*                                                                         *)
(* The registry's invariant says what a caller that is alone may rely on:  *)
(* the schema it has seen is still there, and the row it read is still the *)
(* row. The run's invariant says how what it stored and what it asked      *)
(* follow from the configuration it loaded.                                *)
(***************************************************************************)
EXTENDS RunConfig, TLAPS

-----------------------------------------------------------------------------
(* Values *)

LEMMA ColumnNames ==
    /\ Columns = {"threshold", "provider", "embedding"}
    /\ DOMAIN Seeded = Columns
    /\ Default # Null /\ Seeded # Null
    /\ Null \notin Config /\ Null \notin Given
BY RegistryAssumption DEF Columns, Config

LEMMA MergedType ==
    ASSUME NEW row \in Config \cup {Null}, NEW given \in Given
    PROVE  Merged(row, given) \in Config
<1>1. PICK S \in SUBSET Columns, r \in Config : given = [c \in S |-> r[c]]
  BY DEF Given
<1> DEFINE value(k) == IF k \in S THEN r[k] ELSE IF row = Null THEN Default[k] ELSE row[k]
<1>2. Merged(row, given) = [k \in Columns |-> value(k)]
  BY <1>1 DEF Merged
<1>3. /\ value("threshold") \in Thresholds
      /\ value("provider") \in Preferences \cup {Null}
      /\ value("embedding") \in Preferences \cup {Null}
  BY RegistryAssumption, ColumnNames DEF Config
<1>4. [k \in Columns |-> value(k)]
        = [threshold |-> value("threshold"), provider |-> value("provider"),
           embedding |-> value("embedding")]
  BY ColumnNames
<1> QED
  BY <1>2, <1>3, <1>4 DEF Config

LEMMA MergedSeeded ==
    ASSUME NEW row
    PROVE  Seeded \in Given /\ Merged(row, Seeded) = Seeded
<1>1. Seeded = [k \in Columns |-> Seeded[k]]
  BY RegistryAssumption, ColumnNames DEF Config
<1> QED
  BY <1>1, RegistryAssumption, ColumnNames DEF Merged, Given

LEMMA NoTaskType ==
    /\ NoTask \in Task /\ NoTask.todo = <<>> /\ NoTask.alone /\ NoTask.row = Null
    /\ NoTask.outcome = "none"
BY DEF NoTask, Task

-----------------------------------------------------------------------------
(* The registry's invariant                                                  *)

\* A list of functions that ends with the update, and updates only what it read.
Tidy(todo) ==
    /\ todo[Len(todo)] = "set"
    /\ \A i \in 1 .. Len(todo) - 1 : todo[i + 1] = "set" => todo[i] = "get"

\* What holds of task t of caller c while it is active.
Fits(c, t) ==
    t.todo # <<>> =>
        /\ t.outcome = "none"
        /\ Head(t.todo) = "remove" => t.at = "init"
        /\ c \in Seeders => t.given = Seeded
        /\ c \in Admins => t.given \in Given
        /\ c \in Loaders => t.todo = Load
        /\ c \notin Loaders => Tidy(t.todo)

\* What a task that is alone may rely on, with the file holding base.
Relies(t, base) ==
    t.todo # <<>> /\ t.alone =>
        /\ ~ t.unlinked
        /\ t.at = "alter" => base.schema = "old"
        /\ t.at = "query" => base.schema # "none"
        /\ Head(t.todo) = "set" => t.row = base.row

RegInv ==
    /\ db \in Database /\ task \in [Callers -> Task]
    /\ db.tenant <=> db.row # Null
    /\ \A c \in Callers : Fits(c, task[c]) /\ Relies(task[c], db)
    /\ \A c, d \in Callers :
         c # d /\ task[c].todo # <<>> /\ task[d].todo # <<>> => ~ task[c].alone

\* A step in which only the task of c changes.
LEMMA Local ==
    ASSUME RegInv, NEW c \in Callers, NEW t \in Task, task[c].todo # <<>>,
           task' = [task EXCEPT ![c] = t],
           db' \in Database, db'.tenant <=> db'.row # Null,
           t.todo # <<>> => t.alone = task[c].alone,
           Fits(c, t), Relies(t, db')
    PROVE  RegInv'
<1>1. task \in [Callers -> Task] /\ task' \in [Callers -> Task]
  BY DEF RegInv
<1>2. \A d \in Callers : Fits(d, task'[d])
  BY <1>1 DEF RegInv
<1>3. ASSUME NEW d \in Callers PROVE Relies(task'[d], db')
  <2>1. CASE d = c
    BY <1>1, <2>1
  <2>2. CASE d # c
    <3>1. task'[d] = task[d]
      BY <1>1, <2>2
    <3>2. task[d].todo # <<>> => ~ task[d].alone
      BY <2>2 DEF RegInv
    <3> QED
      BY <3>1, <3>2 DEF Relies
  <2> QED
    BY <2>1, <2>2
<1>4. ASSUME NEW d \in Callers, NEW e \in Callers, d # e,
             task'[d].todo # <<>>, task'[e].todo # <<>>
      PROVE  ~ task'[d].alone
  <2>1. task[d].todo # <<>> /\ task[e].todo # <<>>
    BY <1>1, <1>4
  <2>2. ~ task[d].alone
    BY <1>4, <2>1 DEF RegInv
  <2> QED
    BY <1>1, <1>4, <2>2
<1> QED
  BY <1>1, <1>2, <1>3, <1>4 DEF RegInv

\* A step in which tasks end.
LEMMA Ended ==
    ASSUME RegInv, NEW ended \in SUBSET Callers,
           task' = [c \in Callers |-> IF c \in ended THEN NoTask ELSE task[c]],
           UNCHANGED db
    PROVE  RegInv'
<1>1. task' \in [Callers -> Task]
  BY NoTaskType DEF RegInv
<1>2. \A c \in Callers : Fits(c, task'[c]) /\ Relies(task'[c], db')
  BY NoTaskType DEF RegInv, Fits, Relies
<1>3. \A c, d \in Callers :
        c # d /\ task'[c].todo # <<>> /\ task'[d].todo # <<>> => ~ task'[c].alone
  BY NoTaskType DEF RegInv
<1> QED
  BY <1>1, <1>2, <1>3 DEF RegInv

LEMMA RestOf ==
    ASSUME NEW todo \in Seq(Operations), todo # <<>>
    PROVE  /\ Tail(todo) \in Seq(Operations)
           /\ Tidy(todo) /\ Tail(todo) # <<>> =>
                /\ Tidy(Tail(todo))
                /\ Head(Tail(todo)) = "set" => Head(todo) = "get"
           /\ Tidy(todo) /\ Tail(todo) = <<>> => Head(todo) = "set"
           /\ Tail(todo) = <<"set">> => Head(Tail(todo)) = "set"
<1>1. Len(todo) \in Nat /\ Len(todo) >= 1
  OBVIOUS
<1>2. /\ Tail(todo) \in Seq(Operations) /\ Len(Tail(todo)) = Len(todo) - 1
      /\ \A i \in 1 .. Len(todo) - 1 : Tail(todo)[i] = todo[i + 1]
  BY <1>1
<1>5. Tail(todo) = <<"set">> => Head(Tail(todo)) = "set"
  <2>1. Head(<<"set">>) = "set"
    BY DEF Operations
  <2> QED
    BY <2>1, Zenon
<1>3. CASE Tail(todo) = <<>>
  <2>1. Len(todo) = 1
    BY <1>1, <1>2, <1>3
  <2> QED
    BY <1>2, <1>3, <1>5, <2>1 DEF Tidy
<1>4. CASE Tail(todo) # <<>>
  <2>1. Len(todo) >= 2
    BY <1>1, <1>2, <1>4
  <2>2. /\ Head(todo) = todo[1] /\ Head(Tail(todo)) = todo[2]
        /\ Tail(todo)[Len(Tail(todo))] = todo[Len(todo)]
    BY <1>1, <1>2, <1>4, <2>1
  <2>3. ASSUME Tidy(todo), NEW i \in 1 .. Len(Tail(todo)) - 1, Tail(todo)[i + 1] = "set"
        PROVE  Tail(todo)[i] = "get"
    <3>1. Tail(todo)[i + 1] = todo[i + 2] /\ Tail(todo)[i] = todo[i + 1]
      BY <1>1, <1>2, <2>3
    <3>2. i + 1 \in 1 .. Len(todo) - 1 /\ (i + 1) + 1 = i + 2
      BY <1>1, <1>2, <2>3
    <3> QED
      BY <2>3, <3>1, <3>2 DEF Tidy
  <2>4. Tidy(todo) => Tidy(Tail(todo))
    BY <2>2, <2>3 DEF Tidy
  <2>5. Tidy(todo) /\ todo[2] = "set" => todo[1] = "get"
    <3>1. 1 \in 1 .. Len(todo) - 1
      BY <1>1, <2>1
    <3> QED
      BY <3>1 DEF Tidy
  <2> QED
    BY <1>2, <1>4, <1>5, <2>2, <2>4, <2>5
<1> QED
  BY <1>3, <1>4

-----------------------------------------------------------------------------
(* The registry's functions                                                  *)

LEMMA ReturnStep ==
    ASSUME RegInv, NEW c \in Callers, NEW row \in Config \cup {Null},
           task[c].todo # <<>>, Return(c, row),
           db' \in Database, db'.tenant <=> db'.row # Null,
           task[c].alone => db'.schema # "none" /\ ~ task[c].unlinked,
           Head(task[c].todo) = "get" => row = db'.row
    PROVE  RegInv'
<1> DEFINE rest == Tail(task[c].todo)
           over == [NoTask EXCEPT !.row = row, !.outcome = "ok", !.alone = task[c].alone]
           goes == [task[c] EXCEPT !.todo = rest, !.row = row,
                                   !.at = IF rest = <<"set">> THEN "query" ELSE "init"]
<1>1. /\ task \in [Callers -> Task] /\ task[c] \in Task
      /\ Fits(c, task[c])
  BY DEF RegInv
<1>2. /\ task[c].todo \in Seq(Operations)
      /\ rest \in Seq(Operations)
      /\ Tidy(task[c].todo) /\ rest # <<>> =>
           /\ Tidy(rest)
           /\ Head(rest) = "set" => Head(task[c].todo) = "get"
      /\ rest = <<"set">> => Head(rest) = "set"
  <2>1. task[c].todo \in Seq(Operations)
    BY <1>1 DEF Task
  <2> QED
    BY <2>1, RestOf
<1>3. CASE rest = <<>>
  <2>1. task' = [task EXCEPT ![c] = over]
    BY <1>1, <1>3 DEF Return
  <2>2. over \in Task /\ over.todo = <<>>
    BY <1>1, NoTaskType DEF Task
  <2> HIDE DEF over
  <2>3. Fits(c, over) /\ Relies(over, db')
    BY <2>2 DEF Fits, Relies
  <2> QED
    BY <2>1, <2>2, <2>3, Local
<1>4. CASE rest # <<>>
  <2> HIDE DEF rest
  <2>1. task' = [task EXCEPT ![c] = goes]
    BY <1>1, <1>4 DEF Return, rest
  <2>2. /\ goes \in Task
        /\ goes.todo = rest /\ goes.row = row /\ goes.alone = task[c].alone
        /\ goes.outcome = task[c].outcome /\ goes.given = task[c].given
        /\ goes.unlinked = task[c].unlinked
        /\ goes.at = IF rest = <<"set">> THEN "query" ELSE "init"
    BY <1>1, <1>2 DEF Task
  <2> HIDE DEF goes
  <2>3. c \notin Loaders
    <3>1. Tail(Load) = <<>>
      BY DEF Load
    <3>2. c \in Loaders => task[c].todo = Load
      BY <1>1 DEF Fits
    <3> QED
      BY <1>4, <3>1, <3>2 DEF rest
  <2>4. Fits(c, goes)
    BY <1>1, <1>2, <1>4, <2>2, <2>3 DEF Fits
  <2>5. Tidy(task[c].todo)
    BY <1>1, <2>3 DEF Fits
  <2>6. Relies(goes, db')
    BY <1>2, <1>4, <2>2, <2>5 DEF Relies
  <2> QED
    BY <2>1, <2>2, <2>4, <2>6, Local
<1> QED
  BY <1>3, <1>4

LEMMA RaiseStep ==
    ASSUME RegInv, NEW c \in Callers, task[c].todo # <<>>, Raise(c)
    PROVE  RegInv'
<1> DEFINE over == [NoTask EXCEPT !.outcome = "raised", !.alone = task[c].alone]
<1>1. task' = [task EXCEPT ![c] = over] /\ db' = db
  BY DEF Raise
<1>2. over \in Task /\ over.todo = <<>>
  <2>1. task[c] \in Task
    BY DEF RegInv
  <2> QED
    BY <2>1, NoTaskType DEF Task
<1> HIDE DEF over
<1>3. Fits(c, over) /\ Relies(over, db')
  BY <1>2 DEF Fits, Relies
<1> QED
  BY <1>1, <1>2, <1>3, Local DEF RegInv

\* What an active caller finds.
LEMMA Finds ==
    ASSUME RegInv, NEW c \in Callers, task[c].todo # <<>>
    PROVE  /\ task[c] \in Task /\ db \in Database
           /\ db.tenant <=> db.row # Null
           /\ Fits(c, task[c]) /\ Relies(task[c], db)
           /\ task[c].outcome = "none"
           /\ c \notin Loaders => task[c].given \in Given
BY MergedSeeded DEF RegInv, Fits, Callers

LEMMA ExecuteStep ==
    ASSUME RegInv, NEW c \in Callers, Execute(c)
    PROVE  RegInv'
<1>1. task[c].todo # <<>>
  BY DEF Execute, CreateTables, AddColumn, InitReturns, RemoveFile, CreateTenant, GetConfig,
     SetConfig, Step, Doing, Active
<1>2. /\ task[c] \in Task /\ db \in Database
      /\ db.tenant <=> db.row # Null
      /\ Fits(c, task[c]) /\ Relies(task[c], db)
      /\ c \notin Loaders => task[c].given \in Given
  BY <1>1, Finds
<1>3. CASE CreateTables(c)
  <2> DEFINE after == [task[c] EXCEPT !.at = AfterColumns]
  <2>1. /\ task' = [task EXCEPT ![c] = after]
        /\ db' = [db EXCEPT !.schema = IF @ = "none" THEN "new" ELSE @]
        /\ task[c].at = "init" /\ Head(task[c].todo) # "remove"
    BY <1>1, <1>3 DEF CreateTables, Step, Doing, Active
  <2>2. /\ after \in Task /\ after.todo = task[c].todo /\ after.alone = task[c].alone
        /\ after.given = task[c].given /\ after.outcome = task[c].outcome
        /\ after.row = task[c].row /\ after.unlinked = task[c].unlinked
        /\ after.at = AfterColumns
    BY <1>2 DEF Task, AfterColumns
  <2>3. /\ db' \in Database /\ db'.tenant = db.tenant /\ db'.row = db.row
        /\ db'.schema # "none" /\ (db.schema = "old" => db'.schema = "old")
    BY <1>2, <2>1 DEF Database
  <2> HIDE DEF after
  <2>4. Fits(c, after)
    BY <1>2, <2>1, <2>2 DEF Fits
  <2>5. Relies(after, db')
    BY <1>2, <2>2, <2>3 DEF Relies, AfterColumns
  <2> QED
    BY <1>1, <1>2, <2>1, <2>2, <2>3, <2>4, <2>5, Local
<1>4. CASE AddColumn(c)
  <2> DEFINE after == [task[c] EXCEPT !.at = "query", !.unlinked = FALSE]
  <2>1. CASE Raise(c)
    BY <1>1, <2>1, RaiseStep
  <2>2. CASE ~ Raise(c)
    <3>1. /\ task[c].unlinked \/ db.schema = "old"
          /\ db' = IF task[c].unlinked THEN db ELSE [db EXCEPT !.schema = "new"]
          /\ task' = [task EXCEPT ![c].at = "query", ![c].unlinked = FALSE]
          /\ Head(task[c].todo) # "remove"
      BY <1>1, <1>4, <2>2 DEF AddColumn, Step, Doing, Active
    <3>2. task' = [task EXCEPT ![c] = after]
      BY <3>1 DEF RegInv
    <3>3. /\ after \in Task /\ after.todo = task[c].todo /\ after.alone = task[c].alone
          /\ after.given = task[c].given /\ after.outcome = task[c].outcome
          /\ after.row = task[c].row /\ ~ after.unlinked /\ after.at = "query"
      BY <1>2 DEF Task
    <3>4. /\ db' \in Database /\ db'.tenant = db.tenant /\ db'.row = db.row
          /\ ~ task[c].unlinked => db'.schema # "none"
      BY <1>2, <3>1 DEF Database
    <3> HIDE DEF after
    <3>5. Fits(c, after)
      BY <1>2, <3>1, <3>3 DEF Fits
    <3>6. Relies(after, db')
      BY <1>2, <3>3, <3>4 DEF Relies
    <3> QED
      BY <1>1, <1>2, <3>2, <3>3, <3>4, <3>5, <3>6, Local
  <2> QED
    BY <2>1, <2>2
<1>5. CASE InitReturns(c)
  <2>1. /\ Return(c, Null) /\ db' = db /\ task[c].at = "query"
        /\ Head(task[c].todo) = "init"
    BY <1>5 DEF InitReturns, Step, Doing
  <2>2. task[c].alone => db.schema # "none" /\ ~ task[c].unlinked
    BY <1>1, <1>2, <2>1 DEF Relies
  <2> QED
    BY <1>1, <1>2, <2>1, <2>2, ReturnStep
<1>6. CASE RemoveFile(c)
  <2>1. /\ db' = [schema |-> "none", tenant |-> FALSE, row |-> Null]
        /\ task' = [d \in Callers |->
                      IF d = c THEN [task[c] EXCEPT !.todo = Tail(@)]
                      ELSE [task[d] EXCEPT !.unlinked = Step(d, "alter")]]
        /\ Head(task[c].todo) = "remove"
    BY <1>6 DEF RemoveFile, Doing
  <2> DEFINE rest == Tail(task[c].todo)
  <2>2. /\ rest \in Seq(Operations)
        /\ Tidy(task[c].todo) /\ rest # <<>> =>
             Tidy(rest) /\ (Head(rest) = "set" => Head(task[c].todo) = "get")
    <3>1. task[c].todo \in Seq(Operations)
      BY <1>2 DEF Task
    <3> QED
      BY <1>1, <3>1, RestOf
  <2>3. c \notin Loaders /\ Tidy(task[c].todo) /\ task[c].at = "init"
    <3>1. Head(Load) = "get"
      BY DEF Load
    <3> QED
      BY <1>1, <1>2, <2>1, <3>1 DEF Fits
  <2>4. task' \in [Callers -> Task]
    <3>1. [task[c] EXCEPT !.todo = rest] \in Task
      BY <1>2, <2>2 DEF Task
    <3>2. ASSUME NEW d \in Callers
          PROVE  [task[d] EXCEPT !.unlinked = Step(d, "alter")] \in Task
      <4>1. task[d] \in Task /\ Step(d, "alter") \in BOOLEAN
        BY DEF RegInv, Step
      <4> QED
        BY <4>1 DEF Task
    <3> QED
      BY <2>1, <3>1, <3>2
  <2>5. ASSUME NEW d \in Callers
        PROVE  /\ Fits(d, task'[d]) /\ Relies(task'[d], db')
               /\ task'[d].todo # <<>> => task[d].todo # <<>>
               /\ task'[d].alone = task[d].alone
    <3>1. CASE d = c
      <4>1. /\ task'[c].todo = rest /\ task'[c].at = task[c].at
            /\ task'[c].given = task[c].given /\ task'[c].outcome = task[c].outcome
            /\ task'[c].alone = task[c].alone /\ task'[c].unlinked = task[c].unlinked
        BY <1>2, <2>1 DEF Task
      <4> HIDE DEF rest
      <4>2. Fits(c, task'[c])
        BY <1>1, <1>2, <2>2, <2>3, <4>1 DEF Fits
      <4>3. Relies(task'[c], db')
        BY <1>1, <1>2, <2>1, <2>2, <2>3, <4>1 DEF Relies
      <4> QED
        BY <1>1, <3>1, <4>1, <4>2, <4>3
    <3>2. CASE d # c
      <4>1. /\ task'[d].todo = task[d].todo /\ task'[d].at = task[d].at
            /\ task'[d].given = task[d].given /\ task'[d].outcome = task[d].outcome
            /\ task'[d].alone = task[d].alone
        BY <2>1, <3>2 DEF RegInv, Task
      <4>2. Fits(d, task[d]) /\ (task[d].todo # <<>> => ~ task[d].alone)
        BY <1>1, <3>2 DEF RegInv
      <4>3. Fits(d, task'[d])
        BY <4>1, <4>2 DEF Fits
      <4>4. Relies(task'[d], db')
        BY <4>1, <4>2 DEF Relies
      <4> QED
        BY <4>1, <4>3, <4>4
    <3> QED
      BY <3>1, <3>2
  <2>6. db' \in Database /\ (db'.tenant <=> db'.row # Null)
    BY <2>1 DEF Database
  <2>7. \A d, e \in Callers :
          d # e /\ task'[d].todo # <<>> /\ task'[e].todo # <<>> => ~ task'[d].alone
    BY <2>5 DEF RegInv
  <2> QED
    BY <2>4, <2>5, <2>6, <2>7 DEF RegInv
<1>7. CASE CreateTenant(c)
  <2>1. task[c].at = "query" /\ Head(task[c].todo) = "create"
    BY <1>7 DEF CreateTenant, Step, Doing
  <2>2. CASE db.schema = "none"
    BY <1>1, <1>7, <2>2, RaiseStep DEF CreateTenant
  <2>3. CASE db.schema # "none"
    <3>1. /\ db' = [db EXCEPT !.tenant = TRUE, !.row = IF @ = Null THEN Default ELSE @]
          /\ Return(c, Null)
      BY <1>7, <2>3 DEF CreateTenant
    <3>2. /\ db' \in Database /\ (db'.tenant <=> db'.row # Null)
          /\ db'.schema # "none"
      BY <1>2, <2>3, <3>1, RegistryAssumption, ColumnNames DEF Database
    <3>3. task[c].alone => ~ task[c].unlinked
      BY <1>1, <1>2 DEF Relies
    <3> QED
      BY <1>1, <2>1, <3>1, <3>2, <3>3, ReturnStep
  <2> QED
    BY <2>2, <2>3
<1>8. CASE GetConfig(c)
  <2>1. CASE db.schema = "none"
    BY <1>1, <1>8, <2>1, RaiseStep DEF GetConfig
  <2>2. CASE db.schema # "none"
    <3>1. Return(c, db.row) /\ db' = db /\ db.row \in Config \cup {Null}
      BY <1>2, <1>8, <2>2 DEF GetConfig, Database
    <3>2. task[c].alone => ~ task[c].unlinked
      BY <1>1, <1>2 DEF Relies
    <3> QED
      BY <1>1, <1>2, <2>2, <3>1, <3>2, ReturnStep
  <2> QED
    BY <2>1, <2>2
<1>9. CASE SetConfig(c)
  <2>1. task[c].at = "query" /\ Head(task[c].todo) = "set"
    BY <1>9 DEF SetConfig, Step, Doing
  <2>2. CASE db.schema = "none" \/ ~ db.tenant
    BY <1>1, <1>9, <2>2, RaiseStep DEF SetConfig
  <2>3. CASE ~ (db.schema = "none" \/ ~ db.tenant)
    <3>1. /\ db' = [db EXCEPT !.row = Merged(task[c].row, task[c].given)]
          /\ Return(c, Null)
      BY <1>9, <2>3 DEF SetConfig
    <3>2. c \notin Loaders
      <4>1. Head(Load) = "get"
        BY DEF Load
      <4> QED
        BY <1>1, <1>2, <2>1, <4>1 DEF Fits
    <3>3. Merged(task[c].row, task[c].given) \in Config
      BY <1>2, <3>2, MergedType DEF Task
    <3>4. /\ db' \in Database /\ (db'.tenant <=> db'.row # Null)
          /\ db'.schema # "none"
      BY <1>2, <2>3, <3>1, <3>3, ColumnNames DEF Database
    <3>5. task[c].alone => ~ task[c].unlinked
      BY <1>1, <1>2 DEF Relies
    <3> QED
      BY <1>1, <2>1, <3>1, <3>4, <3>5, ReturnStep
  <2> QED
    BY <2>2, <2>3
<1> QED
  BY <1>3, <1>4, <1>5, <1>6, <1>7, <1>8, <1>9 DEF Execute

LEMMA BeginStep ==
    ASSUME RegInv, NEW c \in Callers, NEW given \in Given \cup {Null},
           NEW program \in Seq(Operations),
           program # <<>>, Head(program) \notin {"set", "remove"},
           c \in Seeders => given = Seeded,
           c \in Admins => given \in Given,
           c \in Loaders => program = Load,
           c \notin Loaders => Tidy(program),
           Begin(c, program, given)
    PROVE  /\ RegInv'
           /\ \A d \in Callers : /\ task'[d].row \in {task[d].row, Null}
                                 /\ task'[d].outcome \in {task[d].outcome, "none"}
                                 /\ task'[d].outcome = "raised" /\ ~ task[d].alone
                                      => ~ task'[d].alone
<1> DEFINE free == \A e \in Callers : ~ Active(e)
           started == [NoTask EXCEPT !.todo = program, !.given = given, !.alone = free]
           met(d) == [task[d] EXCEPT !.alone = @ /\ ~ Active(d)]
<1>1. /\ task[c].todo = <<>> /\ db' = db
      /\ task' = [d \in Callers |-> IF d = c THEN started ELSE met(d)]
  BY DEF Begin, Active
<1>2. /\ started \in Task /\ started.todo = program /\ started.given = given
      /\ started.at = "init" /\ started.outcome = "none" /\ ~ started.unlinked
      /\ started.row = Null
      /\ started.alone => \A e \in Callers : task[e].todo = <<>>
  <2>1. free \in BOOLEAN
    OBVIOUS
  <2> HIDE DEF free
  <2>2. /\ started \in Task /\ started.todo = program /\ started.given = given
        /\ started.at = "init" /\ started.outcome = "none" /\ ~ started.unlinked
        /\ started.row = Null /\ started.alone = free
    BY <2>1 DEF NoTask, Task
  <2>3. free => \A e \in Callers : task[e].todo = <<>>
    BY DEF free, Active
  <2> QED
    BY <2>2, <2>3
<1>3. ASSUME NEW d \in Callers
      PROVE  /\ met(d) \in Task /\ met(d).todo = task[d].todo
             /\ met(d).at = task[d].at /\ met(d).given = task[d].given
             /\ met(d).row = task[d].row /\ met(d).outcome = task[d].outcome
             /\ met(d).unlinked = task[d].unlinked
             /\ met(d).alone => task[d].alone /\ task[d].todo = <<>>
  <2>1. task[d] \in Task
    BY DEF RegInv
  <2> QED
    BY <2>1 DEF Task, Active
<1> HIDE DEF started, met
<1>4. task' \in [Callers -> Task]
  BY <1>1, <1>2, <1>3
<1>5. Fits(c, started) /\ Relies(started, db')
  BY <1>2 DEF Fits, Relies
<1>6. \A d \in Callers : Fits(d, met(d)) /\ Relies(met(d), db')
  BY <1>3 DEF RegInv, Fits, Relies
<1>7. \A d, e \in Callers :
        d # e /\ task'[d].todo # <<>> /\ task'[e].todo # <<>> => ~ task'[d].alone
  <2> SUFFICES ASSUME NEW d \in Callers, NEW e \in Callers, d # e,
                      task'[d].todo # <<>>, task'[e].todo # <<>>
               PROVE  ~ task'[d].alone
    OBVIOUS
  <2>1. CASE d = c
    <3>1. task[e].todo # <<>>
      BY <1>1, <1>3, <2>1
    <3> QED
      BY <1>1, <1>2, <2>1, <3>1
  <2>2. CASE d # c
    BY <1>1, <1>3, <2>2
  <2> QED
    BY <2>1, <2>2
<1>8. RegInv'
  BY <1>1, <1>4, <1>5, <1>6, <1>7 DEF RegInv
<1>9. ASSUME NEW d \in Callers
      PROVE  /\ task'[d].row \in {task[d].row, Null}
             /\ task'[d].outcome \in {task[d].outcome, "none"}
             /\ task'[d].outcome = "raised" /\ ~ task[d].alone => ~ task'[d].alone
  BY <1>1, <1>2, <1>3
<1> QED
  BY <1>8, <1>9

-----------------------------------------------------------------------------
(* The run's invariant                                                       *)

LEMMA Providing ==
    /\ \A preferred : GetProvider(preferred) \in Providers
    /\ GetProvider("offline") = "offline"
    /\ \A preferred : GetProvider(GetProvider(preferred)) = GetProvider(preferred)
    /\ \A preferred : preferred \in Providers /\ Available(preferred)
                        => GetProvider(preferred) = preferred
BY DEF GetProvider, Available, Providers, Vendors

RunValues ==
    [next : {"load_config", "match_tables", "match_fields", "assemble", "end"},
     config : Config, loaded : {"none", "row", "defaults", "raised"},
     resolved : Providers, asked : SUBSET Providers,
     source : {"tfidf", "embeddings"},
     dest : {"tfidf", "embeddings"}, accepted : Confidences \cup {Null},
     restarted : BOOLEAN, document : Providers \cup {Null}]

RunType ==
    /\ env \in SUBSET Services
    /\ run \in RunValues
    /\ held \in SUBSET Config

\* Before the configuration is there.
Unloaded ==
    /\ db.row \in held \cup {Null}
    /\ task[Run].row \in held \cup {Null}
    /\ task[Run].outcome = "raised" => ~ task[Run].alone
    /\ run.asked = {} /\ run.loaded = "none" /\ run.document = Null /\ ~ run.restarted

\* What follows from the configuration. The provider is chosen again at each node:
\* in the same environment the choice of a choice is the choice.
Loaded ==
    /\ run.config \in held \cup {Default}
    /\ run.loaded = "raised" => ~ task[Run].alone
    /\ run.resolved = "offline" => run.asked \subseteq {"offline"}
    /\ ~ run.restarted =>
         /\ run.resolved = GetProvider(run.config.provider)
         /\ run.asked \subseteq {run.resolved}
         /\ run.next # "match_tables" => run.asked = {run.resolved}
    /\ run.document # Null => run.document = run.resolved /\ run.next = "end"

Spaces ==
    /\ run.source = run.dest
    /\ run.next \in {"load_config", "match_tables"} => run.source = "tfidf"
    /\ run.config.embedding = "tfidf" => run.source = "tfidf"

CInv ==
    /\ RegInv
    /\ RunType
    /\ run.next = "load_config" => Unloaded
    /\ run.next # "load_config" => Loaded
    /\ Spaces

\* A caller's step leaves Run what it had read, or gives it what is in the file,
\* and makes it fail only if it was not alone.
LEMMA RunTask ==
    ASSUME RegInv, NEW c \in Callers, Execute(c),
           task[Run].outcome = "raised" => ~ task[Run].alone
    PROVE  /\ task'[Run].row \in {task[Run].row, db.row, Null}
           /\ task'[Run].outcome = "raised" => ~ task'[Run].alone
<1>0. Run \in Callers /\ Run \in Loaders /\ task \in [Callers -> Task]
  BY RunConfigAssumption DEF Callers, RegInv
<1>1. CASE c # Run
  <2>1. \/ /\ task'[Run].row = task[Run].row
           /\ task'[Run].outcome = task[Run].outcome
           /\ task'[Run].alone = task[Run].alone
    BY <1>0, <1>1 DEF Execute, CreateTables, AddColumn, InitReturns, RemoveFile,
       CreateTenant, GetConfig, SetConfig, Return, Raise, Task
  <2> QED
    BY <2>1
<1>2. CASE c = Run
  <2>1. /\ Active(Run) /\ task[Run].todo # <<>>
        /\ Execute(Run)
    BY <1>2 DEF Execute, CreateTables, AddColumn, InitReturns, RemoveFile, CreateTenant,
       GetConfig, SetConfig, Step, Doing, Active
  <2>2. /\ task[Run] \in Task /\ task[Run].outcome = "none"
        /\ task[Run].todo = Load /\ Relies(task[Run], db)
    BY <1>0, <2>1, Finds DEF Fits
  <2>3. Head(task[Run].todo) = "get" /\ Tail(task[Run].todo) = <<>>
    BY <2>2 DEF Load
  <2>4. CASE CreateTables(Run)
    BY <1>0, <2>2, <2>4 DEF CreateTables, Task
  <2>5. CASE Raise(Run) /\ ~ task[Run].alone
    BY <1>0, <2>2, <2>5 DEF Raise, NoTask
  <2>6. CASE AddColumn(Run)
    <3>1. CASE Raise(Run)
      <4>1. task[Run].at = "alter"
        BY <2>6 DEF AddColumn, Step
      <4>2. task[Run].alone => ~ task[Run].unlinked /\ db.schema = "old"
        BY <2>1, <2>2, <4>1 DEF Relies
      <4>3. task[Run].unlinked \/ db.schema # "old" \/ task'[Run].outcome = "none"
        BY <1>0, <2>2, <2>6 DEF AddColumn, Task
      <4>4. task'[Run].outcome = "raised"
        BY <1>0, <3>1 DEF Raise, NoTask
      <4> QED
        BY <2>5, <3>1, <4>2, <4>3, <4>4
    <3>2. CASE ~ Raise(Run)
      BY <1>0, <2>2, <2>6, <3>2 DEF AddColumn, Task
    <3> QED
      BY <3>1, <3>2
  <2>7. CASE GetConfig(Run)
    <3>1. CASE db.schema = "none"
      <4>1. ~ task[Run].alone
        BY <2>1, <2>2, <2>7, <3>1 DEF GetConfig, Step, Relies
      <4> QED
        BY <2>5, <2>7, <3>1, <4>1 DEF GetConfig
    <3>2. CASE db.schema # "none"
      BY <1>0, <2>3, <2>7, <3>2 DEF GetConfig, Return, NoTask
    <3> QED
      BY <3>1, <3>2
  <2>8. ~ (InitReturns(Run) \/ RemoveFile(Run) \/ CreateTenant(Run) \/ SetConfig(Run))
    BY <2>3 DEF InitReturns, RemoveFile, CreateTenant, SetConfig, Doing
  <2> QED
    BY <1>2, <2>1, <2>4, <2>6, <2>7, <2>8 DEF Execute
<1> QED
  BY <1>1, <1>2
-----------------------------------------------------------------------------
(* The steps                                                                 *)

\* A step before the configuration is there, which leaves the run alone.
LEMMA Watching ==
    ASSUME CInv, run.next = "load_config", RegInv', UNCHANGED run, env' \in SUBSET Services,
           held' = held \cup ({db'.row} \ {Null}),
           task'[Run].row \in {task[Run].row, db'.row, Null},
           task'[Run].outcome = "raised" => ~ task'[Run].alone
    PROVE  CInv'
<1>1. RunType'
  <2>1. db' \in Database
    BY DEF RegInv
  <2>2. held' \in SUBSET Config
    BY <2>1 DEF CInv, RunType, RunValues, Database
  <2> QED
    BY <2>2 DEF CInv, RunType, RunValues
<1>2. Unloaded'
  BY DEF CInv, Unloaded
<1>3. Spaces'
  BY DEF CInv, Spaces
<1> QED
  BY <1>1, <1>2, <1>3 DEF CInv

LEMMA Programs ==
    /\ Seed \in Seq(Operations) /\ Seed # <<>> /\ Head(Seed) = "init" /\ Tidy(Seed)
    /\ Update \in Seq(Operations) /\ Update # <<>> /\ Head(Update) = "init" /\ Tidy(Update)
    /\ Load \in Seq(Operations) /\ Load # <<>> /\ Head(Load) = "get"
<1>1. /\ Seed \in Seq(Operations) /\ Update \in Seq(Operations) /\ Load \in Seq(Operations)
      /\ Head(Seed) = "init" /\ Head(Update) = "init" /\ Head(Load) = "get"
      /\ Len(Seed) = 7 /\ Len(Update) = 3 /\ Len(Load) = 1
  BY DEF Seed, Update, Load, Operations
<1>2. Seed # <<>> /\ Update # <<>> /\ Load # <<>>
  BY DEF Seed, Update, Load
<1>3. Tidy(Seed)
  <2>1. Seed[7] = "set"
    BY DEF Seed
  <2>2. ASSUME NEW i \in 1 .. 6, Seed[i + 1] = "set" PROVE Seed[i] = "get"
    <3>1. i = 1 \/ i = 2 \/ i = 3 \/ i = 4 \/ i = 5 \/ i = 6
      OBVIOUS
    <3> QED
      BY <3>1, <2>2 DEF Seed
  <2> QED
    BY <1>1, <2>1, <2>2 DEF Tidy
<1>4. Tidy(Update)
  <2>1. Update[3] = "set"
    BY DEF Update
  <2>2. ASSUME NEW i \in 1 .. 2, Update[i + 1] = "set" PROVE Update[i] = "get"
    <3>1. i = 1 \/ i = 2
      OBVIOUS
    <3> QED
      BY <3>1, <2>2 DEF Update
  <2> QED
    BY <1>1, <2>1, <2>2 DEF Tidy
<1> QED
  BY <1>1, <1>2, <1>3, <1>4

LEMMA RunIsLoader == Run \in Callers /\ Run \notin Seeders /\ Run \notin Admins
BY RegistryAssumption, RunConfigAssumption DEF Callers

LEMMA InitCInv == Init => CInv
<1> SUFFICES ASSUME Init PROVE CInv
  OBVIOUS
<1>1. db \in Database /\ (db.tenant <=> db.row # Null) /\ task = [c \in Callers |-> NoTask]
  BY RegistryAssumption DEF Init, RegistryInit
<1>2. RegInv
  <2>1. \A c \in Callers : task[c] = NoTask /\ task[c].todo = <<>>
    BY <1>1, NoTaskType
  <2> QED
    BY <1>1, <2>1, NoTaskType DEF RegInv, Fits, Relies
<1>3. run = NewRun /\ env \in SUBSET Services /\ held = {db.row} \ {Null}
  BY RunConfigAssumption DEF Init
<1>4. task[Run].row = Null /\ task[Run].outcome = "none"
  BY <1>1, NoTaskType, RunIsLoader
<1>5. RunType
  <2>1. held \in SUBSET Config
    BY <1>1, <1>3 DEF Database
  <2> QED
    BY <1>3, <2>1, RegistryAssumption DEF NewRun, RunType, RunValues, Providers
<1>6. Unloaded
  BY <1>3, <1>4 DEF NewRun, Unloaded
<1>7. run.next = "load_config" /\ Spaces
  BY <1>3 DEF NewRun, Spaces
<1> QED
  BY <1>2, <1>5, <1>6, <1>7 DEF CInv

\* A node that reads the registry's answer, or none: the registry rests.
LEMMA Resting ==
    ASSUME RegInv, UNCHANGED <<db, task>>
    PROVE  RegInv'
BY DEF RegInv

LEMMA CallStep ==
    ASSUME CInv, RegistryWatched, Call, UNCHANGED <<env, run>>,
           held' = held \cup ({db'.row} \ {Null})
    PROVE  CInv'
<1>1. /\ RegInv /\ run.next = "load_config"
      /\ task[Run].outcome = "raised" => ~ task[Run].alone
      /\ env \in SUBSET Services /\ task[Run].row \in held \cup {Null}
  BY DEF CInv, RegistryWatched, Unloaded, RunType, RunValues
<1>2. CASE \E c \in Seeders : Begin(c, Seed, Seeded)
  <2>1. PICK c \in Seeders : Begin(c, Seed, Seeded)
    BY <1>2
  <2>2. c \in Callers /\ c \notin Loaders /\ c \notin Admins
    BY RegistryAssumption DEF Callers
  <2>3. /\ RegInv'
        /\ \A d \in Callers : /\ task'[d].row \in {task[d].row, Null}
                              /\ task'[d].outcome \in {task[d].outcome, "none"}
                              /\ task'[d].outcome = "raised" /\ ~ task[d].alone
                                   => ~ task'[d].alone
    <3>1. Seeded \in Given \cup {Null}
      BY MergedSeeded
    <3>2. Head(Seed) \notin {"set", "remove"}
      BY Programs
    <3> QED
      BY <1>1, <2>1, <2>2, <3>1, <3>2, Programs, BeginStep
  <2>4. /\ task'[Run].row \in {task[Run].row, db'.row, Null}
        /\ task'[Run].outcome = "raised" => ~ task'[Run].alone
    <3>1. /\ task'[Run].row \in {task[Run].row, Null}
          /\ task'[Run].outcome \in {task[Run].outcome, "none"}
          /\ task'[Run].outcome = "raised" /\ ~ task[Run].alone => ~ task'[Run].alone
      BY <2>3, RunIsLoader, Zenon
    <3> QED
      BY <1>1, <3>1
  <2>5. env' \in SUBSET Services /\ UNCHANGED run
    BY <1>1
  <2> QED
    BY <1>1, <2>3, <2>4, <2>5, Watching
<1>3. CASE \E c \in Admins, given \in Updates : Begin(c, Update, given)
  <2>1. PICK c \in Admins, given \in Updates : Begin(c, Update, given)
    BY <1>3
  <2>2. c \in Callers /\ c \notin Loaders /\ c \notin Seeders /\ given \in Given
    BY RegistryAssumption DEF Callers
  <2>3. /\ RegInv'
        /\ \A d \in Callers : /\ task'[d].row \in {task[d].row, Null}
                              /\ task'[d].outcome \in {task[d].outcome, "none"}
                              /\ task'[d].outcome = "raised" /\ ~ task[d].alone
                                   => ~ task'[d].alone
    <3>1. given \in Given \cup {Null}
      BY <2>2
    <3>2. Head(Update) \notin {"set", "remove"}
      BY Programs
    <3> QED
      BY <1>1, <2>1, <2>2, <3>1, <3>2, Programs, BeginStep
  <2>4. /\ task'[Run].row \in {task[Run].row, db'.row, Null}
        /\ task'[Run].outcome = "raised" => ~ task'[Run].alone
    <3>1. /\ task'[Run].row \in {task[Run].row, Null}
          /\ task'[Run].outcome \in {task[Run].outcome, "none"}
          /\ task'[Run].outcome = "raised" /\ ~ task[Run].alone => ~ task'[Run].alone
      BY <2>3, RunIsLoader, Zenon
    <3> QED
      BY <1>1, <3>1
  <2>5. env' \in SUBSET Services /\ UNCHANGED run
    BY <1>1
  <2> QED
    BY <1>1, <2>3, <2>4, <2>5, Watching
<1>4. CASE \E c \in Callers : Execute(c)
  <2>1. PICK c \in Callers : Execute(c)
    BY <1>4
  <2>2. RegInv'
    BY <1>1, <2>1, ExecuteStep
  <2>3. /\ task'[Run].row \in {task[Run].row, db.row, Null}
        /\ task'[Run].outcome = "raised" => ~ task'[Run].alone
    BY <1>1, <2>1, RunTask
  <2>4. task'[Run].row \in {task[Run].row, db'.row, Null}
    <3>1. CASE c = Run
      <4>1. db'.row = db.row
        <5>1. Head(task[Run].todo) = "get" \/ task[Run].todo = <<>>
          BY <1>1, RunIsLoader, RunConfigAssumption, Programs DEF RegInv, Fits
        <5>2. CreateTables(Run) \/ AddColumn(Run) \/ GetConfig(Run)
          BY <2>1, <3>1, <5>1 DEF Execute, InitReturns, RemoveFile, CreateTenant, SetConfig,
             Doing, Active
        <5> QED
          BY <1>1, <5>2 DEF CreateTables, AddColumn, GetConfig, Raise, RegInv, Database
      <4> QED
        BY <2>3, <4>1
    <3>2. CASE c # Run
      BY <2>1, <3>2, <1>1, RunIsLoader DEF RegInv, Execute, CreateTables, AddColumn, InitReturns,
         RemoveFile, CreateTenant, GetConfig, SetConfig, Return, Raise, Task
    <3> QED
      BY <3>1, <3>2
  <2> QED
    BY <1>1, <2>2, <2>3, <2>4, Watching
<1>5. CASE \E c \in Seeders : Stop(c)
  <2>1. PICK c \in Seeders : Stop(c)
    BY <1>5
  <2>2. /\ task' = [d \in Callers |-> IF d \in {c} THEN NoTask ELSE task[d]]
        /\ db' = db /\ c # Run /\ c \in Callers
    BY <2>1, <1>1, RunIsLoader DEF Stop, RegInv, Callers
  <2>3. RegInv'
    BY <1>1, <2>2, Ended
  <2>4. task'[Run] = task[Run]
    BY <2>2, RunIsLoader
  <2> QED
    BY <1>1, <2>3, <2>4, Watching
<1> QED
  BY <1>2, <1>3, <1>4, <1>5 DEF Call
LEMMA BeginLoadStep ==
    ASSUME CInv, BeginLoad, held' = held \cup ({db'.row} \ {Null})
    PROVE  CInv'
<1>1. /\ RegInv /\ run.next = "load_config" /\ task[Run].outcome = "none"
      /\ env \in SUBSET Services /\ task[Run].row \in held \cup {Null}
      /\ Begin(Run, Load, Null) /\ UNCHANGED <<env, run>>
  BY DEF CInv, BeginLoad, Unloaded, RunType, RunValues
<1>2. Run \in Callers /\ Run \in Loaders /\ Run \notin Seeders /\ Run \notin Admins
  BY RunIsLoader, RunConfigAssumption
<1>3. Null \in Given \cup {Null} /\ Head(Load) \notin {"set", "remove"}
  BY Programs
<1>4. /\ RegInv'
      /\ \A d \in Callers : /\ task'[d].row \in {task[d].row, Null}
                            /\ task'[d].outcome \in {task[d].outcome, "none"}
                            /\ task'[d].outcome = "raised" /\ ~ task[d].alone
                                 => ~ task'[d].alone
  BY <1>1, <1>2, <1>3, Programs, BeginStep
<1>5. /\ task'[Run].row \in {task[Run].row, db'.row, Null}
      /\ task'[Run].outcome = "raised" => ~ task'[Run].alone
  BY <1>1, <1>2, <1>4
<1>6. env' \in SUBSET Services /\ UNCHANGED run
  BY <1>1
<1> QED
  BY <1>1, <1>4, <1>5, <1>6, Watching

LEMMA LoadConfigStep ==
    ASSUME CInv, LoadConfig, held' = held \cup ({db'.row} \ {Null})
    PROVE  CInv'
<1>1. /\ RegInv' /\ RunType /\ Unloaded /\ Spaces
      /\ run.next = "load_config" /\ UNCHANGED <<db, task, env>>
      /\ task[Run].outcome # "none"
      /\ run' = [run EXCEPT !.next = "match_tables",
                            !.config = LoadedConfig,
                            !.loaded = IF task[Run].outcome = "raised" THEN "raised"
                                       ELSE IF task[Run].row = Null THEN "defaults" ELSE "row",
                            !.resolved = GetProvider(LoadedConfig.provider)]
  BY Resting DEF CInv, LoadConfig
<1>2. LoadedConfig \in held \cup {Default}
  BY <1>1 DEF Unloaded, LoadedConfig
<1>3. held' \in SUBSET Config /\ held \subseteq held'
  <2>1. db \in Database
    BY DEF CInv, RegInv
  <2> QED
    BY <1>1, <2>1 DEF RunType, RunValues, Database
<1>4. LoadedConfig \in Config
  BY <1>1, <1>2, RegistryAssumption DEF RunType, RunValues
<1>5. GetProvider(LoadedConfig.provider) \in Providers
  BY Providing
<1>6. /\ run'.next = "match_tables" /\ run'.config = LoadedConfig
      /\ run'.resolved = GetProvider(run'.config.provider)
      /\ run'.asked = {} /\ run'.document = Null
      /\ run'.loaded = "raised" => task[Run].outcome = "raised"
      /\ run'.source = "tfidf" /\ run'.dest = "tfidf"
  BY <1>1 DEF RunType, RunValues, Unloaded, Spaces
<1>7. RunType'
  <2> DEFINE loaded == IF task[Run].outcome = "raised" THEN "raised"
                       ELSE IF task[Run].row = Null THEN "defaults" ELSE "row"
  <2>1. loaded \in {"none", "row", "defaults", "raised"}
    OBVIOUS
  <2>2. run' = [run EXCEPT !.next = "match_tables", !.config = LoadedConfig,
                           !.loaded = loaded,
                           !.resolved = GetProvider(LoadedConfig.provider)]
    BY <1>1
  <2> HIDE DEF loaded
  <2>3. run' \in RunValues
    BY <1>1, <1>4, <1>5, <2>1, <2>2 DEF RunType, RunValues
  <2> QED
    BY <1>1, <1>3, <2>3 DEF RunType
<1>8. Loaded'
  BY <1>1, <1>2, <1>3, <1>6 DEF Loaded, Unloaded, GetProvider, Available
<1>9. Spaces'
  BY <1>6 DEF Spaces
<1> QED
  BY <1>1, <1>6, <1>7, <1>8, <1>9 DEF CInv

\* What a node that asks the model does to the run.
LEMMA Asked ==
    ASSUME CInv, run.next # "load_config", UNCHANGED <<db, task, env, held>>,
           NEW next \in {"match_fields", "assemble"}, NEW accepted \in Confidences \cup {Null},
           NEW sourceOk \in BOOLEAN, NEW destOk \in BOOLEAN,
           run' = [Asking(next, sourceOk, destOk) EXCEPT !.accepted = accepted],
           run.document = Null
    PROVE  CInv'
<1> DEFINE space == Retriever(run.config.embedding, sourceOk, destOk).source
<1>1. RegInv' /\ RunType /\ Loaded
  BY Resting DEF CInv
<1>2. /\ space \in {"tfidf", "embeddings"}
      /\ Retriever(run.config.embedding, sourceOk, destOk).dest = space
      /\ run.config.embedding = "tfidf" => space = "tfidf"
  BY DEF Retriever, HasEmbeddings
<1> HIDE DEF space
<1>3. run' = [run EXCEPT !.next = next, !.source = space, !.dest = space,
                         !.asked = @ \cup {GetProvider(run.resolved)},
                         !.accepted = accepted]
  BY <1>1, <1>2 DEF Asking, space, RunType, RunValues
<1>4. GetProvider(run.resolved) \in Providers
  BY Providing
<1>5. RunType'
  <2>1. run.asked \cup {GetProvider(run.resolved)} \in SUBSET Providers
    BY <1>1, <1>4 DEF RunType, RunValues
  <2>2. next \in {"load_config", "match_tables", "match_fields", "assemble", "end"}
    OBVIOUS
  <2> DEFINE r == [next |-> next, config |-> run.config, loaded |-> run.loaded,
                   resolved |-> run.resolved,
                   asked |-> run.asked \cup {GetProvider(run.resolved)},
                   source |-> space, dest |-> space, accepted |-> accepted,
                   restarted |-> run.restarted, document |-> run.document]
  <2>3. run' = r
    BY <1>1, <1>3 DEF RunType, RunValues
  <2>4. /\ run.config \in Config /\ run.loaded \in {"none", "row", "defaults", "raised"}
        /\ run.resolved \in Providers /\ run.restarted \in BOOLEAN
        /\ run.document \in Providers \cup {Null}
    BY <1>1 DEF RunType, RunValues
  <2>5. env' \in SUBSET Services /\ held' \in SUBSET Config
    BY <1>1 DEF RunType, RunValues
  <2> QED
    <3>1. r \in RunValues
      BY <1>2, <2>1, <2>2, <2>4 DEF RunValues
    <3> HIDE DEF r
    <3> QED
      BY <2>3, <2>5, <3>1 DEF RunType
<1>6. /\ run'.next = next /\ run'.config = run.config /\ run'.loaded = run.loaded
      /\ run'.resolved = run.resolved /\ run'.restarted = run.restarted
      /\ run'.document = Null /\ run'.source = space /\ run'.dest = space
      /\ run'.asked = run.asked \cup {GetProvider(run.resolved)}
  BY <1>1, <1>3 DEF RunType, RunValues
<1>7. /\ run.resolved = "offline" => GetProvider(run.resolved) = "offline"
      /\ ~ run.restarted => GetProvider(run.resolved) = run.resolved
  BY <1>1, Providing DEF Loaded
<1>8. /\ run'.resolved = "offline" => run'.asked \subseteq {"offline"}
      /\ ~ run'.restarted => run'.asked = {run'.resolved}
  BY <1>1, <1>6, <1>7 DEF Loaded
<1>9. ~ run'.restarted => run'.resolved = GetProvider(run'.config.provider)
  BY <1>1, <1>6 DEF Loaded
<1>10. Loaded'
  <2>1. /\ run'.config \in held' \cup {Default}
        /\ run'.loaded = "raised" => ~ task'[Run].alone
    BY <1>1, <1>6 DEF Loaded
  <2>2. ~ run'.restarted => run'.resolved = GetProvider(run.config.provider)
    BY <1>6, <1>9
  <2> QED
    BY <1>6, <1>8, <2>1, <2>2 DEF Loaded, GetProvider, Available
<1>11. Spaces'
  BY <1>2, <1>6 DEF Spaces
<1> QED
  BY <1>1, <1>5, <1>6, <1>10, <1>11 DEF CInv

LEMMA AssembleStep ==
    ASSUME CInv, Assemble, UNCHANGED held
    PROVE  CInv'
<1>1. /\ RegInv' /\ RunType /\ Loaded /\ Spaces /\ UNCHANGED <<db, task, env>>
      /\ run.next = "assemble"
      /\ run' = [run EXCEPT !.next = "end", !.document = run.resolved]
  BY Resting DEF CInv, Assemble
<1>2. RunType'
  BY <1>1 DEF RunType, RunValues
<1>3. /\ run'.next = "end" /\ run'.config = run.config /\ run'.loaded = run.loaded
      /\ run'.resolved = run.resolved /\ run'.restarted = run.restarted
      /\ run'.document = run.resolved /\ run'.source = run.source
      /\ run'.dest = run.dest /\ run'.asked = run.asked
  BY <1>1 DEF RunType, RunValues
<1>4. ~ run'.restarted => /\ run'.resolved = GetProvider(run'.config.provider)
                          /\ run'.asked = {run'.resolved}
  BY <1>1, <1>3 DEF Loaded
<1>5. Loaded'
  BY <1>1, <1>3, <1>4 DEF Loaded, GetProvider, Available
<1>6. Spaces'
  BY <1>1, <1>3 DEF Spaces
<1> QED
  BY <1>1, <1>2, <1>3, <1>5, <1>6 DEF CInv

\* Seeding scripts are other processes and go on; and what the run was told of
\* the registry is in its state from load_config on.
LEMMA RestartStep ==
    ASSUME CInv, Restart,
           held' = IF run.next = "load_config" THEN held \cup ({db'.row} \ {Null}) ELSE held
    PROVE  CInv'
<1> DEFINE ended == {c \in Callers : ~ (c \in Seeders \/ (c = Run /\ run.next # "load_config"))}
<1>1. /\ task' = [c \in Callers |-> IF c \in ended THEN NoTask ELSE task[c]]
      /\ UNCHANGED db /\ env' \in SUBSET Services
      /\ run' = [run EXCEPT !.restarted = run.next # "load_config"]
  BY RunConfigAssumption DEF Restart
<1>2. RegInv'
  BY <1>1, Ended DEF CInv
<1>3. CASE run.next = "load_config"
  <2>1. task'[Run] = NoTask
    BY <1>1, <1>3, RunIsLoader
  <2>2. run' = run
    BY <1>1, <1>3 DEF CInv, Unloaded, RunType, RunValues
  <2> QED
    BY <1>1, <1>2, <1>3, <2>1, <2>2, NoTaskType, Watching
<1>4. CASE run.next # "load_config"
  <2>1. /\ task'[Run] = task[Run] /\ held' = held /\ RunType /\ Loaded /\ Spaces
    BY <1>1, <1>4, RunIsLoader DEF CInv
  <2>2. /\ run'.next = run.next /\ run'.config = run.config /\ run'.loaded = run.loaded
        /\ run'.resolved = run.resolved /\ run'.restarted
        /\ run'.document = run.document /\ run'.source = run.source
        /\ run'.dest = run.dest /\ run'.asked = run.asked
    BY <1>1, <1>4, <2>1 DEF RunType, RunValues
  <2>3. RunType'
    BY <1>1, <1>4, <2>1 DEF RunType, RunValues
  <2>4. Loaded'
    BY <2>1, <2>2 DEF Loaded
  <2>5. Spaces'
    BY <2>1, <2>2 DEF Spaces
  <2> QED
    BY <1>2, <1>4, <2>2, <2>3, <2>4, <2>5 DEF CInv
<1> QED
  BY <1>3, <1>4

LEMMA NextStep ==
    ASSUME CInv, [Next]_vars
    PROVE  CInv'
<1>1. CASE UNCHANGED vars
  <2>1. RegInv'
    BY <1>1, Resting DEF CInv, vars
  <2> QED
    BY <1>1, <2>1 DEF CInv, vars, RunType, RunValues, Unloaded, Loaded, Spaces, GetProvider, Available
<1>2. CASE Next
  <2>1. held' = IF run.next = "load_config" THEN held \cup ({db'.row} \ {Null}) ELSE held
    BY <1>2 DEF Next
  <2>2. CASE RegistryWatched /\ Call /\ UNCHANGED <<env, run>>
    BY <2>1, <2>2, CallStep DEF RegistryWatched
  <2>3. CASE BeginLoad
    BY <2>1, <2>3, BeginLoadStep DEF BeginLoad
  <2>4. CASE LoadConfig
    BY <2>1, <2>4, LoadConfigStep DEF LoadConfig
  <2>5. CASE MatchTables
    <3>1. PICK sourceOk \in BOOLEAN, destOk \in BOOLEAN :
            run' = Asking("match_fields", sourceOk, destOk)
      BY <2>5 DEF MatchTables
    <3>2. run.next = "match_tables" /\ UNCHANGED <<db, task, env, held>>
      BY <2>1, <2>5 DEF MatchTables
    <3>3. RunType /\ run.document = Null
      BY <3>2 DEF CInv, Loaded
    <3>4. run.accepted \in Confidences \cup {Null}
      BY <3>3 DEF RunType, RunValues
    <3>5. run' = [Asking("match_fields", sourceOk, destOk) EXCEPT !.accepted = run.accepted]
      BY <3>1, <3>3 DEF Asking, RunType, RunValues
    <3> QED
      BY <3>2, <3>3, <3>4, <3>5, Asked
  <2>6. CASE MatchFields
    <3>1. PICK sourceOk \in BOOLEAN, destOk \in BOOLEAN, conf \in Confidences :
            run' = [Asking("assemble", sourceOk, destOk) EXCEPT
                      !.accepted = IF conf < run.config.threshold THEN Null ELSE conf]
      BY <2>6 DEF MatchFields
    <3>2. run.next = "match_fields" /\ UNCHANGED <<db, task, env, held>>
      BY <2>1, <2>6 DEF MatchFields
    <3>3. run.document = Null
      BY <3>2 DEF CInv, Loaded
    <3> DEFINE accepted == IF conf < run.config.threshold THEN Null ELSE conf
    <3>4. accepted \in Confidences \cup {Null}
      OBVIOUS
    <3> HIDE DEF accepted
    <3>5. run' = [Asking("assemble", sourceOk, destOk) EXCEPT !.accepted = accepted]
      BY <3>1 DEF accepted
    <3> QED
      BY <3>2, <3>3, <3>4, <3>5, Asked
  <2>7. CASE Assemble
    BY <2>1, <2>7, AssembleStep DEF Assemble
  <2>8. CASE Restart
    BY <2>1, <2>8, RestartStep
  <2> QED
    BY <1>2, <2>2, <2>3, <2>4, <2>5, <2>6, <2>7, <2>8 DEF Next, Node
<1> QED
  BY <1>1, <1>2

-----------------------------------------------------------------------------
(* What follows                                                              *)

\* The invariant of the registry and of the run holds in every state.
THEOREM Inductive == Spec => []CInv
<1>1. Init => CInv
  BY InitCInv
<1>2. CInv /\ [Next]_vars => CInv'
  BY NextStep
<1> QED
  BY <1>1, <1>2, PTL DEF Spec

\* Every variable keeps its type: the database's rows, every task, the run.
THEOREM TypeCorrect == Spec => []TypeOK
<1>1. CInv => TypeOK
  BY DEF CInv, RunType, RunValues, TypeOK, RegInv, RegistryTypeOK
<1> QED
  BY <1>1, Inductive, PTL

\* A tenant is there exactly when its configuration is, at every commit
\* (registry.py, 94-107).
THEOREM RowsStayTogether == Spec => []RowsTogether
<1>1. CInv => RowsTogether
  BY DEF CInv, RegInv, RowsTogether
<1> QED
  BY <1>1, Inductive, PTL

\* A run works with one configuration the registry held, or with the defaults
\* (nodes.py, 57-97).
THEOREM SnapshotsAreWhole == Spec => []SnapshotWhole
<1>1. CInv => SnapshotWhole
  BY DEF CInv, Loaded, SnapshotWhole
<1> QED
  BY <1>1, Inductive, PTL

\* The defaults stand in for a configuration that is there only if another
\* caller used the registry at the same time (nodes.py, 69-79).
THEOREM DefaultsComeOfRaces == Spec => []DefaultsOnlyByRace
<1>1. CInv => DefaultsOnlyByRace
  BY DEF CInv, Loaded, Unloaded, DefaultsOnlyByRace
<1> QED
  BY <1>1, Inductive, PTL

\* A run that began offline asks no vendor (factory.py, 33-44).
THEOREM OfflineRunsStay == Spec => []OfflineStays
<1>1. CInv => OfflineStays
  BY DEF CInv, Loaded, OfflineStays
<1> QED
  BY <1>1, Inductive, PTL

\* In one process the provider that is asked is the one the document names, and
\* no other than the pinned one if that is available (factory.py, 33-44).
THEOREM ProvidersAreRecorded == Spec => []RecordedUnlessRestarted
<1>1. CInv => RecordedUnlessRestarted
  <2> SUFFICES ASSUME CInv, ~ run.restarted
               PROVE  /\ run.document # Null => run.asked = {run.document}
                      /\ run.config.provider \in Providers /\ Available(run.config.provider)
                           => run.asked \subseteq {run.config.provider}
    BY DEF RecordedUnlessRestarted
  <2>1. CASE run.next = "load_config"
    BY <2>1 DEF CInv, Unloaded
  <2>2. CASE run.next # "load_config"
    <3>1. Loaded
      BY <2>2 DEF CInv
    <3>2. run.config.provider \in Providers /\ Available(run.config.provider)
            => run.resolved = run.config.provider
      BY <3>1, Providing DEF Loaded
    <3> QED
      BY <3>1, <3>2 DEF Loaded
  <2> QED
    BY <2>1, <2>2
<1> QED
  BY <1>1, Inductive, PTL

\* Source and destination vectors are of one space, tfidf if the tenant says so
\* (retriever.py, 83-101).
THEOREM SpacesAreOne == Spec => []OneSpace
<1>1. CInv => OneSpace
  BY DEF CInv, Spaces, OneSpace
<1> QED
  BY <1>1, Inductive, PTL
-----------------------------------------------------------------------------
(* A task that is alone                                                      *)

\* A task ends only by a step of its own.
LEMMA OwnStep ==
    ASSUME CInv, Next, NEW c \in Callers, Active(c), task'[c].outcome # "none"
    PROVE  Execute(c)
<1>1. task \in [Callers -> Task] /\ task[c].outcome = "none"
  BY Finds DEF CInv, RegInv, Active
<1>2. CASE \E d \in Callers : Execute(d)
  <2>1. PICK d \in Callers : Execute(d)
    BY <1>2
  <2>2. c # d => task'[c].outcome = task[c].outcome
    BY <1>1, <2>1 DEF Execute, CreateTables, AddColumn, InitReturns, RemoveFile, CreateTenant,
       GetConfig, SetConfig, Return, Raise, Task
  <2> QED
    BY <1>1, <2>1, <2>2
<1>3. CASE \E d \in Callers : \E program, given : Begin(d, program, given)
  <2>1. PICK d \in Callers : \E program, given : Begin(d, program, given)
    BY <1>3
  <2>2. PICK program, given : Begin(d, program, given)
    BY <2>1
  <2>3. c # d /\ task'[c] = [task[c] EXCEPT !.alone = @ /\ ~ Active(c)]
    BY <1>1, <2>2 DEF Begin
  <2>4. task[c] \in Task
    BY <1>1
  <2>5. task'[c].outcome = task[c].outcome
    BY <2>3, <2>4 DEF Task
  <2> QED
    BY <1>1, <2>5
<1>4. CASE task'[c] = NoTask \/ task'[c] = task[c]
  BY <1>1, <1>4, NoTaskType
<1>5. CASE Call
  <2>1. CASE \E d \in Seeders : Stop(d)
    <3>1. task'[c] = NoTask \/ task'[c] = task[c]
      BY <1>1, <2>1 DEF Stop
    <3> QED
      BY <1>4, <3>1
  <2> QED
    BY <1>2, <1>3, <1>5, <2>1 DEF Call, Callers
<1>6. CASE Node
  <2>1. CASE BeginLoad
    BY <1>3, <2>1, RunIsLoader DEF BeginLoad
  <2>2. CASE ~ BeginLoad
    <3>1. task' = task
      BY <1>6, <2>2 DEF Node, LoadConfig, MatchTables, MatchFields, Assemble
    <3> QED
      BY <1>4, <3>1
  <2> QED
    BY <2>1, <2>2
<1>7. CASE Restart
  <2>1. task'[c] = NoTask \/ task'[c] = task[c]
    BY <1>7 DEF Restart
  <2> QED
    BY <1>4, <2>1
<1> QED
  BY <1>5, <1>6, <1>7 DEF Next

\* Alone, a function fails only if it writes the configuration of no tenant.
LEMMA AloneRaises ==
    ASSUME RegInv, NEW c \in Callers, Execute(c), task[c].alone, task'[c].outcome = "raised"
    PROVE  Doing(c, "set") /\ ~ db.tenant
<1>1. task[c].todo # <<>>
  BY DEF Execute, CreateTables, AddColumn, InitReturns, RemoveFile, CreateTenant, GetConfig,
     SetConfig, Step, Doing, Active
<1>2. /\ task \in [Callers -> Task] /\ task[c] \in Task /\ task[c].outcome = "none"
      /\ ~ task[c].unlinked
      /\ task[c].at = "alter" => db.schema = "old"
      /\ task[c].at = "query" => db.schema # "none"
  BY <1>1, Finds DEF Relies, RegInv
<1>3. ~ CreateTables(c)
  BY <1>2 DEF CreateTables, Task
<1>4. ~ AddColumn(c)
  BY <1>2 DEF AddColumn, Step, Task
<1>5. \A row : Return(c, row) => task'[c].outcome # "raised"
  BY <1>2 DEF Return, NoTask, Task
<1>6. ~ InitReturns(c)
  BY <1>5 DEF InitReturns
<1>7. ~ RemoveFile(c)
  BY <1>2 DEF RemoveFile, Task
<1>8. ~ CreateTenant(c)
  BY <1>2, <1>5 DEF CreateTenant, Step
<1>9. ~ GetConfig(c)
  BY <1>2, <1>5 DEF GetConfig, Step
<1>10. SetConfig(c)
  BY <1>3, <1>4, <1>6, <1>7, <1>8, <1>9 DEF Execute
<1> QED
  BY <1>2, <1>5, <1>10 DEF SetConfig, Step

\* A seeding or an update that succeeds ends with the write, and alone it writes
\* over the row it read.
LEMMA AloneWrites ==
    ASSUME RegInv, NEW c \in Callers, c \notin Loaders, Execute(c), task[c].alone,
           task'[c].outcome = "ok"
    PROVE  /\ task[c].row = db.row /\ db.row # Null
           /\ db'.tenant /\ db'.row = Merged(db.row, task[c].given)
<1>1. task[c].todo # <<>>
  BY DEF Execute, CreateTables, AddColumn, InitReturns, RemoveFile, CreateTenant, GetConfig,
     SetConfig, Step, Doing, Active
<1>2. /\ task \in [Callers -> Task] /\ task[c] \in Task /\ task[c].outcome = "none"
      /\ Head(task[c].todo) = "set" => task[c].row = db.row
      /\ Tidy(task[c].todo)
      /\ db \in Database /\ (db.tenant <=> db.row # Null)
  BY <1>1, Finds DEF Relies, Fits, RegInv
<1>3. Tail(task[c].todo) = <<>> => Head(task[c].todo) = "set"
  <2>1. task[c].todo \in Seq(Operations)
    BY <1>2 DEF Task
  <2> QED
    BY <1>1, <1>2, <2>1, RestOf
<1>4. ~ Raise(c)
  <2>1. Raise(c) => task'[c].outcome = "raised"
    BY <1>2 DEF Raise, NoTask
  <2> QED
    BY <2>1
<1>5. \A row : Return(c, row) => Tail(task[c].todo) = <<>>
  BY <1>2 DEF Return, NoTask, Task
<1>6. ~ CreateTables(c) /\ ~ RemoveFile(c)
  <2>1. CreateTables(c) => task'[c].outcome = task[c].outcome
    <3>1. CreateTables(c) => task' = [task EXCEPT ![c].at = AfterColumns]
      BY DEF CreateTables
    <3> QED
      BY <1>2, <3>1 DEF Task
  <2>2. RemoveFile(c) => task'[c].outcome = task[c].outcome
    <3>1. RemoveFile(c) => task'[c] = [task[c] EXCEPT !.todo = Tail(@)]
      BY DEF RemoveFile
    <3> QED
      BY <1>2, <3>1 DEF Task
  <2> QED
    BY <1>2, <2>1, <2>2
<1>7. ~ AddColumn(c)
  BY <1>2, <1>4 DEF AddColumn, Task
<1>8. ~ InitReturns(c) /\ ~ CreateTenant(c) /\ ~ GetConfig(c)
  BY <1>3, <1>4, <1>5 DEF InitReturns, CreateTenant, GetConfig, Doing
<1>9. SetConfig(c)
  BY <1>6, <1>7, <1>8 DEF Execute
<1> QED
  BY <1>2, <1>4, <1>9 DEF SetConfig, Doing, Database

\* A task that no other overlaps does what it says: it fails only to update the
\* configuration of no tenant, a seeding leaves the seeded configuration, an
\* update changes the columns it gives and no other (registry.py, 48-87, 133-150).
THEOREM AloneIsExact == Spec => AloneExact
<1> DEFINE exact(c) ==
      /\ task'[c].outcome = "raised" => Doing(c, "set") /\ ~ db.tenant
      /\ c \in Seeders /\ task'[c].outcome = "ok" => db'.tenant /\ db'.row = Seeded
      /\ c \in Admins /\ task'[c].outcome = "ok" =>
            \A k \in Columns :
                db'.row[k] = IF k \in DOMAIN task[c].given THEN task[c].given[k]
                             ELSE db.row[k]
<1>1. ASSUME CInv, [Next]_vars
      PROVE  [\A c \in Callers : Active(c) /\ task[c].alone => exact(c)]_registryVars
  <2> SUFFICES ASSUME Next, NEW c \in Callers, Active(c), task[c].alone PROVE exact(c)
    BY <1>1 DEF vars, registryVars
  <2>1. RegInv
    BY <1>1 DEF CInv
  <2>2. CASE task'[c].outcome = "none"
    BY <2>2
  <2>3. CASE task'[c].outcome # "none"
    <3>1. Execute(c)
      BY <1>1, <2>3, OwnStep
    <3>2. task'[c].outcome = "raised" => Doing(c, "set") /\ ~ db.tenant
      BY <2>1, <3>1, AloneRaises
    <3>3. ASSUME c \notin Loaders, task'[c].outcome = "ok"
          PROVE  /\ task[c].row = db.row /\ db.row # Null
                 /\ db'.tenant /\ db'.row = Merged(db.row, task[c].given)
      BY <2>1, <3>1, <3>3, AloneWrites
    <3>4. c \in Seeders \/ c \in Admins => c \notin Loaders
      BY RegistryAssumption
    <3>5. ASSUME c \in Seeders, task'[c].outcome = "ok"
          PROVE  db'.tenant /\ db'.row = Seeded
      <4>1. task[c].given = Seeded
        BY <2>1, <3>5, Finds DEF Fits, Active
      <4> QED
        BY <3>3, <3>4, <3>5, <4>1, MergedSeeded
    <3>6. ASSUME c \in Admins, task'[c].outcome = "ok", NEW k \in Columns
          PROVE  db'.row[k] = IF k \in DOMAIN task[c].given THEN task[c].given[k]
                              ELSE db.row[k]
      <4>1. db.row # Null /\ db'.row = Merged(db.row, task[c].given)
        BY <3>3, <3>4, <3>6
      <4> QED
        BY <3>6, <4>1 DEF Merged
    <3> QED
      BY <3>2, <3>5, <3>6
  <2> QED
    BY <2>2, <2>3
<1> QED
  BY <1>1, Inductive, PTL DEF Spec, AloneExact
=============================================================================
