--------------------------- MODULE JobSubmission ----------------------------
(***************************************************************************)
(* How a job gets into the table: the web form, the request on its way,    *)
(* the checks of the API's schema and of JobService, and the INSERT.       *)
(*                                                                         *)
(* Time passes between the form's own checks and those of the service, the *)
(* connection may break while the service goes on, and the user may then   *)
(* submit again.  A request is one of Requests from its arrival to the end *)
(* of its handler; clients other than the form post what they like.        *)
(*                                                                         *)
(* max_runtime and max_memory are treated alike everywhere: limit stands   *)
(* for both.  It is "fine" if absent or a positive 32-bit integer.         *)
(***************************************************************************)
EXTENDS Integers, Sequences, FiniteSets, Functions

CONSTANTS
    Forms,         \* browser pages that show the form
    Requests,      \* POSTs that can be made; each is made once
    Ids,           \* job ids, stored or not
    Malformed,     \* a dependency that is no UUID
    NULL,
    MaxTime,       \* bound on the clock
    Contents,      \* what is typed into the form: see Content
    DirectPosts,   \* what other clients send
    Faults         \* "network": a connection breaks; "db": a statement raises

Limits == {"fine", "nonpositive", "fraction", "toolarge"}
Stages == {"unsent", "sent", "dropped", "lookup", "insert", "answered"}
Keys   == {"command", "start_time", "limit", "depends_on"}

\* A start_time of NULL is missing or has no time zone.
Content == [command    : {"", "spaces", "text"},
            start_time : 0 .. MaxTime \cup {NULL},
            limit      : Limits,
            depends_on : Seq(Ids \cup {Malformed})]

ASSUME ContentAssumption == Contents \cup DirectPosts \subseteq Content
ASSUME IdAssumption      == IsFiniteSet(Ids) /\ Malformed \notin Ids
ASSUME ClockAssumption   == MaxTime \in Nat

VARIABLES
    now,
    fields,     \* fields[f]: what the form contains
    errors,     \* errors[f][k]: clientErrors[k]: absent, cleared or a message
    touched,    \* history: keys of f edited since its last click
    last,       \* last[f]: the request of f's last submission
    answer,     \* answer[f]: result of the mutation; NULL idle or pending
    body,       \* body[r]: the request's JSON
    stage,      \* stage[r]: where the handler of r is
    created_at, \* created_at[r]: the clock when the handler looked at it
    reply,      \* reply[r]: what the handler answered
    jobs        \* jobs[id]: the stored row, or NULL

formVars    == <<fields, errors, touched, last, answer>>
requestVars == <<body, stage, created_at, reply>>
submitVars  == <<now, formVars, requestVars, jobs>>

\* A 422 of the schema names fields ("element": a place inside depends_on);
\* one of the service, a 500 and a broken connection come as one message.
Replies ==
    [kind : {"fields"}, fields : SUBSET (Keys \cup {"element"})]
        \cup [kind : {"message"}, status : {422, 500, 0}]
        \cup [kind : {"created"}, id : Ids]

Fields(set)     == [kind |-> "fields", fields |-> set]
Message(status) == [kind |-> "message", status |-> status]
Created(id)     == [kind |-> "created", id |-> id]

\* A row, and the request it comes from.
Rows == [content : Content, created_at : 0 .. MaxTime, by : Requests]

ASSUME NullIsNoValue == NULL \notin Requests \cup Rows \cup Replies

Stored(id) == jobs[id] # NULL

SubmitInit ==
    /\ now = 0
    /\ fields \in [Forms -> Contents]
    /\ errors = [f \in Forms |-> [k \in Keys |-> "absent"]]
    /\ touched = [f \in Forms |-> {}]
    /\ last = [f \in Forms |-> NULL]
    /\ answer = [f \in Forms |-> NULL]
    /\ body = [r \in Requests |-> NULL]
    /\ stage = [r \in Requests |-> "unsent"]
    /\ created_at = [r \in Requests |-> 0]
    /\ reply = [r \in Requests |-> NULL]
    /\ jobs = [id \in Ids |-> NULL]

-----------------------------------------------------------------------------
(* The form.                                                               *)

\* mutation.isPending, which disables the button.
Pending(f) == last[f] # NULL /\ answer[f] = NULL

\* validate().
ClientErrors(f) ==
    {k \in Keys :
        \/ k = "command" /\ fields[f].command \in {"", "spaces"}
        \/ k = "start_time" /\ (fields[f].start_time = NULL \/ fields[f].start_time <= now)
        \/ k = "limit" /\ fields[f].limit = "nonpositive"}

\* What fieldError shows: clientErrors[key] ?? serverFieldError(key), where a
\* cleared client error hides the server's.
Displayed(f) ==
    {k \in Keys :
        \/ errors[f][k] = "message"
        \/ /\ errors[f][k] = "absent"
           /\ answer[f] # NULL /\ answer[f].kind = "fields" /\ k \in answer[f].fields}

\* The user changes one field; nothing prevents it while a request is pending.
Edit(f) ==
    /\ \E c \in Contents, k \in Keys :
          /\ \A other \in Keys \ {k} : c[other] = fields[f][other]
          /\ c[k] # fields[f][k]
          /\ fields' = [fields EXCEPT ![f] = c]
          /\ errors' = [errors EXCEPT ![f][k] = "cleared"]
          /\ touched' = [touched EXCEPT ![f] = @ \cup {k}]
    /\ UNCHANGED <<now, last, answer, requestVars, jobs>>

Send(r, c) ==
    /\ stage[r] = "unsent"
    /\ body' = [body EXCEPT ![r] = c]
    /\ stage' = [stage EXCEPT ![r] = "sent"]
    /\ UNCHANGED <<created_at, reply>>

\* Mutant of Click: a submission leaves cleared errors cleared.
ClickKeepsCleared(f) ==
    /\ ~Pending(f)
    /\ errors' = [errors EXCEPT ![f] =
           [k \in Keys |-> IF k \in ClientErrors(f) THEN "message" ELSE @[k]]]
    /\ touched' = [touched EXCEPT ![f] = {}]
    /\ ClientErrors(f) = {}
    /\ \E r \in Requests : Send(r, fields[f]) /\ last' = [last EXCEPT ![f] = r]
    /\ answer' = [answer EXCEPT ![f] = NULL]
    /\ UNCHANGED <<now, fields, jobs>>

(* handleSubmit: nothing is sent while the form's own checks fail, and the *)
(* result of an earlier submission stays on the page.                      *)
Click(f) ==
    /\ ~Pending(f)
    /\ errors' = [errors EXCEPT ![f] =
           [k \in Keys |-> IF k \in ClientErrors(f) THEN "message" ELSE "absent"]]
    /\ touched' = [touched EXCEPT ![f] = {}]
    /\ \/ ClientErrors(f) # {} /\ UNCHANGED <<last, answer, requestVars>>
       \/ /\ ClientErrors(f) = {}
          /\ \E r \in Requests : Send(r, fields[f]) /\ last' = [last EXCEPT ![f] = r]
          /\ answer' = [answer EXCEPT ![f] = NULL]
    /\ UNCHANGED <<now, fields, jobs>>

\* Mutant of Receive: whatever has been answered is taken for the answer.
ReceiveAny(f) ==
    /\ Pending(f)
    /\ \E r \in Requests : reply[r] # NULL /\ answer' = [answer EXCEPT ![f] = reply[r]]
    /\ UNCHANGED <<now, fields, errors, touched, last, requestVars, jobs>>

(* The answer arrives, ...                                                 *)
Receive(f) ==
    /\ Pending(f)
    /\ reply[last[f]] # NULL
    /\ answer' = [answer EXCEPT ![f] = reply[last[f]]]
    /\ UNCHANGED <<now, fields, errors, touched, last, requestVars, jobs>>

(* ... or the connection breaks, before the request has arrived or after:  *)
(* then the handler goes on, and a later answer is nobody's.               *)
Break(f) ==
    /\ "network" \in Faults
    /\ Pending(f)
    /\ answer' = [answer EXCEPT ![f] = Message(0)]
    /\ \/ UNCHANGED stage
       \/ stage[last[f]] = "sent" /\ stage' = [stage EXCEPT ![last[f]] = "dropped"]
    /\ UNCHANGED <<now, fields, errors, touched, last, body, created_at, reply, jobs>>

-----------------------------------------------------------------------------
(* The API.                                                                *)
Post(r) ==
    /\ \E c \in DirectPosts : Send(r, c)
    /\ UNCHANGED <<now, formVars, jobs>>

\* Mutant of SchemaErrors: the first component of loc is taken, not the last.
SchemaErrorsAtRoot(c) ==
    {k \in {"body"} :
        \/ c.command = ""
        \/ c.start_time = NULL
        \/ c.limit \in {"nonpositive", "fraction"}
        \/ Malformed \in Range(c.depends_on)}

\* ScheduleJobRequest: the places its 422 names.
SchemaErrors(c) ==
    {k \in Keys \cup {"element"} :
        \/ k = "command" /\ c.command = ""
        \/ k = "start_time" /\ c.start_time = NULL
        \/ k = "limit" /\ c.limit \in {"nonpositive", "fraction"}
        \/ k = "element" /\ Malformed \in Range(c.depends_on)}

Finish(r, answered) ==
    /\ stage' = [stage EXCEPT ![r] = "answered"]
    /\ reply' = [reply EXCEPT ![r] = answered]
    /\ body' = [body EXCEPT ![r] = NULL]

(* The schema refuses the request, ...                                     *)
Refuse(r) ==
    /\ stage[r] = "sent"
    /\ SchemaErrors(body[r]) # {}
    /\ Finish(r, Fields(SchemaErrors(body[r])))
    /\ UNCHANGED <<now, formVars, created_at, jobs>>

Proceed(r) ==
    /\ created_at' = [created_at EXCEPT ![r] = now]
    /\ stage' = [stage EXCEPT ![r] = IF body[r].depends_on = <<>> THEN "insert" ELSE "lookup"]
    /\ UNCHANGED <<now, formVars, body, reply, jobs>>

\* Mutant of Check: the service leaves the start time to the form.
CheckCommandOnly(r) ==
    /\ stage[r] = "sent"
    /\ SchemaErrors(body[r]) = {}
    /\ body[r].command # "spaces"
    /\ Proceed(r)

(* ... or schedule_job does, or goes on to its first statement.            *)
Check(r) ==
    /\ stage[r] = "sent"
    /\ SchemaErrors(body[r]) = {}
    /\ \/ /\ body[r].command = "spaces" \/ body[r].start_time <= now
          /\ Finish(r, Message(422))
          /\ UNCHANGED <<now, formVars, created_at, jobs>>
       \/ /\ body[r].command # "spaces" /\ body[r].start_time > now
          /\ Proceed(r)

\* Mutant of ExistsAll: the comparison is the wrong one.
ExistsAllAtMost(ids) == Cardinality({id \in Range(ids) : Stored(id)}) <= Len(ids)

\* exists_all: the number of rows with one of the ids is the number of ids.
ExistsAll(ids) == Cardinality({id \in Range(ids) : Stored(id)}) = Len(ids)

Lookup(r) ==
    /\ stage[r] = "lookup"
    /\ \/ ExistsAll(body[r].depends_on) /\ stage' = [stage EXCEPT ![r] = "insert"]
          /\ UNCHANGED <<body, reply>>
       \/ ~ExistsAll(body[r].depends_on) /\ Finish(r, Message(422))
    /\ UNCHANGED <<now, formVars, created_at, jobs>>

Store(r, id) ==
    /\ ~Stored(id)
    /\ jobs' = [jobs EXCEPT ![id] =
           [content |-> body[r], created_at |-> created_at[r], by |-> r]]

\* Mutant of Insert: conn.begin() is missing, and the INSERT is rolled back.
InsertUncommitted(r) ==
    /\ stage[r] = "insert"
    /\ \E id \in Ids : ~Stored(id) /\ Finish(r, Created(id))
    /\ UNCHANGED <<now, formVars, created_at, jobs>>

(* save: a limit of more than 32 bits is refused by the column.            *)
Insert(r) ==
    /\ stage[r] = "insert"
    /\ \/ body[r].limit = "toolarge" /\ Finish(r, Message(500)) /\ UNCHANGED jobs
       \/ /\ body[r].limit # "toolarge"
          /\ \E id \in Ids : Store(r, id) /\ Finish(r, Created(id))
    /\ UNCHANGED <<now, formVars, created_at>>

\* Mutant of StatementFails: the failed INSERT is tried once more.
StatementRetried(r) ==
    /\ "db" \in Faults
    /\ stage[r] = "insert"
    /\ body[r].limit # "toolarge"
    /\ \E id \in Ids : Store(r, id)
    /\ UNCHANGED <<now, formVars, requestVars>>

(* A statement raises; the INSERT may have been committed all the same.    *)
StatementFails(r) ==
    /\ "db" \in Faults
    /\ stage[r] \in {"lookup", "insert"}
    /\ Finish(r, Message(500))
    /\ \/ UNCHANGED jobs
       \/ /\ stage[r] = "insert" /\ body[r].limit # "toolarge"
          /\ \E id \in Ids : Store(r, id)
    /\ UNCHANGED <<now, formVars, created_at>>

-----------------------------------------------------------------------------
Wait ==
    /\ now < MaxTime
    /\ now' = now + 1
    /\ UNCHANGED <<formVars, requestVars, jobs>>

SubmitNext ==
    \/ Wait
    \/ \E f \in Forms : Edit(f) \/ Click(f) \/ Receive(f) \/ Break(f)
    \/ \E r \in Requests :
          Post(r) \/ Refuse(r) \/ Check(r) \/ Lookup(r) \/ Insert(r) \/ StatementFails(r)

SubmitSpec == SubmitInit /\ [][SubmitNext]_submitVars

-----------------------------------------------------------------------------
SubmitTypeOK ==
    /\ now \in 0 .. MaxTime
    /\ fields \in [Forms -> Content]
    /\ errors \in [Forms -> [Keys -> {"absent", "cleared", "message"}]]
    /\ touched \in [Forms -> SUBSET Keys]
    /\ last \in [Forms -> Requests \cup {NULL}]
    /\ answer \in [Forms -> Replies \cup {NULL}]
    /\ body \in [Requests -> Content \cup {NULL}]
    /\ stage \in [Requests -> Stages]
    /\ created_at \in [Requests -> 0 .. MaxTime]
    /\ reply \in [Requests -> Replies \cup {NULL}]
    /\ jobs \in [Ids -> Rows \cup {NULL}]

\* Whatever is posted, and however long the statements take, a stored job has
\* a command, starts later than it was created, keeps to the limits of its
\* columns, and depends on other stored jobs only.
StoredJobsAreValid ==
    \A id \in Ids : Stored(id) =>
        LET job == jobs[id].content
        IN  /\ job.command = "text"
            /\ job.limit = "fine"
            /\ job.start_time # NULL /\ job.start_time > jobs[id].created_at
            /\ \A d \in Range(job.depends_on) : d # id /\ d \in Ids /\ Stored(d)

\* A handler that has answered 422 has stored nothing, and one that has answered
\* 201 has stored the job it names: the answer and the transactions agree.
RepliesAreTrue ==
    \A r \in Requests : reply[r] # NULL =>
        /\ reply[r].kind = "created" => Stored(reply[r].id) /\ jobs[reply[r].id].by = r
        /\ reply[r].kind = "fields" \/ reply[r] = Message(422) =>
              \A id \in Ids : Stored(id) => jobs[id].by # r

\* A request stores one job at most, whatever raises and whoever is still waiting
\* for it: a job is there twice only if it has been submitted twice.
OneJobPerRequest ==
    \A id1, id2 \in Ids :
        Stored(id1) /\ Stored(id2) /\ jobs[id1].by = jobs[id2].by => id1 = id2

\* A success on a page shows a job stored with just what the form contains,
\* unless that has been edited since or an error is shown with it: also when an
\* earlier submission was cut off and is still on its way.
SuccessIsTheForms ==
    \A f \in Forms :
        answer[f] # NULL /\ answer[f].kind = "created" =>
            \/ touched[f] # {} \/ Displayed(f) # {}
            \/ Stored(answer[f].id) /\ jobs[answer[f].id].content = fields[f]

\* A failed submission shows some error until the form is edited, although an
\* edit hides the server's errors of a field; only the schema's errors inside
\* depends_on have no place on the page.
FailureIsShown ==
    \A f \in Forms :
        answer[f] # NULL /\ answer[f].kind = "fields" /\ answer[f].fields # {"element"} =>
            touched[f] # {} \/ Displayed(f) # {}

-----------------------------------------------------------------------------
(* Refinement: what the table shows of all this is the Submit of            *)
(* JobLifecycle, which Lightcron's schedule_job, one step, implements too.  *)
Lifecycle == INSTANCE JobLifecycle WITH
    Jobs <- Ids,
    Workers <- {},
    status <- [id \in Ids |-> IF Stored(id) THEN "pending" ELSE "absent"],
    depends_on <- [id \in Ids |-> IF Stored(id) THEN Range(jobs[id].content.depends_on) ELSE {}],
    worker_id <- [id \in Ids |-> NULL],
    outcome <- [id \in Ids |-> [exit_code |-> NULL, kill_reason |-> NULL]]

\* exists_all and the INSERT are two transactions, with any others in between:
\* still a job appears at once with all of its dependencies, each of them a job
\* that is there, and no submission touches a job that is.
SubmissionsAreAtomic == Lifecycle!Spec
=============================================================================
