------------------------ MODULE JobSubmissionProofs -------------------------
(***************************************************************************)
(* What the API stores is valid, and what it answers is true, for every    *)
(* set of forms, requests, ids and contents.                               *)
(***************************************************************************)
EXTENDS JobSubmission, FiniteSetTheorems, TLAPS

\* Past the checks a request's body is what may be stored, except for a limit
\* too large; past the lookup, its dependencies are stored.
Checked(r) ==
    /\ body[r] \in Content
    /\ SchemaErrors(body[r]) = {}
    /\ body[r].command = "text"
    /\ body[r].start_time > created_at[r]

HandlersOK ==
    \A r \in Requests :
        /\ stage[r] = "sent" => body[r] \in Content
        /\ stage[r] \in {"lookup", "insert"} => Checked(r)
        /\ stage[r] = "insert" => \A d \in Range(body[r].depends_on) : d \in Ids /\ Stored(d)

\* A row and the reply of its request belong together, and a reply is given once.
RowsMatchReplies ==
    /\ \A r \in Requests :
          /\ reply[r] # NULL => stage[r] = "answered"
          /\ reply[r] # NULL /\ reply[r].kind = "created" =>
                Stored(reply[r].id) /\ jobs[reply[r].id].by = r
    /\ \A id \in Ids : Stored(id) =>
          /\ stage[jobs[id].by] = "answered"
          /\ reply[jobs[id].by] \in {Created(id), Message(500)}

SubmitInv == SubmitTypeOK /\ HandlersOK /\ RowsMatchReplies /\ StoredJobsAreValid

-----------------------------------------------------------------------------
\* The count of exists_all is reached only if every id is stored.
LEMMA CountedMeansStored ==
  ASSUME NEW ids \in Seq(Ids \cup {Malformed}), ExistsAll(ids)
  PROVE  \A d \in Range(ids) : Stored(d)
<1> DEFINE n == Len(ids)
<1>1. n \in Nat /\ ids \in [1 .. n -> Range(ids)]
  BY DEF Range
<1>2. ids \in Surjection(1 .. n, Range(ids))
  BY <1>1 DEF Surjection, Range
<1>3. IsFiniteSet(1 .. n) /\ Cardinality(1 .. n) = n
  BY <1>1, FS_Interval
<1>4. IsFiniteSet(Range(ids)) /\ Cardinality(Range(ids)) <= n
  BY <1>2, <1>3, FS_Surjection
<1> DEFINE found == {id \in Range(ids) : Stored(id)}
<1>5. Cardinality(found) = n
  BY DEF ExistsAll
<1>6. /\ Cardinality(found) <= Cardinality(Range(ids))
      /\ Cardinality(Range(ids)) = Cardinality(found) => Range(ids) = found
  BY <1>4, FS_Subset
<1>7. Cardinality(Range(ids)) \in Nat
  BY <1>4, FS_CardinalityType
<1> QED
  BY <1>1, <1>4, <1>5, <1>6, <1>7

-----------------------------------------------------------------------------
(* Types.                                                                  *)
LEMMA ReplyTypes ==
  /\ \A c : Fields(SchemaErrors(c)) \in Replies
  /\ \A code \in {422, 500, 0} : Message(code) \in Replies
  /\ \A id \in Ids : Created(id) \in Replies
<1>1. \A c : SchemaErrors(c) \in SUBSET (Keys \cup {"element"})
  BY DEF SchemaErrors
<1>2. \A set \in SUBSET (Keys \cup {"element"}) : Fields(set) \in Replies
  BY DEF Fields, Replies
<1>3. \A code \in {422, 500, 0} : Message(code) \in Replies
  BY DEF Message, Replies
<1>4. \A id \in Ids : Created(id) \in Replies
  BY DEF Created, Replies
<1> QED
  BY <1>1, <1>2, <1>3, <1>4

LEMMA FinishType ==
  ASSUME SubmitTypeOK, NEW r \in Requests, NEW answered \in Replies, Finish(r, answered)
  PROVE  /\ body' \in [Requests -> Content \cup {NULL}]
         /\ stage' \in [Requests -> Stages]
         /\ reply' \in [Requests -> Replies \cup {NULL}]
  BY DEF SubmitTypeOK, Finish, Stages

LEMMA SendType ==
  ASSUME SubmitTypeOK, NEW r \in Requests, NEW c \in Content, Send(r, c)
  PROVE  /\ body' \in [Requests -> Content \cup {NULL}]
         /\ stage' \in [Requests -> Stages]
  BY DEF SubmitTypeOK, Send, Stages

LEMMA StoreType ==
  ASSUME SubmitTypeOK, NEW r \in Requests, NEW id \in Ids, body[r] \in Content, Store(r, id)
  PROVE  jobs' \in [Ids -> Rows \cup {NULL}]
  BY DEF SubmitTypeOK, Store, Rows

LEMMA FormTypeStep ==
  ASSUME SubmitTypeOK, NEW f \in Forms, Edit(f) \/ Click(f) \/ Receive(f) \/ Break(f)
  PROVE  SubmitTypeOK'
<1> USE DEF requestVars
<1>1. CASE Edit(f)
  BY <1>1, ContentAssumption DEF Edit, SubmitTypeOK
<1>2. CASE Click(f)
  <2>1. /\ errors' \in [Forms -> [Keys -> {"absent", "cleared", "message"}]]
        /\ touched' \in [Forms -> SUBSET Keys]
    BY <1>2 DEF Click, SubmitTypeOK
  <2>2. CASE UNCHANGED <<last, answer, requestVars>>
    BY <1>2, <2>1, <2>2 DEF Click, SubmitTypeOK
  <2>3. ASSUME NEW r \in Requests, Send(r, fields[f]), last' = [last EXCEPT ![f] = r],
               answer' = [answer EXCEPT ![f] = NULL]
        PROVE  SubmitTypeOK'
    <3>1. fields[f] \in Content
      BY DEF SubmitTypeOK
    <3>2. /\ body' \in [Requests -> Content \cup {NULL}]
          /\ stage' \in [Requests -> Stages]
      BY <2>3, <3>1, SendType
    <3> QED
      BY <1>2, <2>1, <2>3, <3>2 DEF Click, Send, SubmitTypeOK
  <2> QED
    BY <1>2, <2>2, <2>3 DEF Click
<1>3. CASE Receive(f)
  <2>1. reply[last[f]] \in Replies
    BY <1>3 DEF Receive, Pending, SubmitTypeOK
  <2> QED
    BY <1>3, <2>1 DEF Receive, SubmitTypeOK
<1>4. CASE Break(f)
  BY <1>4, ReplyTypes DEF Break, SubmitTypeOK, Stages
<1> QED
  BY <1>1, <1>2, <1>3, <1>4

LEMMA HandlerTypeStep ==
  ASSUME SubmitTypeOK, HandlersOK, NEW r \in Requests,
         Post(r) \/ Refuse(r) \/ Check(r) \/ Lookup(r) \/ Insert(r) \/ StatementFails(r)
  PROVE  SubmitTypeOK'
<1> USE DEF formVars
<1>1. CASE Post(r)
  BY <1>1, ContentAssumption, SendType DEF Post, Send, SubmitTypeOK
<1>2. CASE Refuse(r)
  BY <1>2, ReplyTypes, FinishType DEF Refuse, SubmitTypeOK
<1>3. CASE Check(r)
  <2>1. CASE Finish(r, Message(422)) /\ UNCHANGED <<now, formVars, created_at, jobs>>
    BY <2>1, ReplyTypes, FinishType DEF SubmitTypeOK
  <2>2. CASE Proceed(r)
    BY <2>2 DEF Proceed, SubmitTypeOK, Stages
  <2> QED
    BY <1>3, <2>1, <2>2 DEF Check
<1>4. CASE Lookup(r)
  <2>1. CASE stage' = [stage EXCEPT ![r] = "insert"] /\ UNCHANGED <<body, reply>>
    BY <1>4, <2>1 DEF Lookup, SubmitTypeOK, Stages
  <2>2. CASE Finish(r, Message(422))
    BY <1>4, <2>2, ReplyTypes, FinishType DEF Lookup, SubmitTypeOK
  <2> QED
    BY <1>4, <2>1, <2>2 DEF Lookup
<1>5. CASE Insert(r) \/ StatementFails(r)
  <2>1. PICK answered \in Replies : Finish(r, answered)
    BY <1>5, ReplyTypes DEF Insert, StatementFails
  <2>2. jobs' \in [Ids -> Rows \cup {NULL}]
    <3>1. CASE UNCHANGED jobs
      BY <3>1 DEF SubmitTypeOK
    <3>2. ASSUME NEW id \in Ids, stage[r] = "insert", Store(r, id)
          PROVE  jobs' \in [Ids -> Rows \cup {NULL}]
      BY <3>2, StoreType DEF HandlersOK, Checked
    <3> QED
      BY <1>5, <3>1, <3>2 DEF Insert, StatementFails
  <2> QED
    BY <1>5, <2>1, <2>2, FinishType DEF Insert, StatementFails, SubmitTypeOK
<1> QED
  BY <1>1, <1>2, <1>3, <1>4, <1>5

LEMMA SubmitTypeStep ==
  ASSUME SubmitTypeOK, HandlersOK, [SubmitNext]_submitVars
  PROVE  SubmitTypeOK'
<1>1. CASE Wait
  BY <1>1, ClockAssumption DEF Wait, SubmitTypeOK, formVars, requestVars
<1>2. CASE UNCHANGED submitVars
  BY <1>2 DEF submitVars, SubmitTypeOK, formVars, requestVars
<1> QED
  BY <1>1, <1>2, FormTypeStep, HandlerTypeStep DEF SubmitNext

-----------------------------------------------------------------------------
(* The rest of the invariant, one handler at a time.                       *)

\* A step that leaves the table, the replies and the handlers past their arrival
\* alone: a request may arrive, or get lost on its way.
LEMMA QuietStep ==
  ASSUME SubmitInv, NEW r \in Requests,
         UNCHANGED <<jobs, created_at, reply>>,
         \/ UNCHANGED <<body, stage>>
         \/ \E c \in Content : Send(r, c)
         \/ stage[r] = "sent" /\ stage' = [stage EXCEPT ![r] = "dropped"] /\ UNCHANGED body
  PROVE  HandlersOK' /\ RowsMatchReplies' /\ StoredJobsAreValid'
<1>1. \A id : Stored(id)' = Stored(id)
  BY DEF Stored
<1>2. /\ stage'[r] # "answered" => stage'[r] \notin {"lookup", "insert"} \/ UNCHANGED <<body, stage>>
      /\ stage'[r] = "sent" => body'[r] \in Content
      /\ stage[r] = "answered" => stage'[r] = "answered"
      /\ \A q \in Requests \ {r} : stage'[q] = stage[q] /\ body'[q] = body[q]
  BY DEF SubmitInv, SubmitTypeOK, HandlersOK, Send
<1>3. HandlersOK'
  BY <1>1, <1>2 DEF SubmitInv, HandlersOK, Checked
<1>4. \A q \in Requests : stage[q] = "answered" => stage'[q] = "answered"
  BY <1>2
<1>5. \A id \in Ids : Stored(id) => jobs[id].by \in Requests
  BY DEF SubmitInv, SubmitTypeOK, Stored, Rows
<1>6. RowsMatchReplies'
  BY <1>1, <1>4, <1>5 DEF SubmitInv, RowsMatchReplies
<1>7. StoredJobsAreValid'
  BY <1>1 DEF SubmitInv, StoredJobsAreValid
<1> QED
  BY <1>3, <1>6, <1>7

\* A handler that ends without having stored anything.
LEMMA AnswerStep ==
  ASSUME SubmitInv, NEW r \in Requests, NEW answered \in Replies,
         stage[r] \in {"sent", "lookup", "insert"},
         answered.kind # "created",
         Finish(r, answered),
         UNCHANGED <<jobs, created_at>>
  PROVE  HandlersOK' /\ RowsMatchReplies' /\ StoredJobsAreValid'
<1>1. \A id : Stored(id)' = Stored(id)
  BY DEF Stored
<1>2. /\ stage'[r] = "answered" /\ reply'[r] = answered
      /\ \A q \in Requests \ {r} :
            stage'[q] = stage[q] /\ body'[q] = body[q] /\ reply'[q] = reply[q]
  BY DEF SubmitInv, SubmitTypeOK, Finish
<1>3. HandlersOK'
  BY <1>1, <1>2 DEF SubmitInv, HandlersOK, Checked
<1>4. \A id \in Ids : Stored(id) => jobs[id].by \in Requests \ {r}
  BY DEF SubmitInv, SubmitTypeOK, RowsMatchReplies, Stored, Rows
<1>5. RowsMatchReplies'
  BY <1>1, <1>2, <1>4 DEF SubmitInv, RowsMatchReplies
<1>6. StoredJobsAreValid'
  BY <1>1 DEF SubmitInv, StoredJobsAreValid
<1> QED
  BY <1>3, <1>5, <1>6

\* A handler that ends having stored its job.
LEMMA StoreStep ==
  ASSUME SubmitInv, NEW r \in Requests, NEW id \in Ids, NEW answered \in {Created(id), Message(500)},
         stage[r] = "insert",
         body[r].limit # "toolarge",
         Store(r, id),
         Finish(r, answered),
         UNCHANGED created_at
  PROVE  HandlersOK' /\ RowsMatchReplies' /\ StoredJobsAreValid'
<1> DEFINE row == [content |-> body[r], created_at |-> created_at[r], by |-> r]
<1>1. Checked(r) /\ \A d \in Range(body[r].depends_on) : d \in Ids /\ Stored(d)
  BY DEF SubmitInv, HandlersOK
<1>2. row \in Rows /\ row # NULL
  BY <1>1, NullIsNoValue DEF SubmitInv, SubmitTypeOK, Checked, Rows
<1>3. /\ jobs'[id] = row
      /\ \A other \in Ids \ {id} : jobs'[other] = jobs[other]
  BY DEF SubmitInv, SubmitTypeOK, Store
<1>4. Stored(id)' /\ \A other \in Ids : Stored(other) => Stored(other)' /\ other # id
  BY <1>2, <1>3 DEF Stored, Store
<1>5. \A other \in Ids \ {id} : Stored(other)' = Stored(other)
  BY <1>3 DEF Stored
<1>6. /\ stage'[r] = "answered" /\ reply'[r] = answered
      /\ \A q \in Requests \ {r} :
            stage'[q] = stage[q] /\ body'[q] = body[q] /\ reply'[q] = reply[q]
  BY DEF SubmitInv, SubmitTypeOK, Finish
<1>7. HandlersOK'
  BY <1>4, <1>6 DEF SubmitInv, HandlersOK, Checked
<1>8. \A other \in Ids : Stored(other) => jobs[other].by \in Requests \ {r}
  BY DEF SubmitInv, SubmitTypeOK, RowsMatchReplies, Stored, Rows
<1>9. RowsMatchReplies'
  <2>1. /\ answered.kind = "created" => answered.id = id
        /\ answered # NULL
    BY ReplyTypes, NullIsNoValue DEF Created, Message
  <2> DEFINE Named(q) == /\ reply[q] # NULL => stage[q] = "answered"
                         /\ reply[q] # NULL /\ reply[q].kind = "created" =>
                               jobs[reply[q].id] # NULL /\ jobs[reply[q].id].by = q
  <2>2. ASSUME NEW q \in Requests
        PROVE  Named(q)'
    <3>1. CASE q = r
      <4>1. reply'[q] = answered /\ stage'[q] = "answered"
        BY <1>6, <3>1
      <4>2. jobs'[id] # NULL /\ jobs'[id].by = q
        BY <1>2, <1>3, <3>1
      <4> QED
        BY <2>1, <4>1, <4>2
    <3>2. CASE q # r
      <4>1. stage'[q] = stage[q] /\ reply'[q] = reply[q]
        BY <1>6, <3>2
      <4>2. Named(q)
        BY DEF SubmitInv, RowsMatchReplies, Stored
      <4>3. ASSUME reply[q] # NULL, reply[q].kind = "created"
            PROVE  jobs'[reply[q].id] # NULL /\ jobs'[reply[q].id].by = q
        <5>1. reply[q].id \in Ids
          BY <4>3 DEF SubmitInv, SubmitTypeOK, Replies
        <5>2. Stored(reply[q].id) /\ jobs[reply[q].id].by = q
          BY <4>2, <4>3 DEF Stored
        <5>3. jobs'[reply[q].id] = jobs[reply[q].id]
          BY <1>3, <1>4, <5>1, <5>2
        <5> QED
          BY <5>2, <5>3 DEF Stored
      <4> QED
        BY <4>1, <4>2, <4>3
    <3> QED
      BY <3>1, <3>2
  <2>3. ASSUME NEW other \in Ids, Stored(other)'
        PROVE  /\ stage'[jobs'[other].by] = "answered"
               /\ reply'[jobs'[other].by] \in {Created(other), Message(500)}
    <3>1. CASE other = id
      BY <1>3, <1>6, <3>1
    <3>2. CASE other # id
      BY <1>3, <1>5, <1>6, <1>8, <2>3, <3>2 DEF SubmitInv, RowsMatchReplies
    <3> QED
      BY <3>1, <3>2
  <2>4. \A c : Created(c)' = Created(c) /\ Message(500)' = Message(500)
    BY DEF Created, Message
  <2> QED
    BY <2>2, <2>3, <2>4 DEF RowsMatchReplies, Stored
<1>10. StoredJobsAreValid'
  <2>1. /\ body[r].command = "text" /\ body[r].limit = "fine"
        /\ body[r].start_time # NULL /\ body[r].start_time > created_at[r]
    BY <1>1 DEF Checked, SchemaErrors, Content, Limits, Keys
  <2>2. ASSUME NEW other \in Ids, Stored(other)'
        PROVE  LET job == jobs'[other].content
               IN  /\ job.command = "text"
                   /\ job.limit = "fine"
                   /\ job.start_time # NULL /\ job.start_time > jobs'[other].created_at
                   /\ \A d \in Range(job.depends_on) : d # other /\ d \in Ids /\ Stored(d)'
    <3>1. CASE other = id
      BY <1>1, <1>3, <1>4, <2>1, <3>1
    <3>2. CASE other # id
      BY <1>3, <1>4, <1>5, <2>2, <3>2 DEF SubmitInv, StoredJobsAreValid
    <3> QED
      BY <3>1, <3>2
  <2> QED
    BY <2>2 DEF StoredJobsAreValid
<1> QED
  BY <1>7, <1>9, <1>10

\* A handler that goes on to its next statement.
LEMMA ContinueStep ==
  ASSUME SubmitInv, NEW r \in Requests,
         \/ /\ stage[r] = "sent" /\ SchemaErrors(body[r]) = {}
            /\ body[r].command # "spaces" /\ body[r].start_time > now
            /\ Proceed(r)
         \/ /\ stage[r] = "lookup" /\ ExistsAll(body[r].depends_on)
            /\ stage' = [stage EXCEPT ![r] = "insert"]
            /\ UNCHANGED <<body, reply, jobs, created_at>>
  PROVE  HandlersOK' /\ RowsMatchReplies' /\ StoredJobsAreValid'
<1>1. UNCHANGED <<body, reply, jobs>> /\ \A id : Stored(id)' = Stored(id)
  BY DEF Proceed, Stored
<1>2. /\ stage[r] \in {"sent", "lookup"} /\ stage'[r] \in {"lookup", "insert"}
      /\ \A q \in Requests \ {r} : stage'[q] = stage[q] /\ created_at'[q] = created_at[q]
  BY DEF SubmitInv, SubmitTypeOK, Proceed
<1>3. Checked(r)'
  <2>1. CASE stage[r] = "sent"
    <3>1. body[r] \in Content /\ created_at'[r] = now
      BY <2>1 DEF SubmitInv, SubmitTypeOK, HandlersOK, Proceed
    <3>2. SchemaErrors(body[r]) = {} /\ body[r].command # "spaces" /\ body[r].start_time > now
      BY <2>1
    <3>3. body[r].command = "text"
      BY <3>1, <3>2 DEF SchemaErrors, Content, Keys
    <3> QED
      BY <1>1, <3>1, <3>2, <3>3 DEF Checked, SchemaErrors
  <2>2. CASE stage[r] = "lookup"
    BY <1>1, <2>2 DEF SubmitInv, HandlersOK, Checked, SchemaErrors
  <2> QED
    BY <1>2, <2>1, <2>2
<1>4. stage'[r] = "insert" => \A d \in Range(body[r].depends_on) : d \in Ids /\ Stored(d)
  <2> SUFFICES ASSUME stage'[r] = "insert"
               PROVE  \A d \in Range(body[r].depends_on) : d \in Ids /\ Stored(d)
    OBVIOUS
  <2>1. body[r] \in Content /\ SchemaErrors(body[r]) = {}
    BY <1>1, <1>3 DEF Checked, SchemaErrors
  <2>2. body[r].depends_on \in Seq(Ids \cup {Malformed})
    BY <2>1 DEF Content
  <2>3. \A d \in Range(body[r].depends_on) : d \in Ids
    <3>1. Malformed \notin Range(body[r].depends_on)
      BY <2>1 DEF SchemaErrors
    <3>2. \A d \in Range(body[r].depends_on) : d \in Ids \cup {Malformed}
      BY <2>2 DEF Range
    <3> QED
      BY <3>1, <3>2
  <2>4. CASE body[r].depends_on = <<>>
    BY <2>4 DEF Range
  <2>5. CASE ExistsAll(body[r].depends_on)
    BY <2>2, <2>3, <2>5, CountedMeansStored
  <2> QED
    BY <2>4, <2>5 DEF SubmitInv, SubmitTypeOK, Proceed
<1>5. HandlersOK'
  <2>1. \A q \in Requests \ {r} : Checked(q)' = Checked(q)
    BY <1>1, <1>2 DEF Checked, SchemaErrors
  <2> QED
    BY <1>1, <1>2, <1>3, <1>4, <2>1 DEF SubmitInv, HandlersOK
<1>6. \A q \in Requests : stage[q] = "answered" => stage'[q] = "answered"
  BY <1>2
<1>7. \A id \in Ids : Stored(id) => jobs[id].by \in Requests
  BY DEF SubmitInv, SubmitTypeOK, Stored, Rows
<1>8. RowsMatchReplies'
  BY <1>1, <1>6, <1>7 DEF SubmitInv, RowsMatchReplies, Created, Message
<1>9. StoredJobsAreValid'
  BY <1>1 DEF SubmitInv, StoredJobsAreValid
<1> QED
  BY <1>5, <1>8, <1>9

-----------------------------------------------------------------------------
LEMMA SubmitInvStep == SubmitInv /\ [SubmitNext]_submitVars => SubmitInv'
<1> SUFFICES ASSUME SubmitInv, [SubmitNext]_submitVars
             PROVE  HandlersOK' /\ RowsMatchReplies' /\ StoredJobsAreValid'
  BY SubmitTypeStep DEF SubmitInv
<1> USE DEF formVars, requestVars
<1>1. ASSUME UNCHANGED <<requestVars, jobs>>
      PROVE  HandlersOK' /\ RowsMatchReplies' /\ StoredJobsAreValid'
  <2>1. UNCHANGED <<body, stage, created_at, reply, jobs>>
    BY <1>1
  <2>2. \A id : Stored(id)' = Stored(id)
    BY <2>1 DEF Stored
  <2>3. \A r : Checked(r)' = Checked(r)
    BY <2>1 DEF Checked, SchemaErrors
  <2>4. HandlersOK'
    BY <2>1, <2>2, <2>3 DEF SubmitInv, HandlersOK
  <2>5. RowsMatchReplies'
    BY <2>1, <2>2 DEF SubmitInv, RowsMatchReplies, Created, Message
  <2>6. StoredJobsAreValid'
    BY <2>1, <2>2 DEF SubmitInv, StoredJobsAreValid
  <2> QED
    BY <2>4, <2>5, <2>6
<1>2. CASE Wait \/ UNCHANGED submitVars
  BY <1>1, <1>2 DEF Wait, submitVars
<1>3. ASSUME NEW f \in Forms, Edit(f) \/ Receive(f)
      PROVE  HandlersOK' /\ RowsMatchReplies' /\ StoredJobsAreValid'
  BY <1>1, <1>3 DEF Edit, Receive
<1>4. ASSUME NEW f \in Forms, Click(f)
      PROVE  HandlersOK' /\ RowsMatchReplies' /\ StoredJobsAreValid'
  <2>1. CASE UNCHANGED requestVars
    BY <1>1, <1>4, <2>1 DEF Click
  <2>2. ASSUME NEW r \in Requests, Send(r, fields[f])
        PROVE  HandlersOK' /\ RowsMatchReplies' /\ StoredJobsAreValid'
    <3>1. fields[f] \in Content
      BY DEF SubmitInv, SubmitTypeOK
    <3>2. UNCHANGED <<jobs, created_at, reply>>
      BY <1>4, <2>2 DEF Click, Send
    <3> QED
      BY <2>2, <3>1, <3>2, QuietStep
  <2> QED
    BY <1>4, <2>1, <2>2 DEF Click
<1>5. ASSUME NEW f \in Forms, Break(f)
      PROVE  HandlersOK' /\ RowsMatchReplies' /\ StoredJobsAreValid'
  <2>1. last[f] \in Requests
    BY <1>5 DEF Break, Pending, SubmitInv, SubmitTypeOK
  <2>2. CASE UNCHANGED stage
    BY <1>1, <1>5, <2>2 DEF Break
  <2>3. CASE stage[last[f]] = "sent" /\ stage' = [stage EXCEPT ![last[f]] = "dropped"]
    BY <1>5, <2>1, <2>3, QuietStep DEF Break
  <2> QED
    BY <1>5, <2>2, <2>3 DEF Break
<1>6. ASSUME NEW r \in Requests, Post(r)
      PROVE  HandlersOK' /\ RowsMatchReplies' /\ StoredJobsAreValid'
  <2>1. \E c \in Content : Send(r, c)
    BY <1>6, ContentAssumption DEF Post
  <2>2. UNCHANGED <<jobs, created_at, reply>>
    BY <1>6 DEF Post, Send
  <2> QED
    BY <2>1, <2>2, QuietStep
<1>7. ASSUME NEW r \in Requests, Refuse(r) \/ Check(r) \/ Lookup(r) \/ Insert(r) \/ StatementFails(r)
      PROVE  HandlersOK' /\ RowsMatchReplies' /\ StoredJobsAreValid'
  <2>1. ASSUME NEW answered \in Replies, answered.kind # "created", Finish(r, answered),
               stage[r] \in {"sent", "lookup", "insert"}, UNCHANGED <<jobs, created_at>>
        PROVE  HandlersOK' /\ RowsMatchReplies' /\ StoredJobsAreValid'
    BY <2>1, AnswerStep
  <2>2. /\ \A c : Fields(SchemaErrors(c)) \in Replies /\ Fields(SchemaErrors(c)).kind # "created"
        /\ \A code \in {422, 500} : Message(code) \in Replies /\ Message(code).kind # "created"
    BY ReplyTypes DEF Fields, Message
  <2>3. CASE Refuse(r)
    BY <2>1, <2>2, <2>3 DEF Refuse
  <2>4. CASE Check(r)
    BY <2>1, <2>2, <2>4, ContinueStep DEF Check
  <2>5. CASE Lookup(r)
    BY <2>1, <2>2, <2>5, ContinueStep DEF Lookup
  <2>6. CASE Insert(r)
    <3>1. CASE Finish(r, Message(500)) /\ UNCHANGED jobs
      BY <2>1, <2>2, <2>6, <3>1 DEF Insert
    <3>2. ASSUME NEW id \in Ids, Store(r, id), Finish(r, Created(id)), body[r].limit # "toolarge"
          PROVE  HandlersOK' /\ RowsMatchReplies' /\ StoredJobsAreValid'
      BY <2>6, <3>2, StoreStep DEF Insert
    <3> QED
      BY <2>6, <3>1, <3>2 DEF Insert
  <2>7. CASE StatementFails(r)
    <3>1. CASE UNCHANGED jobs
      BY <2>1, <2>2, <2>7, <3>1 DEF StatementFails
    <3>2. ASSUME NEW id \in Ids, Store(r, id), stage[r] = "insert", body[r].limit # "toolarge"
          PROVE  HandlersOK' /\ RowsMatchReplies' /\ StoredJobsAreValid'
      BY <2>7, <3>2, StoreStep DEF StatementFails
    <3> QED
      BY <2>7, <3>1, <3>2 DEF StatementFails
  <2> QED
    BY <1>7, <2>3, <2>4, <2>5, <2>6, <2>7
<1> QED
  BY <1>2, <1>3, <1>4, <1>5, <1>6, <1>7 DEF SubmitNext

LEMMA SubmitInvInit == SubmitInit => SubmitInv
  BY ContentAssumption, ClockAssumption
     DEF SubmitInit, SubmitInv, SubmitTypeOK, HandlersOK, RowsMatchReplies, StoredJobsAreValid,
         Stored, Stages

\* The strengthened invariant of job submission.
THEOREM SubmissionInvariance == SubmitSpec => []SubmitInv
  BY SubmitInvInit, SubmitInvStep, PTL DEF SubmitSpec

\* Whatever clients post, and however long the statements take, a stored job is
\* valid and depends on other stored jobs only.
THEOREM OnlyValidJobsAreStored == SubmitSpec => []StoredJobsAreValid
<1>1. SubmitInv => StoredJobsAreValid
  BY DEF SubmitInv
<1> QED
  BY <1>1, SubmissionInvariance, PTL

\* What the API answers agrees with what it has committed: a job it names is
\* stored, and of a request it has refused nothing is.
THEOREM AnswersAgreeWithTable == SubmitSpec => []RepliesAreTrue
<1>1. SubmitInv => RepliesAreTrue
  <2> SUFFICES ASSUME SubmitInv, NEW r \in Requests, reply[r] # NULL
               PROVE  /\ reply[r].kind = "created" =>
                            Stored(reply[r].id) /\ jobs[reply[r].id].by = r
                      /\ reply[r].kind = "fields" \/ reply[r] = Message(422) =>
                            \A id \in Ids : Stored(id) => jobs[id].by # r
    BY DEF RepliesAreTrue
  <2>1. \A id : Created(id).kind = "created" /\ Message(500).kind = "message"
    BY DEF Created, Message
  <2>2. Message(500) # Message(422) /\ Message(422).kind = "message"
    BY DEF Message
  <2>3. ASSUME NEW id \in Ids, Stored(id), jobs[id].by = r
        PROVE  reply[r] \in {Created(id), Message(500)}
    BY <2>3 DEF SubmitInv, RowsMatchReplies
  <2> QED
    BY <2>1, <2>2, <2>3 DEF SubmitInv, RowsMatchReplies
<1> QED
  BY <1>1, SubmissionInvariance, PTL

\* Every variable of the form, of the requests and of the table keeps its type.
THEOREM SubmitTypeCorrect == SubmitSpec => []SubmitTypeOK
<1>1. SubmitInv => SubmitTypeOK
  BY DEF SubmitInv
<1> QED
  BY <1>1, SubmissionInvariance, PTL

-----------------------------------------------------------------------------
(* The table.                                                              *)

\* The table changes by the INSERT of one row only, whose dependencies are there.
LEMMA TableMoves ==
  ASSUME SubmitInv, [SubmitNext]_submitVars
  PROVE  \/ UNCHANGED jobs
         \/ \E r \in Requests, id \in Ids :
               /\ stage[r] = "insert" /\ Store(r, id)
               /\ body[r] \in Content
               /\ \A d \in Range(body[r].depends_on) : d \in Ids /\ Stored(d)
<1>1. ASSUME NEW r \in Requests, stage[r] = "insert"
      PROVE  body[r] \in Content /\ \A d \in Range(body[r].depends_on) : d \in Ids /\ Stored(d)
  BY <1>1 DEF SubmitInv, HandlersOK, Checked
<1>2. ASSUME NEW r \in Requests, Insert(r) \/ StatementFails(r)
      PROVE  UNCHANGED jobs \/ \E id \in Ids : stage[r] = "insert" /\ Store(r, id)
  BY <1>2 DEF Insert, StatementFails
<1>3. ASSUME NEW r \in Requests, Post(r) \/ Refuse(r) \/ Check(r) \/ Lookup(r)
      PROVE  UNCHANGED jobs
  BY <1>3 DEF Post, Refuse, Check, Proceed, Lookup
<1>4. ASSUME NEW f \in Forms, Edit(f) \/ Click(f) \/ Receive(f) \/ Break(f)
      PROVE  UNCHANGED jobs
  BY <1>4 DEF Edit, Click, Receive, Break
<1>5. ASSUME Wait \/ UNCHANGED submitVars
      PROVE  UNCHANGED jobs
  BY <1>5 DEF Wait, submitVars
<1> QED
  BY <1>1, <1>2, <1>3, <1>4, <1>5 DEF SubmitNext

\* What the INSERT of the row of r makes of the table.
LEMMA StoredRow ==
  ASSUME SubmitTypeOK, NEW r \in Requests, NEW id \in Ids, body[r] \in Content, Store(r, id)
  PROVE  /\ ~Stored(id) /\ Stored(id)'
         /\ jobs'[id].by = r /\ jobs'[id].content = body[r]
         /\ \A other \in Ids \ {id} : jobs'[other] = jobs[other] /\ Stored(other)' = Stored(other)
<1> DEFINE row == [content |-> body[r], created_at |-> created_at[r], by |-> r]
<1>1. row \in Rows /\ row # NULL
  BY NullIsNoValue DEF SubmitTypeOK, Rows
<1>2. jobs'[id] = row /\ \A other \in Ids \ {id} : jobs'[other] = jobs[other]
  BY DEF Store, SubmitTypeOK
<1> QED
  BY <1>1, <1>2 DEF Store, Stored

\* However its statements end, a request leaves one job at most.
THEOREM RequestsStoreOnce == SubmitSpec => []OneJobPerRequest
<1>1. SubmitInit => OneJobPerRequest
  BY DEF SubmitInit, OneJobPerRequest, Stored
<1>2. SubmitInv /\ OneJobPerRequest /\ [SubmitNext]_submitVars => OneJobPerRequest'
  <2> SUFFICES ASSUME SubmitInv, OneJobPerRequest, [SubmitNext]_submitVars
               PROVE  OneJobPerRequest'
    OBVIOUS
  <2>1. CASE UNCHANGED jobs
    BY <2>1 DEF OneJobPerRequest, Stored
  <2>2. ASSUME NEW r \in Requests, NEW id \in Ids, stage[r] = "insert", body[r] \in Content, Store(r, id)
        PROVE  OneJobPerRequest'
    <3>1. \A other \in Ids : Stored(other) => jobs[other].by # r
      BY <2>2 DEF SubmitInv, RowsMatchReplies
    <3>2. /\ jobs'[id].by = r
          /\ \A other \in Ids \ {id} : jobs'[other] = jobs[other] /\ Stored(other)' = Stored(other)
      BY <2>2, StoredRow DEF SubmitInv
    <3> QED
      BY <3>1, <3>2 DEF OneJobPerRequest
  <2> QED
    BY <2>1, <2>2, TableMoves
<1> QED
  BY <1>1, <1>2, SubmissionInvariance, PTL DEF SubmitSpec

\* Submission implements the job lifecycle: a job appears in one step, and none
\* of the jobs it depends on has to be waited for.
THEOREM SubmissionRefinement == SubmitSpec => SubmissionsAreAtomic
<1> USE DEF Lifecycle!vars
<1>1. SubmitInit => Lifecycle!Init
  BY DEF SubmitInit, Lifecycle!Init, Lifecycle!NoOutcome, Stored
<1>2. SubmitInv /\ [SubmitNext]_submitVars => [Lifecycle!Next]_(Lifecycle!vars)
  <2> SUFFICES ASSUME SubmitInv, [SubmitNext]_submitVars
               PROVE  [Lifecycle!Next]_(Lifecycle!vars)
    OBVIOUS
  <2>1. CASE UNCHANGED jobs
    BY <2>1 DEF Stored
  <2>2. ASSUME NEW r \in Requests, NEW id \in Ids, Store(r, id), body[r] \in Content,
               \A d \in Range(body[r].depends_on) : d \in Ids /\ Stored(d)
        PROVE  Lifecycle!Next
    <3> DEFINE deps == Range(body[r].depends_on)
    <3>1. /\ ~Stored(id) /\ Stored(id)' /\ jobs'[id].content = body[r]
          /\ \A other \in Ids \ {id} : jobs'[other] = jobs[other] /\ Stored(other)' = Stored(other)
      BY <2>2, StoredRow DEF SubmitInv
    <3>2. deps \in SUBSET Ids
      BY <2>2
    <3>3. Lifecycle!Submit(id, deps)
      BY <2>2, <3>1 DEF Lifecycle!Submit
    <3> QED
      BY <3>2, <3>3 DEF Lifecycle!Next
  <2> QED
    BY <2>1, <2>2, TableMoves
<1> QED
  BY <1>1, <1>2, SubmissionInvariance, PTL DEF SubmitSpec, SubmissionsAreAtomic, Lifecycle!Spec

-----------------------------------------------------------------------------
(* The form.  A request carries what it was sent with to the row, and the  *)
(* form and its last request agree until one of them moves on.             *)

\* Whatever is left of request r, in its handler or in the table, is c.
Carries(r, c) ==
    /\ stage[r] \in {"sent", "lookup", "insert"} => body[r] = c
    /\ \A id \in Ids : Stored(id) /\ jobs[id].by = r => jobs[id].content = c

NoMessage(f) == \A k \in Keys : errors[f][k] # "message"

\* A refusal of the schema names at least one place.
RepliesNameFields ==
    \A r \in Requests : reply[r] # NULL /\ reply[r].kind = "fields" => reply[r].fields # {}

\* What f shows is its last request's answer, and that request is what f
\* contains, unless f has been edited or shows an error of its own.
FormOK(f) ==
    /\ touched[f] = {} => \A k \in Keys : errors[f][k] # "cleared"
    /\ answer[f] # NULL /\ answer[f].kind = "fields" => answer[f].fields # {}
    /\ answer[f] # NULL /\ answer[f].kind = "created" =>
          last[f] # NULL /\ reply[last[f]] = answer[f]
    /\ last[f] # NULL =>
          /\ stage[last[f]] # "unsent"
          /\ touched[f] = {} /\ NoMessage(f) => Carries(last[f], fields[f])

FormsOK == \A f \in Forms : FormOK(f)

\* A request that has been sent stays so, keeps its reply, and carries on.
Kept ==
    \A r \in Requests : stage[r] # "unsent" =>
        /\ stage'[r] # "unsent"
        /\ reply[r] # NULL => reply'[r] = reply[r]
        /\ \A c : Carries(r, c) => Carries(r, c)'

LEMMA KeptByFinish ==
  ASSUME SubmitInv, NEW r \in Requests, NEW answered, Finish(r, answered),
         stage[r] \in {"sent", "lookup", "insert"},
         UNCHANGED jobs \/ \E id \in Ids : Store(r, id) /\ stage[r] = "insert"
  PROVE  Kept
<1>1. /\ stage'[r] = "answered"
      /\ \A q \in Requests \ {r} :
            stage'[q] = stage[q] /\ body'[q] = body[q] /\ reply'[q] = reply[q]
  BY DEF SubmitInv, SubmitTypeOK, Finish
<1>2. reply[r] = NULL
  BY DEF SubmitInv, RowsMatchReplies
<1>3. ASSUME NEW q \in Requests, NEW c, Carries(q, c)
      PROVE  \A id \in Ids : jobs'[id] # NULL /\ jobs'[id].by = q => jobs'[id].content = c
  <2>1. CASE UNCHANGED jobs
    BY <1>3, <2>1 DEF Carries, Stored
  <2>2. ASSUME NEW id \in Ids, Store(r, id), stage[r] = "insert"
        PROVE  \A k \in Ids : jobs'[k] # NULL /\ jobs'[k].by = q => jobs'[k].content = c
    <3>1. /\ jobs'[id].content = body[r] /\ jobs'[id].by = r
          /\ \A k \in Ids \ {id} : jobs'[k] = jobs[k]
      BY <2>2 DEF Store, SubmitInv, SubmitTypeOK
    <3> QED
      BY <1>3, <2>2, <3>1 DEF Carries, Stored
  <2> QED
    BY <2>1, <2>2
<1>4. ASSUME NEW q \in Requests, NEW c, Carries(q, c)
      PROVE  Carries(q, c)'
  <2>1. stage'[q] \in {"sent", "lookup", "insert"} => body'[q] = c
    BY <1>1, <1>4 DEF Carries
  <2> QED
    BY <1>3, <1>4, <2>1 DEF Carries, Stored
<1> QED
  BY <1>1, <1>2, <1>4 DEF Kept

\* A request arrives, is lost or goes on, and the table stays as it is.
LEMMA KeptOnItsWay ==
  ASSUME SubmitInv, NEW r \in Requests, UNCHANGED <<jobs, reply>>,
         \/ UNCHANGED <<body, stage>>
         \/ \E c : Send(r, c)
         \/ /\ stage[r] \in {"sent", "lookup"} /\ UNCHANGED body
            /\ \E next \in {"dropped", "lookup", "insert"} : stage' = [stage EXCEPT ![r] = next]
  PROVE  Kept
<1>1. \A q \in Requests : stage[q] # "unsent" =>
         /\ stage'[q] # "unsent" /\ body'[q] = body[q]
         /\ stage'[q] \in {"sent", "lookup", "insert"} => stage[q] \in {"sent", "lookup", "insert"}
  BY DEF Send, SubmitInv, SubmitTypeOK
<1>2. ASSUME NEW q \in Requests, stage[q] # "unsent", NEW c, Carries(q, c)
      PROVE  Carries(q, c)'
  BY <1>1, <1>2 DEF Carries, Stored
<1> QED
  BY <1>1, <1>2 DEF Kept

LEMMA HandlerKeeps ==
  ASSUME SubmitInv, RepliesNameFields, NEW r \in Requests,
         Post(r) \/ Refuse(r) \/ Check(r) \/ Lookup(r) \/ Insert(r) \/ StatementFails(r)
  PROVE  Kept /\ RepliesNameFields'
<1> USE DEF formVars, requestVars
<1>1. ASSUME NEW answered, Finish(r, answered), answered.kind = "fields" => answered.fields # {},
             stage[r] \in {"sent", "lookup", "insert"},
             UNCHANGED jobs \/ \E id \in Ids : Store(r, id) /\ stage[r] = "insert"
      PROVE  Kept /\ RepliesNameFields'
  <2>1. \A q \in Requests : reply'[q] = IF q = r THEN answered ELSE reply[q]
    BY <1>1 DEF Finish, SubmitInv, SubmitTypeOK
  <2> QED
    BY <1>1, <2>1, KeptByFinish DEF RepliesNameFields
<1>2. ASSUME UNCHANGED <<jobs, reply>>,
             \/ \E c : Send(r, c)
             \/ /\ stage[r] \in {"sent", "lookup"} /\ UNCHANGED body
                /\ \E next \in {"dropped", "lookup", "insert"} : stage' = [stage EXCEPT ![r] = next]
      PROVE  Kept /\ RepliesNameFields'
  BY <1>2, KeptOnItsWay DEF RepliesNameFields
<1>3. /\ \A code : Message(code).kind # "fields"
      /\ \A id : Created(id).kind # "fields"
      /\ \A set : Fields(set).kind = "fields" /\ Fields(set).fields = set
  BY DEF Message, Created, Fields
<1>4. CASE Post(r)
  BY <1>2, <1>4 DEF Post, Send
<1>5. CASE Refuse(r)
  BY <1>1, <1>3, <1>5 DEF Refuse
<1>6. CASE Check(r)
  BY <1>1, <1>2, <1>3, <1>6 DEF Check, Proceed
<1>7. CASE Lookup(r)
  BY <1>1, <1>2, <1>3, <1>7 DEF Lookup
<1>8. CASE Insert(r)
  BY <1>1, <1>3, <1>8 DEF Insert
<1>9. CASE StatementFails(r)
  BY <1>1, <1>3, <1>9 DEF StatementFails
<1> QED
  BY <1>4, <1>5, <1>6, <1>7, <1>8, <1>9

\* A step that keeps the requests and leaves form f alone.
LEMMA FormLeftAlone ==
  ASSUME SubmitTypeOK, FormsOK, Kept, NEW f \in Forms,
         fields'[f] = fields[f], errors'[f] = errors[f], touched'[f] = touched[f],
         last'[f] = last[f], answer'[f] = answer[f]
  PROVE  FormOK(f)'
<1>1. FormOK(f)
  BY DEF FormsOK, FormOK
<1>2. NoMessage(f)' = NoMessage(f)
  BY DEF NoMessage
<1>3. CASE last[f] = NULL
  BY <1>1, <1>3 DEF FormOK
<1>4. CASE last[f] # NULL
  <2>1. PICK r \in Requests : r = last[f]
    BY <1>4 DEF SubmitTypeOK
  <2>2. stage[r] # "unsent"
    BY <1>1, <1>4, <2>1 DEF FormOK
  <2>3. /\ stage'[r] # "unsent"
        /\ reply[r] # NULL => reply'[r] = reply[r]
        /\ Carries(r, fields[f]) => Carries(r, fields[f])'
    BY <2>2 DEF Kept
  <2>4. Carries(r, fields[f])' = Carries(last[f], fields[f])'
    BY <2>1 DEF Carries
  <2> QED
    BY <1>1, <1>2, <1>4, <2>1, <2>3, <2>4 DEF FormOK
<1> QED
  BY <1>3, <1>4

LEMMA FormStep ==
  ASSUME SubmitInv, RepliesNameFields, FormsOK, NEW f \in Forms,
         Edit(f) \/ Click(f) \/ Receive(f) \/ Break(f)
  PROVE  FormsOK' /\ RepliesNameFields'
<1> USE DEF requestVars
<1>1. SubmitTypeOK /\ FormOK(f)
  BY DEF SubmitInv, FormsOK, FormOK
<1>2. \A g \in Forms \ {f} :
         /\ fields'[g] = fields[g] /\ errors'[g] = errors[g] /\ touched'[g] = touched[g]
         /\ last'[g] = last[g] /\ answer'[g] = answer[g]
  BY <1>1 DEF Edit, Click, Receive, Break, SubmitTypeOK
<1>3. UNCHANGED <<jobs, reply>>
  BY DEF Edit, Click, Receive, Break, Send
<1>4. ASSUME UNCHANGED <<body, stage>>
      PROVE  Kept
  BY <1>3, <1>4 DEF Kept, Carries, Stored
<1>5. CASE Edit(f)
  <2>1. UNCHANGED <<last, answer, body, stage>>
    BY <1>5 DEF Edit
  <2>2. touched'[f] # {}
    BY <1>1, <1>5 DEF Edit, SubmitTypeOK
  <2>3. FormOK(f)'
    BY <1>1, <1>3, <2>1, <2>2 DEF FormOK
  <2> QED
    BY <1>1, <1>2, <1>3, <1>4, <2>1, <2>3, FormLeftAlone DEF FormsOK, FormOK, RepliesNameFields
<1>6. CASE Click(f)
  <2>1. /\ touched'[f] = {} /\ fields'[f] = fields[f]
        /\ \A k \in Keys : errors'[f][k] = IF k \in ClientErrors(f) THEN "message" ELSE "absent"
    BY <1>1, <1>6 DEF Click, SubmitTypeOK
  <2>2. CASE ClientErrors(f) # {} /\ UNCHANGED <<last, answer, requestVars>>
    <3>1. ~NoMessage(f)'
      BY <2>1, <2>2 DEF NoMessage, ClientErrors
    <3>2. FormOK(f)'
      BY <1>1, <1>3, <2>1, <2>2, <3>1 DEF FormOK
    <3> QED
      BY <1>1, <1>2, <1>3, <1>4, <2>2, <3>2, FormLeftAlone DEF FormsOK, FormOK, RepliesNameFields
  <2>3. ASSUME NEW r \in Requests, Send(r, fields[f]), last' = [last EXCEPT ![f] = r],
               answer' = [answer EXCEPT ![f] = NULL]
        PROVE  FormsOK' /\ RepliesNameFields'
    <3>1. Kept
      BY <1>3, <2>3, KeptOnItsWay
    <3>2. last'[f] = r /\ answer'[f] = NULL
      BY <1>1, <2>3 DEF SubmitTypeOK
    <3>3. stage[r] = "unsent" /\ stage'[r] = "sent" /\ body'[r] = fields[f]
      BY <1>1, <2>3 DEF Send, SubmitTypeOK
    <3>4. \A id \in Ids : Stored(id) => jobs[id].by # r
      BY <3>3 DEF SubmitInv, RowsMatchReplies
    <3>5. Carries(last[f], fields[f])'
      BY <1>3, <2>1, <3>2, <3>3, <3>4 DEF Carries, Stored
    <3>6. FormOK(f)'
      BY <2>1, <3>2, <3>3, <3>5 DEF FormOK
    <3> QED
      BY <1>1, <1>2, <1>3, <3>1, <3>6, FormLeftAlone DEF FormsOK, FormOK, RepliesNameFields
  <2> QED
    BY <1>6, <2>2, <2>3 DEF Click
<1>7. CASE Receive(f)
  <2>1. UNCHANGED <<fields, errors, touched, last, body, stage>>
    BY <1>7 DEF Receive
  <2>2. last[f] \in Requests /\ reply[last[f]] # NULL /\ answer'[f] = reply[last[f]]
    BY <1>1, <1>7 DEF Receive, Pending, SubmitTypeOK
  <2>3. last[f] # NULL
    BY <1>7 DEF Receive, Pending
  <2>4. answer'[f].kind = "fields" => answer'[f].fields # {}
    BY <2>2 DEF RepliesNameFields
  <2>5. FormOK(f)'
    BY <1>1, <1>3, <2>1, <2>2, <2>3, <2>4 DEF FormOK, NoMessage, Carries, Stored
  <2> QED
    BY <1>1, <1>2, <1>3, <1>4, <2>1, <2>5, FormLeftAlone DEF FormsOK, FormOK, RepliesNameFields
<1>8. CASE Break(f)
  <2>1. UNCHANGED <<fields, errors, touched, last, body>>
    BY <1>8 DEF Break
  <2>2. last[f] \in Requests /\ last[f] # NULL
    BY <1>1, <1>8 DEF Break, Pending, SubmitTypeOK
  <2>3. answer'[f] = Message(0) /\ Message(0).kind = "message"
    BY <1>1, <1>8 DEF Break, Message, SubmitTypeOK
  <2>4. Kept
    <3>1. PICK r \in Requests : r = last[f]
      BY <2>2
    <3>2. CASE UNCHANGED stage
      BY <1>4, <2>1, <3>2
    <3>3. CASE stage[r] = "sent" /\ stage' = [stage EXCEPT ![r] = "dropped"]
      BY <1>3, <2>1, <3>3, KeptOnItsWay
    <3> QED
      BY <1>8, <3>1, <3>2, <3>3 DEF Break
  <2>5. PICK r \in Requests : r = last[f]
    BY <2>2
  <2>6. /\ stage'[r] # "unsent"
        /\ Carries(r, fields[f]) => Carries(r, fields[f])'
    BY <1>1, <2>1, <2>2, <2>4, <2>5 DEF FormOK, Kept
  <2>7. NoMessage(f)' = NoMessage(f) /\ Carries(r, fields[f])' = Carries(last[f], fields[f])'
    BY <2>1, <2>5 DEF NoMessage, Carries
  <2>8. FormOK(f)'
    BY <1>1, <2>1, <2>2, <2>3, <2>5, <2>6, <2>7 DEF FormOK
  <2> QED
    BY <1>1, <1>2, <1>3, <2>4, <2>8, FormLeftAlone DEF FormsOK, FormOK, RepliesNameFields
<1> QED
  BY <1>5, <1>6, <1>7, <1>8

LEMMA FormsInvariant == SubmitSpec => [](FormsOK /\ RepliesNameFields)
<1>1. SubmitInit => FormsOK /\ RepliesNameFields
  BY DEF SubmitInit, FormsOK, FormOK, RepliesNameFields
<1>2. SubmitInv /\ FormsOK /\ RepliesNameFields /\ [SubmitNext]_submitVars =>
          FormsOK' /\ RepliesNameFields'
  <2> SUFFICES ASSUME SubmitInv, FormsOK, RepliesNameFields, [SubmitNext]_submitVars
               PROVE  FormsOK' /\ RepliesNameFields'
    OBVIOUS
  <2>1. ASSUME UNCHANGED <<formVars, requestVars, jobs>>
        PROVE  FormsOK' /\ RepliesNameFields'
    BY <2>1 DEF FormsOK, FormOK, RepliesNameFields, NoMessage, Carries, Stored, formVars, requestVars
  <2>2. CASE Wait \/ UNCHANGED submitVars
    BY <2>1, <2>2 DEF Wait, submitVars
  <2>3. ASSUME NEW r \in Requests,
               Post(r) \/ Refuse(r) \/ Check(r) \/ Lookup(r) \/ Insert(r) \/ StatementFails(r)
        PROVE  FormsOK' /\ RepliesNameFields'
    <3>1. Kept /\ RepliesNameFields'
      BY <2>3, HandlerKeeps
    <3>2. UNCHANGED <<fields, errors, touched, last, answer>>
      BY <2>3 DEF Post, Refuse, Check, Proceed, Lookup, Insert, StatementFails, formVars
    <3>3. \A f \in Forms : FormOK(f)'
      BY <3>1, <3>2, FormLeftAlone DEF SubmitInv
    <3> QED
      BY <3>1, <3>3 DEF FormsOK, FormOK
  <2>4. ASSUME NEW f \in Forms, Edit(f) \/ Click(f) \/ Receive(f) \/ Break(f)
        PROVE  FormsOK' /\ RepliesNameFields'
    BY <2>4, FormStep
  <2> QED
    BY <2>2, <2>3, <2>4 DEF SubmitNext
<1> QED
  BY <1>1, <1>2, SubmissionInvariance, PTL DEF SubmitSpec

\* What a success on a page shows is stored as the form says, unless the form
\* has been edited since or shows an error as well: also when an earlier
\* submission was cut off and is still on its way.
THEOREM SuccessIsGenuine == SubmitSpec => []SuccessIsTheForms
<1>1. SubmitInv /\ FormsOK => SuccessIsTheForms
  <2> SUFFICES ASSUME SubmitInv, FormsOK, NEW f \in Forms,
                      answer[f] # NULL, answer[f].kind = "created",
                      touched[f] = {}, Displayed(f) = {}
               PROVE  Stored(answer[f].id) /\ jobs[answer[f].id].content = fields[f]
    BY DEF SuccessIsTheForms
  <2>1. NoMessage(f)
    BY DEF NoMessage, Displayed
  <2>2. PICK r \in Requests : r = last[f] /\ reply[r] = answer[f] /\ Carries(r, fields[f])
    BY <2>1 DEF FormsOK, FormOK, SubmitInv, SubmitTypeOK
  <2>3. Stored(answer[f].id) /\ jobs[answer[f].id].by = r
    BY <2>2 DEF SubmitInv, RowsMatchReplies
  <2>4. answer[f].id \in Ids
    BY DEF SubmitInv, SubmitTypeOK, Replies
  <2> QED
    BY <2>2, <2>3, <2>4 DEF Carries
<1> QED
  BY <1>1, SubmissionInvariance, FormsInvariant, PTL

\* A failed submission shows an error until the form is edited: a click clears
\* what edits had cleared, so that the server's errors are not hidden.
THEOREM FailuresAreShown == SubmitSpec => []FailureIsShown
<1>1. SubmitInv /\ FormsOK => FailureIsShown
  <2> SUFFICES ASSUME SubmitInv, FormsOK, NEW f \in Forms,
                      answer[f] # NULL, answer[f].kind = "fields", answer[f].fields # {"element"},
                      touched[f] = {}
               PROVE  Displayed(f) # {}
    BY DEF FailureIsShown
  <2>1. answer[f].fields \in SUBSET (Keys \cup {"element"}) /\ answer[f].fields # {}
    BY DEF FormsOK, FormOK, SubmitInv, SubmitTypeOK, Replies
  <2>2. PICK k \in Keys : k \in answer[f].fields
    BY <2>1
  <2>3. errors[f][k] \in {"absent", "message"}
    BY DEF FormsOK, FormOK, SubmitInv, SubmitTypeOK
  <2> QED
    BY <2>2, <2>3 DEF Displayed
<1> QED
  BY <1>1, SubmissionInvariance, FormsInvariant, PTL
=============================================================================
